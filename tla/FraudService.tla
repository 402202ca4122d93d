---------------------------- MODULE FraudService ----------------------------
(* The stand-alone fraud service: POST /internal/fraud/score reads a claim    *)
(* with the rows about its worker, runs the rules and the model, stores the   *)
(* assessment over an earlier one and announces it.  Others file the claims   *)
(* and decide them.  What the rules read besides the claims is a signal s:    *)
(* whether one of the worker's last five sessions, not older than two hours   *)
(* before the claim, was on another device; the workers paid to the           *)
(* beneficiary; the hours, rounded up, from the purchase of the policy to the *)
(* event; the model's answer.  Scores are in ten-thousandths.                 *)
EXTENDS Integers, FiniteSets

CONSTANTS Filed,     \* claims that can be filed
          Asked,     \* those that are scored
          Standings, \* statuses of a filed claim
          WorkerOf,  \* the worker of a claim
          About,     \* the policy and the trigger of a claim
          Scorings,  \* concurrent requests
          Signals,
          NoResult

SignalType == [device: BOOLEAN, sharers: Nat, waited: Int, ml: {n \in Nat : n <= 10000}]

ASSUME ScoringAssumption ==
    /\ Asked \subseteq Filed
    /\ "pending" \in Standings /\ "absent" \notin Standings
    /\ Signals \subseteq SignalType

VARIABLES standing, \* the status of every claim
          fresh,    \* claims made in the last 24 hours
          file,     \* the model's file is there and readable
          model,    \* the model in memory
          scoring,  \* what every request has worked out and has still to do
          assessed  \* the stored assessment of every scored claim

scoringVars == <<standing, fresh, file, model, scoring, assessed>>

AtRest == [step |-> "rest", result |-> NoResult]

ScoringInit ==
    /\ standing = [c \in Filed |-> "absent"]
    /\ fresh = {}
    /\ file = FALSE
    /\ model = "unloaded"
    /\ scoring = [q \in Scorings |-> AtRest]
    /\ assessed = [c \in Asked |-> NoResult]

-----------------------------------------------------------------------------
(* The rules.  A rule that is not triggered is "LOW". *)

Severity(triggered, severity) == IF triggered THEN severity ELSE "LOW"

\* Faulty variant: the claim itself is left out.
AnotherClaim(c) ==
    Severity(\E d \in Filed \ {c} : /\ WorkerOf[d] = WorkerOf[c] /\ About[d] = About[c]
                                    /\ standing[d] \notin {"absent", "rejected"}, "CRITICAL")

\* The claims of the worker are looked through, the one being scored among them.
DuplicateClaim(c) ==
    Severity(\E d \in Filed : /\ WorkerOf[d] = WorkerOf[c] /\ About[d] = About[c]
                              /\ standing[d] \notin {"absent", "rejected"}, "CRITICAL")

Counted(c) == {d \in fresh : WorkerOf[d] = WorkerOf[c] /\ standing[d] \in {"approved", "pending"}}

Velocity(c) ==
    IF Cardinality(Counted(c)) >= 3 THEN "HIGH"
    ELSE Severity(Cardinality(Counted(c)) >= 2, "MEDIUM")

DeviceConsistency(s) == Severity(s.device, "MEDIUM")

\* The sessions that are read carry no position, so none is far from another.
ImpossibleTravel(located, far) == Severity(located /\ far, "HIGH")

BeneficiaryReuse(s) ==
    IF s.sharers > 10 THEN "CRITICAL" ELSE Severity(s.sharers > 3, "HIGH")

TimingAbuse(s) == Severity(s.waited \in 0..2, "HIGH")

RunRules(c, s) ==
    [duplicate |-> DuplicateClaim(c), velocity |-> Velocity(c), device |-> DeviceConsistency(s),
     travel |-> ImpossibleTravel(FALSE, TRUE), beneficiary |-> BeneficiaryReuse(s),
     timing |-> TimingAbuse(s)]

Critical(flags) == flags.duplicate = "CRITICAL" \/ flags.beneficiary = "CRITICAL"

\* Tenths.
Weight(severity) ==
    CASE severity = "MEDIUM" -> 5 [] severity = "HIGH" -> 8 [] OTHER -> 0

WeightSum(flags) ==
    Weight(flags.velocity) + Weight(flags.device) + Weight(flags.travel)
        + Weight(flags.beneficiary) + Weight(flags.timing)

Cap(n) == IF n > 10000 THEN 10000 ELSE n

RuleScore(flags) ==
    IF Critical(flags) THEN 10000 ELSE Cap((1000 * WeightSum(flags) + 1) \div 3)

-----------------------------------------------------------------------------
(* The model, and the score it gives together with the rules. *)

\* Loaded for the first score; a failure is remembered until the service restarts.
Loaded == IF model # "unloaded" THEN model ELSE IF file THEN "ready" ELSE "failed"

ModelScore(s) == IF Loaded = "ready" THEN s.ml ELSE 5000

\* Faulty variant: the model weighs as much as the rules.
FinalScoreUnscaled(flags, ml) ==
    IF Critical(flags) THEN 10000
    ELSE IF RuleScore(flags) >= ml THEN RuleScore(flags) ELSE ml

FinalScore(flags, ml) ==
    IF Critical(flags) THEN 10000
    ELSE IF RuleScore(flags) >= (6 * ml) \div 10 THEN RuleScore(flags) ELSE (6 * ml) \div 10

RiskTier(score) ==
    IF score >= 8500 THEN "CRITICAL"
    ELSE IF score >= 6500 THEN "HIGH" ELSE IF score >= 4500 THEN "MEDIUM" ELSE "LOW"

Decide(tier) ==
    IF tier = "CRITICAL" THEN "block" ELSE IF tier \in {"HIGH", "MEDIUM"} THEN "review" ELSE "allow"

\* own, the claim's status as it was read, is kept for the properties.
Assessment(c, s) ==
    LET flags == RunRules(c, s)
        tier == RiskTier(FinalScore(flags, ModelScore(s)))
    IN  [claim |-> c, own |-> standing[c], flags |-> flags, tier |-> tier,
         decision |-> Decide(tier)]

-----------------------------------------------------------------------------
(* Requests. *)

Continue(q, step, result) ==
    scoring' = [scoring EXCEPT ![q] = [step |-> step, result |-> result]]

\* Rules and model run without a pause on what was read.
ReadAndScore(q, c) ==
    /\ scoring[q] = AtRest
    /\ standing[c] # "absent"
    /\ \E s \in Signals : Continue(q, "store", Assessment(c, s))
    /\ model' = Loaded
    /\ UNCHANGED <<standing, fresh, file, assessed>>

\* The later of two writes stands, whichever claim it had read.
StoreAssessment(q) ==
    /\ scoring[q].step = "store"
    /\ assessed' = [assessed EXCEPT ![scoring[q].result.claim] = scoring[q].result]
    /\ Continue(q, "announce", scoring[q].result)
    /\ UNCHANGED <<standing, fresh, file, model>>

\* Onto a Redis list that nothing here reads.
AnnounceScore(q) ==
    /\ scoring[q].step = "announce"
    /\ Continue(q, "rest", NoResult)
    /\ UNCHANGED <<standing, fresh, file, model, assessed>>

\* The database or Redis does not answer; without Redis there is no list.
ScoringFails(q) ==
    /\ scoring[q].step # "rest"
    /\ Continue(q, "rest", NoResult)
    /\ UNCHANGED <<standing, fresh, file, model, assessed>>

ServiceRestarts ==
    /\ model' = "unloaded"
    /\ scoring' = [q \in Scorings |-> AtRest]
    /\ UNCHANGED <<standing, fresh, file, assessed>>

ReplaceModelFile ==
    /\ file' = ~file
    /\ UNCHANGED <<standing, fresh, model, scoring, assessed>>

-----------------------------------------------------------------------------
(* Others. *)

FileClaim(c) ==
    /\ standing[c] = "absent"
    /\ standing' = [standing EXCEPT ![c] = "pending"]
    /\ fresh' = fresh \cup {c}
    /\ UNCHANGED <<file, model, scoring, assessed>>

\* A claim is decided, appealed or paid.
MoveClaim(c) ==
    /\ standing[c] # "absent"
    /\ \E to \in Standings : standing' = [standing EXCEPT ![c] = to]
    /\ UNCHANGED <<fresh, file, model, scoring, assessed>>

DayPasses ==
    /\ \E old \in SUBSET fresh : fresh' = fresh \ old
    /\ UNCHANGED <<standing, file, model, scoring, assessed>>

ScoringNext ==
    \/ \E q \in Scorings : \/ \E c \in Asked : ReadAndScore(q, c)
                           \/ StoreAssessment(q) \/ AnnounceScore(q) \/ ScoringFails(q)
    \/ ServiceRestarts \/ ReplaceModelFile
    \/ \E c \in Filed : FileClaim(c) \/ MoveClaim(c)
    \/ DayPasses

ScoringSpec == ScoringInit /\ [][ScoringNext]_scoringVars

-----------------------------------------------------------------------------
Four(flags) ==
    /\ flags.velocity # "LOW" /\ flags.device # "LOW"
    /\ flags.beneficiary # "LOW" /\ flags.timing # "LOW"

\* A stored decision to block rests on a critical rule or on all
\* of the four others; the model alone never blocks.  And a claim that is not
\* blocked was rejected when it was read: any other finds itself among the
\* worker's claims and is taken for its own duplicate.
DecisionsGrounded ==
    \A c \in Asked :
        assessed[c] # NoResult =>
            IF assessed[c].decision = "block" THEN Critical(assessed[c].flags) \/ Four(assessed[c].flags)
            ELSE assessed[c].own = "rejected"
=============================================================================
