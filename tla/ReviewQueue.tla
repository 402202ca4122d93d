---------------------------- MODULE ReviewQueue ----------------------------
(* Claims waiting for a decision: POST /admin/review-queue/{id}/decide of     *)
(* several reviewers, and POST /claims/{id}/appeal of the worker.  Each       *)
(* request reads the claim in one database round trip and writes it in a      *)
(* later one; no row is locked or versioned.  PATCH /admin/claims/{id}/review  *)
(* always raises.                                                            *)
EXTENDS FraudScore, FiniteSets

CONSTANTS Claims,     \* claims as the pipeline or the demo left them: in review, blocked or paid
          Reviewers,  \* people who decide, each with one request at a time
          RiskAdmins, \* those with the RISK_ADMIN role; the others are REVIEWER
          Appeals,    \* appeal requests, one per element
          Signals,    \* what the fraud engine read when the claims were made
          OrmClaims,  \* claims whose row is as the ORM loads it, initiated_at without a
                      \* time zone; the rows of the others are as the tests build them
          None        \* no claim

ASSUME ReviewConstants == 
    RiskAdmins \subseteq Reviewers /\ OrmClaims \subseteq Claims /\ Signals \subseteq SignalSpace

VARIABLES claims,    \* claims[c]: its status and its fraud assessment
          reviews,   \* reviews[r]: how far the decide request of r is
          appeals,   \* appeals[a]: how far appeal request a is
          announced, \* claims whose claim.approved event was published
          approved,  \* history: claims whose approval was committed
          unsent,    \* history: claims whose approval was committed and not published
          overlaps   \* history: claims read by a request while another was about to write them

reviewVars == <<claims, reviews, appeals, announced, approved, unsent, overlaps>>

Verdicts == {"APPROVE", "REJECT"}
Statuses == {"in_review", "approved", "rejected", "blocked", "paid"}
Assessments == {Assess(s) : s \in Signals} \cup Seeded
Phases == {"idle", "read", "committed", "failed"}

TypeOK ==
    /\ claims \in [Claims -> [status: Statuses, fraud: Assessments]]
    /\ reviews \in [Reviewers -> [at: Phases, claim: Claims \cup {None}, verdict: Verdicts]]
    /\ appeals \in [Appeals -> [at: {"idle", "read", "done"}, claim: Claims \cup {None}]]
    /\ announced \subseteq Claims
    /\ approved \subseteq Claims
    /\ unsent \subseteq Claims
    /\ overlaps \subseteq Claims

CriticalCodes == {"IDENTITY_MISMATCH", "IMPOSSIBLE_TRAVEL", "DUPLICATE_PAYOUT_DESTINATION"}

\* Faulty variant: the tiers start where the engine's decisions end.
RiskTierAfter(fraud) ==
    IF fraud.codes \cap CriticalCodes # {} \/ fraud.score > 950 THEN "CRITICAL"
    ELSE IF fraud.score > 700 THEN "HIGH"
    ELSE IF fraud.score > 300 THEN "MEDIUM" ELSE "LOW"

RiskTier(fraud) ==
    IF fraud.codes \cap CriticalCodes # {} \/ fraud.score >= 850 THEN "CRITICAL"
    ELSE IF fraud.score >= 650 THEN "HIGH"
    ELSE IF fraud.score >= 300 THEN "MEDIUM" ELSE "LOW"

\* Faulty variant: the table of roles has no entry for CRITICAL.
AuthorizedUpToHigh(r, c) ==
    CASE RiskTier(claims[c].fraud) = "HIGH" -> r \in RiskAdmins
      [] RiskTier(claims[c].fraud) = "CRITICAL" -> FALSE
      [] OTHER -> TRUE

\* HIGH and CRITICAL claims need a RISK_ADMIN, the others any reviewer.
Authorized(r, c) == RiskTier(claims[c].fraud) \in {"HIGH", "CRITICAL"} => r \in RiskAdmins

\* What the state machine allows: the table, and a rejection from anywhere.
Transitions == {<<"in_review", "approved">>, <<"in_review", "rejected">>,
                <<"initiated", "in_review">>, <<"initiated", "approved">>, <<"approved", "paid">>}
ValidTransition(from, to) == to = "rejected" \/ <<from, to>> \in Transitions

Decided(verdict) == IF verdict = "APPROVE" THEN "approved" ELSE "rejected"

Answered == [at |-> "idle", claim |-> None, verdict |-> "REJECT"]
Failed == [Answered EXCEPT !.at = "failed"]

\* Requests on c that have read it and not written it yet.
Pending(c) ==
    \/ \E r \in Reviewers : reviews[r].claim = c /\ reviews[r].at = "read"
    \/ \E a \in Appeals : appeals[a].claim = c /\ appeals[a].at = "read"
NoteOverlap(c) == overlaps' = IF Pending(c) THEN overlaps \cup {c} ELSE overlaps

\* A decide request loads the claim and passes the checks of status and role.
ReadForDecision(r, c, verdict) ==
    /\ reviews[r].at = "idle"
    /\ claims[c].status = "in_review"
    /\ Authorized(r, c)
    /\ c \notin OrmClaims
    /\ ValidTransition(claims[c].status, Decided(verdict))
    /\ reviews' = [reviews EXCEPT ![r] = [at |-> "read", claim |-> c, verdict |-> verdict]]
    /\ NoteOverlap(c)
    /\ UNCHANGED <<claims, appeals, announced, approved, unsent>>

\* Without a time zone the deadline cannot be compared with now: the request
\* ends before it changes anything.
DecisionRaises(r, c) ==
    /\ reviews[r].at = "idle"
    /\ claims[c].status = "in_review"
    /\ Authorized(r, c)
    /\ c \in OrmClaims
    /\ reviews' = [reviews EXCEPT ![r] = Failed]
    /\ UNCHANGED <<claims, appeals, announced, approved, unsent, overlaps>>

\* PATCH /admin/claims/{id}/review names a variable that does not exist before
\* it changes anything.
AdminReviewRaises(r, c) ==
    /\ reviews[r].at = "idle"
    /\ claims[c].status = "in_review"
    /\ reviews' = [reviews EXCEPT ![r] = Failed]
    /\ UNCHANGED <<claims, appeals, announced, approved, unsent, overlaps>>

\* The claim and its assessment are updated in one transaction, whatever
\* another request has committed to them since they were read.
CommitDecision(r) ==
    LET c == reviews[r].claim IN
    /\ reviews[r].at = "read"
    /\ claims' = [claims EXCEPT ![c].status = Decided(reviews[r].verdict)]
    /\ reviews' = [reviews EXCEPT ![r] = IF @.verdict = "APPROVE"
                                         THEN [@ EXCEPT !.at = "committed"] ELSE Answered]
    /\ approved' = IF reviews[r].verdict = "APPROVE" THEN approved \cup {c} ELSE approved
    /\ UNCHANGED <<appeals, announced, unsent, overlaps>>

\* Faulty variant: the event is dropped if the claim has changed since.
AnnounceIfStill(r) ==
    /\ reviews[r].at = "committed"
    /\ reviews' = [reviews EXCEPT ![r] = Answered]
    /\ announced' = announced \cup {c \in {reviews[r].claim} : claims[c].status = "approved"}
    /\ UNCHANGED <<claims, appeals, approved, unsent, overlaps>>

AnnounceApproval(r) ==
    /\ reviews[r].at = "committed"
    /\ reviews' = [reviews EXCEPT ![r] = Answered]
    /\ announced' = announced \cup {reviews[r].claim}
    /\ UNCHANGED <<claims, appeals, approved, unsent, overlaps>>

\* A commit or a publication raises, or the replica dies.
DecisionFails(r) ==
    /\ reviews[r].at \in {"read", "committed"}
    /\ reviews' = [reviews EXCEPT ![r] = Failed]
    /\ unsent' = IF reviews[r].at = "committed" THEN unsent \cup {reviews[r].claim} ELSE unsent
    /\ UNCHANGED <<claims, appeals, announced, approved, overlaps>>

SendAgain(r) ==
    /\ reviews[r].at = "failed"
    /\ reviews' = [reviews EXCEPT ![r] = Answered]
    /\ UNCHANGED <<claims, appeals, announced, approved, unsent, overlaps>>

\* Faulty variant: any decision can be appealed.
AppealDecided(a, c) ==
    /\ appeals[a].at = "idle"
    /\ claims[c].status \in {"approved", "rejected", "blocked"}
    /\ appeals' = [appeals EXCEPT ![a] = [at |-> "read", claim |-> c]]
    /\ NoteOverlap(c)
    /\ UNCHANGED <<claims, reviews, announced, approved, unsent>>

ReadForAppeal(a, c) ==
    /\ appeals[a].at = "idle"
    /\ claims[c].status \in {"rejected", "blocked"}
    /\ appeals' = [appeals EXCEPT ![a] = [at |-> "read", claim |-> c]]
    /\ NoteOverlap(c)
    /\ UNCHANGED <<claims, reviews, announced, approved, unsent>>

CommitAppeal(a) ==
    /\ appeals[a].at = "read"
    /\ claims' = [claims EXCEPT ![appeals[a].claim].status = "in_review"]
    /\ appeals' = [appeals EXCEPT ![a].at = "done"]
    /\ UNCHANGED <<reviews, announced, approved, unsent, overlaps>>

\* A claim as the engine's decision, or POST /demo/reset, leaves it.
Entering == {[status |-> Routed(Assess(s).decision), fraud |-> Assess(s)] : s \in Signals}
            \cup {[status |-> SeededStatus(f.decision), fraud |-> f] : f \in Seeded}

ReviewInit ==
    /\ claims \in [Claims -> Entering]
    /\ reviews = [r \in Reviewers |-> Answered]
    /\ appeals = [a \in Appeals |-> [at |-> "idle", claim |-> None]]
    /\ announced = {}
    /\ approved = {}
    /\ unsent = {}
    /\ overlaps = {}

Decide(r) ==
    \/ \E c \in Claims, verdict \in Verdicts : ReadForDecision(r, c, verdict)
    \/ \E c \in Claims : DecisionRaises(r, c) \/ AdminReviewRaises(r, c)
    \/ CommitDecision(r)
    \/ AnnounceApproval(r)
    \/ DecisionFails(r)
    \/ SendAgain(r)

Appeal(a) ==
    \/ \E c \in Claims : ReadForAppeal(a, c)
    \/ CommitAppeal(a)

ReviewNext ==
    \/ \E r \in Reviewers : Decide(r)
    \/ \E a \in Appeals : Appeal(a)

ReviewSpec == ReviewInit /\ [][ReviewNext]_reviewVars

\* Reviewers take every claim of the queue again and again, whatever they decide,
\* and the database does not refuse every commit.
ReviewFairness ==
    /\ \A r \in Reviewers :
          /\ WF_reviewVars(SendAgain(r))
          /\ WF_reviewVars(AnnounceApproval(r))
          /\ SF_reviewVars(CommitDecision(r))
          /\ \A c \in Claims : SF_reviewVars(DecisionRaises(r, c) \/
                                            \E v \in Verdicts : ReadForDecision(r, c, v))
    /\ \A a \in Appeals : WF_reviewVars(CommitAppeal(a))

ReviewFairSpec == ReviewSpec /\ ReviewFairness
-----------------------------------------------------------------------------
\* The database holds the last decision and no other: an approval (which may
\* have been announced, and paid) is undone only where two requests on the
\* claim overlapped, for none of them locks it.
ApprovalStands == \A c \in approved \ overlaps : claims[c].status = "approved"

\* An approval that was committed is announced, is about to be, or belongs to a
\* request that failed after its commit; nothing is announced without one.
ApprovalsAnnounced ==
    /\ announced \subseteq approved
    /\ \A c \in approved \ (announced \cup unsent) :
          \E r \in Reviewers : reviews[r].at = "committed" /\ reviews[r].claim = c

\* The engine's scale and the queue's tiers are two tables: whatever the engine
\* stopped or sent to manual review (also one it blocked, once it was appealed)
\* is approved by a RISK_ADMIN only.
StoppedNeedsAdmin ==
    [][\A c \in Claims :
          (/\ claims[c].fraud.decision \in {"manual_review", "auto_block", "CRITICAL"}
           /\ claims[c].status # "approved" /\ claims'[c].status = "approved")
          => \E r \in RiskAdmins : reviews[r].claim = c /\ reviews'[r].at = "committed"]_reviewVars

\* A claim in review whose deadline can be computed is decided in the end.
ComparableDecided ==
    \A c \in Claims \ OrmClaims : claims[c].status = "in_review" ~> claims[c].status # "in_review"

\* Every claim in review is decided in the end, as the answer to an appeal promises.
ReviewedEventually ==
    \A c \in Claims : claims[c].status = "in_review" ~> claims[c].status # "in_review"
=============================================================================
