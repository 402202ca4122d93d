----------------------------- MODULE FraudScore -----------------------------
(* score_claim: how a claim that was just created is scored, and what the     *)
(* claim becomes.  A signal s is what the engine reads for it: of the worker's *)
(* device (emulator, fingerprint), his claims (travel: one in another city     *)
(* within ten minutes; duplicate; first), his payouts in processing of the     *)
(* week, his policies (waited: hours from start to trigger; held: hours from   *)
(* start to now; reentry: one cancelled within seven days), the claim's tags,  *)
(* the model's answer (ml, tenths of a point), whether the model is in use,    *)
(* the zone's catastrophe mode, and the length of the review queue.            *)
EXTENDS Integers

SaturationLimit == 100 \* claims in review

Tags == {"ZONE_MISMATCH", "DEVICE_MISMATCH", "SHARED_DEVICE_CLUSTER"}

SignalSpace ==
    [emulator: BOOLEAN, fingerprint: BOOLEAN, travel: BOOLEAN, served: BOOLEAN,
     duplicate: BOOLEAN, first: BOOLEAN, payouts: Nat, waited: Int, held: Nat, reentry: BOOLEAN,
     tags: SUBSET Tags, ml: 0..1000, ruleOnly: BOOLEAN, catastrophe: BOOLEAN, queue: Nat]

Decisions == {"auto_approve", "hold", "manual_review", "auto_block"}

\* Scores of an assessment are in tenths of a point, points of a rule are whole.
Decision(score) ==
    IF score <= 300 THEN "auto_approve"
    ELSE IF score <= 650 THEN "hold"
    ELSE IF score <= 850 THEN "manual_review" ELSE "auto_block"

AtMost(limit, n) == IF n > limit THEN limit ELSE n
AtLeast(a, b) == IF a >= b THEN a ELSE b
Flag(condition, points) == IF condition THEN points ELSE 0

\* An emulator, or a claim in another city within minutes, ends the assessment.
GpsBlocks(s) == (s.fingerprint /\ s.emulator) \/ s.travel
GpsPoints(s) == Flag(~s.served /\ "ZONE_MISMATCH" \in s.tags, 25)

\* A duplicate or a policy bought again after a cancellation ends the rules.
RuleBlocks(s) == s.duplicate \/ s.reentry
RulePoints(s) ==
    AtMost(100, Flag(s.payouts > 3, 40)
              + Flag(s.waited < 24, 25)
              + Flag(s.fingerprint /\ "DEVICE_MISMATCH" \in s.tags, 30)
              + Flag("SHARED_DEVICE_CLUSTER" \in s.tags, 40)
              + Flag(s.first /\ s.held < 1, 20))

\* The model's score; without the model the rules decide alone.
ModelScore(s) == IF s.ruleOnly THEN 0 ELSE s.ml

\* The higher of the rules and the blend of rules and model, in tenths, rounded.
Blend(s) ==
    AtLeast(10 * (RulePoints(s) + GpsPoints(s)),
            (60 * RulePoints(s) + 4 * ModelScore(s) + 5) \div 10)

Score(s) ==
    IF GpsBlocks(s) \/ RuleBlocks(s) THEN 1000
    ELSE AtMost(1000, AtMost(1000, Blend(s)) + Flag(s.catastrophe, 150))

\* Codes of the rules that end an assessment; those of the others decide nothing.
BlockCodes(s) ==
    {code \in {"EMULATOR_DETECTED", "GPS_SPOOF_IMPOSSIBLE_TRAVEL", "DUPLICATE_CLAIM",
               "POLICY_REENTRY_COOLDOWN"} :
        CASE code = "EMULATOR_DETECTED" -> s.fingerprint /\ s.emulator
          [] code = "GPS_SPOOF_IMPOSSIBLE_TRAVEL" -> s.travel /\ ~(s.fingerprint /\ s.emulator)
          [] code = "DUPLICATE_CLAIM" -> s.duplicate /\ ~GpsBlocks(s)
          [] OTHER -> s.reentry /\ ~s.duplicate /\ ~GpsBlocks(s)}

\* A full review queue turns an approval into a hold, which joins that queue.
Assess(s) ==
    [score |-> Score(s), codes |-> BlockCodes(s),
     decision |-> IF Decision(Score(s)) = "auto_approve" /\ s.queue >= SaturationLimit
                  THEN "hold" ELSE Decision(Score(s))]

\* The status a claim is routed to; an approved one is paid in the same transaction.
Routed(decision) ==
    CASE decision = "auto_approve" -> "paid"
      [] decision \in {"hold", "manual_review"} -> "in_review"
      [] OTHER -> "blocked"

\* Assessments that POST /demo/reset writes without the engine.
Seeded == {[score |-> 120, codes |-> {}, decision |-> "LOW"],
           [score |-> 950, codes |-> {"GPS_SPOOF_DETECTED", "IMPOSSIBLE_TRAVEL", "EMULATOR_DETECTED"},
            decision |-> "CRITICAL"],
           [score |-> 880, codes |-> {"DUPLICATE_PAYOUT_DESTINATION"}, decision |-> "CRITICAL"]}
SeededStatus(decision) == IF decision = "LOW" THEN "paid" ELSE "blocked"
=============================================================================
