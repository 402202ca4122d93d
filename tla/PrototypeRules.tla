--------------------------- MODULE PrototypeRules ---------------------------
(* The rules of the TypeScript prototype that read a worker's profile and     *)
(* change nothing, and the reading of a trigger that is ingested.             *)
(* Shares of one (location consistency, confidence) are in hundredths.        *)
EXTENDS Integers

Segments == {"low", "medium", "high"}

Segment(p) ==
    IF p.consistency >= 90 /\ p.hours >= 60 THEN "low"
    ELSE IF p.consistency >= 75 THEN "medium" ELSE "high"

CoverageCap(segment, plan) ==
    LET base == [low |-> 2500, medium |-> 1800, high |-> 1200][segment]
    IN  (base * [basic |-> 10, standard |-> 14, pro |-> 18][plan]) \div 10

Points(condition, points) == IF condition THEN points ELSE 0

\* What the account itself adds to the fraud score of a claim.
AccountScore(p, amount) ==
      Points(p.consistency < 75, 35)
    + Points(~p.verified, 80)
    + Points(amount > 2000, 20)
    + Points(p.age < 30, 25)
    + Points(p.trust < 400, 30)
    + Points(p.trust \in 400..599, 15)

\* What the recent claims add, where the route looks at them.
VelocityScore(context) ==
      Points(context.day >= 3, 40)
    + Points(context.day = 2, 20)
    + Points(context.week >= 7, 30)
    + Points(context.linked >= 2, 25)
    + Points(context.trigger >= 5, 20)

\* The thresholds need not be in order: the highest class they allow applies.
FraudDecision(score, thresholds) ==
    CASE score >= thresholds.critical -> "critical"
      [] score < thresholds.critical /\ score >= thresholds.high -> "high"
      [] score < thresholds.critical /\ score < thresholds.high /\ score >= thresholds.medium -> "medium"
      [] OTHER -> "low"

Synonyms == [rain |-> "heavy_rain", storm |-> "heavy_rain", flood |-> "heavy_rain",
             pollution |-> "severe_pollution", smog |-> "severe_pollution",
             outage |-> "platform_outage", downtime |-> "platform_outage"]

\* The type a trigger is evaluated by; the claims it makes keep the type it came with.
NormalType(type) == IF type \in DOMAIN Synonyms THEN Synonyms[type] ELSE type

\* Confidence of a trigger: what its sender gives, or the source's own signal.
\* Without an external adapter it is cut at 0.7.
Confidence(source, given, signal) ==
    LET base == IF given \in 0..100 THEN given ELSE signal
    IN  IF source \in {"manual", "synthetic"} /\ base > 70 THEN 70 ELSE base

\* Triggers before which a policy has to have waited.
WaitingTypes == {"heavy_rain", "severe_pollution", "local_restriction", "curfew"}
=============================================================================
