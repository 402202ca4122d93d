----------------------------- MODULE MCServices -----------------------------
(* What runs beside the requests of the API, for TLC: two services that watch *)
(* the weather, one that scores fraud, and the analysis of fraud clusters.    *)
(* They share no state, so each takes its steps while the others rest.        *)
EXTENDS MCTriggerPoller, TriggerEvaluator, FraudService, FraudClusters

CONSTANTS Weather, AirQuality, c1, c2, c3, c4, i1, i2, w1, w2, z1

VARIABLE running \* what takes steps

MCConditions == {HeavyRain}
MCOrder == [k \in {HeavyRain, LocalRestriction} |-> IF k = HeavyRain THEN 1 ELSE 4]
MCLasting == [k \in {HeavyRain} |-> 2]
MCMeasures == [a \in Adapters |-> IF a = Weather THEN {HeavyRain} ELSE {}]
MCDeployments == {{}, {Weather, AirQuality}}

(* Four claims of one worker, two about each of two triggers, so that four    *)
(* rules can be triggered and none of them critical; every rule that is not   *)
(* about claims triggered, or none and a confident model.                     *)
MCWorkerOf == [c \in Filed |-> "worker"]
MCAbout == [c \in Filed |-> IF c \in {c3, c4} THEN "flood" ELSE "storm"]
MCFraudSignals == {[device |-> TRUE, sharers |-> 5, waited |-> 1, ml |-> 0],
                   [device |-> FALSE, sharers |-> 0, waited |-> 80, ml |-> 9500]}

(* Two workers can share a device, and file claims in one zone. *)
MCBy == [i \in Incidents |-> IF i = i1 THEN w1 ELSE w2]
MCIn == [i \in Incidents |-> z1]

ServicesInit ==
    /\ running \in {"poller", "evaluator", "fraud", "clusters"}
    /\ Init /\ EvalInit /\ ScoringInit /\ GraphInit
    /\ running = "evaluator" \/ live = {}
    /\ running = "poller" \/ client = "str"

ServicesNext ==
    \/ running = "poller" /\ Next /\ UNCHANGED <<evalVars, scoringVars, graphVars, running>>
    \/ running = "evaluator" /\ EvalNext /\ UNCHANGED <<vars, scoringVars, graphVars, running>>
    \/ running = "fraud" /\ ScoringNext /\ UNCHANGED <<vars, evalVars, graphVars, running>>
    \/ running = "clusters" /\ GraphNext /\ UNCHANGED <<vars, evalVars, scoringVars, running>>

ServicesSpec ==
    ServicesInit /\ [][ServicesNext]_<<vars, evalVars, scoringVars, graphVars, running>>
=============================================================================
