---------------------------- MODULE MCPrototype ----------------------------
(* PrototypeClaims with small values for TLC: hours and minutes are shrunk to *)
(* a few ticks, in the order of the code's windows.                           *)
EXTENDS PrototypeClaims

CONSTANTS storm, outage \* incidents

Steady == [zone |-> "north", consistency |-> 80, hours |-> 60, verified |-> TRUE, age |-> 90, trust |-> 500]
Suspect == [Steady EXCEPT !.age = 10, !.trust = 350]

MCProfiles == {Steady, Suspect}
MCNewProfiles == {Steady}
MCWaiting == [s \in Segments |-> IF s = "low" THEN 0 ELSE 1]
MCEvent ==
    [e \in Incidents |->
        [type |-> IF e = storm THEN "storm" ELSE "platform_outage",
         zone |-> "north", source |-> "weather", given |-> 60, signal |-> 80]]
MCThresholds == {[critical |-> 10, high |-> 10, medium |-> 10]}
MCDefault == [critical |-> 80, high |-> 55, medium |-> 30]
=============================================================================
