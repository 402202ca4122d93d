--------------------------- MODULE MCTriggerPoller ---------------------------
(* Instances of TriggerPoller for TLC: HeavyRain and SeverePollution stand   *)
(* for the timed kinds, LocalRestriction for the local ones.                 *)
EXTENDS TriggerPoller

CONSTANTS HeavyRain, SeverePollution, LocalRestriction

MCFeeds == <<HeavyRain, SeverePollution>>
MCLocal == <<LocalRestriction>>
MCDuration == [k \in Timed |-> IF k = HeavyRain THEN 1 ELSE 2]
=============================================================================
