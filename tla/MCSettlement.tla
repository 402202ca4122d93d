---------------------------- MODULE MCSettlement ----------------------------
(* Settlement with small sets for TLC: a claim that is held and one that is   *)
(* approved and paid at once.                                                 *)
EXTENDS Settlement

Ordinary == [emulator |-> FALSE, fingerprint |-> TRUE, travel |-> FALSE, served |-> TRUE,
             duplicate |-> FALSE, first |-> FALSE, payouts |-> 0, waited |-> 80, held |-> 90,
             reentry |-> FALSE, tags |-> {}, ml |-> 300, ruleOnly |-> FALSE,
             catastrophe |-> FALSE, queue |-> 3]
MCSignals == {Ordinary, [Ordinary EXCEPT !.payouts = 4]}
=============================================================================
