--------------------------- MODULE MCReviewQueue ---------------------------
(* ReviewQueue with small sets for TLC.  The signals are chosen for where the *)
(* engine's scale and the queue's tiers could disagree: claims just above the *)
(* bound of a manual review, held by the rules alone, held for a full queue,  *)
(* and stopped by a rule.                                                     *)
EXTENDS ReviewQueue

Ordinary == [emulator |-> FALSE, fingerprint |-> TRUE, travel |-> FALSE, served |-> TRUE,
             duplicate |-> FALSE, first |-> FALSE, payouts |-> 0, waited |-> 80, held |-> 90,
             reentry |-> FALSE, tags |-> {}, ml |-> 300, ruleOnly |-> FALSE,
             catastrophe |-> FALSE, queue |-> 3]

MCSignals == {[Ordinary EXCEPT !.queue = 100],
              [Ordinary EXCEPT !.payouts = 4, !.waited = 5],
              [Ordinary EXCEPT !.payouts = 4, !.first = TRUE, !.held = 0, !.ml = 800],
              [Ordinary EXCEPT !.waited = 5, !.first = TRUE, !.held = 0, !.catastrophe = TRUE],
              [Ordinary EXCEPT !.travel = TRUE]}
MCOneSignal == {Ordinary, [Ordinary EXCEPT !.payouts = 4]}
=============================================================================
