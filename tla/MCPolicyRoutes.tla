--------------------------- MODULE MCPolicyRoutes ---------------------------
(* Instances of PolicyRoutes for TLC. *)
EXTENDS PolicyRoutes, TLC

(* A worker in a safe area at the premium floor, and one not yet profiled. *)
MCProfiles ==
  {[profiled |-> TRUE, location |-> 0, disruption |-> 0, hours |-> 8, platform |-> "other",
    earnings |-> 400, standard |-> 2900],
   [profiled |-> FALSE, location |-> 5, disruption |-> 5, hours |-> 4, platform |-> "swiggy",
    earnings |-> 5000, standard |-> 29900]}

MCClaimHistories == {[resolved |-> 2, clean |-> 2, flags |-> 0]}

MCSymmetry == Permutations(Holders) \cup Permutations(Quotes) \cup Permutations(Policies)
=============================================================================
