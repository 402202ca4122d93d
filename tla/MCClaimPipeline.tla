--------------------------- MODULE MCClaimPipeline ---------------------------
(* Instances of ClaimPipeline for TLC. *)
EXTENDS ClaimPipeline

(* Every worker is eligible for every trigger. *)
MCEligible == [t \in Triggers |-> Workers]
=============================================================================
