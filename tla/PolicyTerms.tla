----------------------------- MODULE PolicyTerms -----------------------------
(***************************************************************************)
(* What the policy rows of PolicyLifecycle say besides their status and    *)
(* dates: plan, premium and cover; and the worker they are priced from.    *)
(* Which of the two policy routers is mounted is a choice made once.       *)
(***************************************************************************)
EXTENDS PolicyLifecycle, Pricing

CONSTANTS Profiles,        \* pricing data the worker can have
          ClaimHistories   \* claims the trust score can count

ASSUME TermsAssumption ==
  /\ \A w \in Profiles :
       /\ w.profiled \in BOOLEAN /\ w.location \in 0..10 /\ w.disruption \in 0..10
       /\ w.hours \in {4 * k : k \in 0..6} /\ w.platform \in {"swiggy", "zomato", "other"}
       /\ w.earnings \in Nat /\ w.standard \in Floor..ModelCeiling
  /\ \A c \in ClaimHistories :
       c.resolved \in Nat /\ c.clean \in 0..c.resolved /\ c.flags \in Nat

VARIABLES router,    \* "policies" (mounted by app.py) or "policy"
          profile,   \* the worker's pricing data
          terms      \* terms[p]: plan, weekly_premium and coverage_cap of a row

NoTerms == [plan |-> "none", premium |-> 0, cap |-> 0]

TermsInit ==
  /\ Init
  /\ router \in {"policies", "policy"}
  /\ profile \in Profiles
  /\ terms = [p \in Policies |-> NoTerms]

(* The risk profile is computed, or hours, earnings or platform change. *)
ProfileChanges ==
  /\ profile' \in Profiles \ {profile}
  /\ UNCHANGED <<vars, router, terms>>

TermsTypeOK ==
  /\ TypeOK
  /\ router \in {"policies", "policy"}
  /\ profile \in Profiles
  /\ terms \in [Policies -> [plan : Plans \cup {"none"}, premium : Nat, cap : Nat]]
=============================================================================
