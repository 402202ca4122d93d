---------------------------- MODULE PolicyRoutes ----------------------------
(***************************************************************************)
(* The policy routes of one worker under either router, over the rows they *)
(* share.  Every step is a step of PolicyLifecycle or leaves it alone.     *)
(***************************************************************************)
EXTENDS PolicyQuotes, PolicyPlans

routeVars == <<vars, router, profile, terms, quoteVars, planVars>>

RoutesInit == TermsInit /\ QuotesInit /\ PlansInit

RoutesNext ==
  \/ Tick /\ UNCHANGED <<router, profile, terms, quoteVars, planVars>>
  \/ ProfileChanges /\ UNCHANGED <<quoteVars, planVars>>
  \/ router = "policies" /\ QuotesNext /\ UNCHANGED planVars
  \/ router = "policy" /\ PlansNext /\ UNCHANGED quoteVars

RoutesSpec == RoutesInit /\ [][RoutesNext]_routeVars

RoutesTypeOK == TermsTypeOK /\ QuotesTypeOK /\ PlansTypeOK

(* An active policy never covers more than its plan allows: plan and cover *)
(* are separate columns, priced, capped and written by different requests, *)
(* and two requests that held the row at once may leave the cover of one   *)
(* plan under the name of another.                                         *)
CoverWithinPlan == \A p \in Active \ overlapped : terms[p].cap <= CapMax[terms[p].plan]

(* However often a policy is renewed, upgraded or downgraded, its premium  *)
(* stays between the bounds of its engine: the second trust discount of    *)
(* routers/policy.py takes it below the floor once, and never compounds.   *)
PremiumBounded ==
  \A p \in Active :
    IF router = "policies" THEN terms[p].premium \in Floor..Ceiling
    ELSE terms[p].premium \in Discounted(Floor, "gold")..(299 * PremiumModifier["pro"])
=============================================================================
