------------------------- MODULE PolicyRoutesProofs -------------------------
(***************************************************************************)
(* Proofs about PolicyLifecycle, for every set of policies and requests,   *)
(* every length of the week and every bound, and about PolicyRoutes.       *)
(* Either router implements PolicyLifecycle, so that what is proved of the *)
(* policy rows holds with quotes, upgrades, downgrades and views as well;  *)
(* a cached view is fresh, cover and premium of a row stay within plan and *)
(* engine, and a quote is honoured.                                        *)
(***************************************************************************)
EXTENDS PolicyRoutes, FiniteSetTheorems, TLAPS

-----------------------------------------------------------------------------
(* The lifecycle of the rows.                                              *)

(* A row that a request holds exists, and what the request read of it still *)
(* agrees with its start, which nothing changes.                            *)
HeldRow(h) ==
  held[h].op # "none" =>
    /\ held[h].id \in Policies
    /\ policy[held[h].id].status # "none"
    /\ held[h].end = policy[held[h].id].start + Week * (held[h].renewals + 1)

EndInv ==
  /\ TypeOK
  /\ \A h \in Holders : HeldRow(h)
  /\ EndMatchesRenewals

LEMMA OneMoreWeek ==
  ASSUME NEW w \in Nat, NEW s \in Nat, NEW n \in Nat
  PROVE  /\ s + w * (n + 1) + w = s + w * (n + 1 + 1)
         /\ s + w = s + w * (0 + 1)
         /\ s + w * (n + 1) + w \in Nat
  OBVIOUS

LEMMA InitEndInv == Init => EndInv
  <1> SUFFICES ASSUME Init PROVE EndInv
    OBVIOUS
  <1>1. raced \in BOOLEAN
    BY DEF Init
  <1>2. EndInv
    BY <1>1, PolicyAssumption
    DEF Init, EndInv, TypeOK, HeldRow, EndMatchesRenewals, Active, NoPolicy, NotHolding
  <1> QED
    BY <1>2

LEMMA NextEndInv == EndInv /\ [Next]_vars => EndInv'
  <1> SUFFICES ASSUME EndInv, [Next]_vars PROVE EndInv'
    OBVIOUS
  <1> USE PolicyAssumption DEF EndInv, TypeOK, HeldRow, EndMatchesRenewals, Active
  <1>1. CASE Tick
    BY <1>1 DEF Tick
  <1>2. ASSUME NEW b \in Buyers, BeginPurchase(b) PROVE EndInv'
    BY <1>2 DEF BeginPurchase
  <1>3. ASSUME NEW b \in Buyers, Purchase(b) PROVE EndInv'
    <2>1. PICK p \in Policies :
            /\ policy[p] = NoPolicy
            /\ policy' = [policy EXCEPT ![p] = [status |-> "active", start |-> now,
                                                end |-> now + Week, renewals |-> 0]]
      BY <1>3 DEF Purchase
    <2>2. now + Week = now + Week * (0 + 1) /\ now \in Nat
      BY OneMoreWeek
    <2>3. TypeOK'
      BY <1>3, <2>1 DEF Purchase
    <2>4. \A h \in Holders : HeldRow(h)'
      BY <1>3, <2>1 DEF Purchase, NoPolicy
    <2>5. EndMatchesRenewals'
      BY <1>3, <2>1, <2>2 DEF Purchase
    <2> QED
      BY <2>3, <2>4, <2>5
  <1>4. ASSUME NEW b \in Buyers, AbandonPurchase(b) PROVE EndInv'
    BY <1>4 DEF AbandonPurchase
  <1>5. ASSUME NEW h \in Holders, NEW op \in {"renew", "cancel"}, NEW p \in Policies,
               Read(h, op, p)
        PROVE  EndInv'
    BY <1>5 DEF Read
  <1>6. ASSUME NEW h \in Holders, Renew(h) PROVE EndInv'
    <2> DEFINE q == held[h].id
    <2>1. /\ q \in Policies /\ policy[q].status # "none"
          /\ held[h].renewals \in Nat /\ policy[q].start \in Nat
          /\ held[h].end = policy[q].start + Week * (held[h].renewals + 1)
      BY <1>6 DEF Renew
    <2>2. policy' = [policy EXCEPT ![q] = [policy[q] EXCEPT !.end = held[h].end + Week,
                                                          !.renewals = held[h].renewals + 1]]
      BY <1>6, <2>1 DEF Renew
    <2>3. held[h].end + Week = policy[q].start + Week * (held[h].renewals + 1 + 1)
      BY <2>1, OneMoreWeek
    <2>4. TypeOK'
      BY <1>6, <2>1, <2>2 DEF Renew, Release, NotHolding
    <2>5. \A g \in Holders : HeldRow(g)'
      BY <1>6, <2>1, <2>2 DEF Renew, Release, NotHolding
    <2>6. EndMatchesRenewals'
      BY <1>6, <2>1, <2>2, <2>3 DEF Renew
    <2> QED
      BY <2>4, <2>5, <2>6
  <1>7. ASSUME NEW h \in Holders, Cancel(h) PROVE EndInv'
    <2> DEFINE q == held[h].id
    <2>1. q \in Policies
      BY <1>7 DEF Cancel
    <2>2. policy' = [policy EXCEPT ![q] = [policy[q] EXCEPT !.status = "cancelled", !.end = now]]
      BY <1>7, <2>1 DEF Cancel
    <2>3. TypeOK'
      BY <1>7, <2>1, <2>2 DEF Cancel, Release, NotHolding
    <2>4. \A g \in Holders : HeldRow(g)'
      BY <1>7, <2>1, <2>2 DEF Cancel, Release, NotHolding
    <2>5. EndMatchesRenewals'
      BY <1>7, <2>1, <2>2 DEF Cancel
    <2> QED
      BY <2>3, <2>4, <2>5
  <1>8. ASSUME NEW h \in Holders, Forget(h) PROVE EndInv'
    BY <1>8 DEF Forget, Release, NotHolding
  <1>9. CASE UNCHANGED vars
    BY <1>9 DEF vars
  <1> QED
    BY <1>1, <1>2, <1>3, <1>4, <1>5, <1>6, <1>7, <1>8, <1>9 DEF Next

LEMMA EndInvariant == Spec => []EndInv
  BY InitEndInv, NextEndInv, PTL DEF Spec

(* Type correctness of the policy rows and of the requests that hold them.  *)
THEOREM PolicyTypeCorrect == Spec => []TypeOK
  BY EndInvariant, PTL DEF EndInv

(* However renewals overlap, the end date of an active policy is its start  *)
(* plus one week and one for every renewal its row counts.                  *)
THEOREM EndsMatchRenewals == Spec => []EndMatchesRenewals
  BY EndInvariant, PTL DEF EndInv

(* No request brings a cancelled policy back.                               *)
THEOREM CancellationsLast == Spec => CancelledForGood
  <1> DEFINE Stays == \A p \in Policies :
                        policy[p].status = "cancelled" => policy'[p].status = "cancelled"
  <1>1. EndInv /\ [Next]_vars => [Stays]_vars
    <2> SUFFICES ASSUME EndInv, Next PROVE Stays
      OBVIOUS
    <2>1. CASE UNCHANGED policy
      BY <2>1
    <2>2. ASSUME NEW b \in Buyers, Purchase(b) PROVE Stays
      BY <2>2 DEF Purchase, NoPolicy, EndInv, TypeOK
    <2>3. ASSUME NEW h \in Holders, Renew(h) \/ Cancel(h) PROVE Stays
      <3>1. policy \in [Policies -> [status : {"none", "active", "cancelled"}, start : Nat,
                                     end : Nat, renewals : Nat]]
        BY DEF EndInv, TypeOK
      <3> QED
        BY <2>3, <3>1 DEF Renew, Cancel
    <2> QED
      BY <2>1, <2>2, <2>3
      DEF Next, Tick, BeginPurchase, AbandonPurchase, Read, Forget
  <1> QED
    BY <1>1, EndInvariant, PTL DEF Spec, CancelledForGood

-----------------------------------------------------------------------------
(* One purchase at a time. *)

(* Unless two purchases raced, at most one is under way, and it still finds *)
(* no active policy.                                                        *)
AloneInv ==
  /\ EndInv
  /\ ~raced => /\ \A p, q \in Active : p = q
               /\ \A b \in Buyers : buying[b] => Active = {}
               /\ \A b, c \in Buyers : buying[b] /\ buying[c] => b = c

LEMMA NextAloneInv == AloneInv /\ [Next]_vars => AloneInv'
  <1> SUFFICES ASSUME AloneInv, [Next]_vars PROVE AloneInv'
    OBVIOUS
  <1>0. EndInv'
    BY NextEndInv DEF AloneInv
  <1> USE DEF AloneInv, EndInv, TypeOK, Active
  <1>1. ASSUME NEW b \in Buyers, BeginPurchase(b) PROVE AloneInv'
    <2>1. Active' = Active /\ Active = {} /\ buying' = [buying EXCEPT ![b] = TRUE]
      BY <1>1 DEF BeginPurchase
    <2>2. ~raced' => ~raced /\ \A c \in Buyers : ~buying[c]
      BY <1>1 DEF BeginPurchase
    <2> QED
      BY <1>0, <2>1, <2>2
  <1>2. ASSUME NEW b \in Buyers, Purchase(b) PROVE AloneInv'
    BY <1>0, <1>2 DEF Purchase
  <1>3. ASSUME NEW b \in Buyers, AbandonPurchase(b) PROVE AloneInv'
    BY <1>0, <1>3 DEF AbandonPurchase
  <1>4. ASSUME NEW h \in Holders, Renew(h) \/ Cancel(h) PROVE AloneInv'
    <2>1. policy \in [Policies -> [status : {"none", "active", "cancelled"}, start : Nat,
                                   end : Nat, renewals : Nat]]
      OBVIOUS
    <2>2. Active' \subseteq Active
      BY <1>4, <2>1 DEF Renew, Cancel
    <2>3. buying' = buying /\ raced' = raced
      BY <1>4 DEF Renew, Cancel
    <2> QED
      BY <1>0, <2>2, <2>3
  <1>5. CASE UNCHANGED <<policy, buying, raced>>
    BY <1>0, <1>5
  <1> QED
    BY <1>1, <1>2, <1>3, <1>4, <1>5 DEF Next, Tick, Read, Forget, vars

(* Unless two purchases are under way at once, a worker has at most one     *)
(* active policy, whatever the renewals and cancellations do meanwhile.     *)
THEOREM OneActivePolicy == Spec => []AtMostOneActive
  <1>1. Init => AloneInv
    BY InitEndInv DEF Init, AloneInv, Active, NoPolicy
  <1>2. AloneInv => AtMostOneActive
    <2> SUFFICES ASSUME AloneInv, ~raced PROVE Cardinality(Active) <= 1
      BY DEF AtMostOneActive
    <2>1. CASE Active = {}
      BY <2>1, FS_EmptySet
    <2>2. CASE Active # {}
      <3>1. PICK p \in Active : Active = {p}
        BY <2>2 DEF AloneInv
      <3> QED
        BY <3>1, FS_Singleton
    <2> QED
      BY <2>1, <2>2
  <1> QED
    BY <1>1, <1>2, NextAloneInv, PTL DEF Spec

-----------------------------------------------------------------------------
(* The routes implement the lifecycle of the rows.                         *)

LEMMA QuotesStep == QuotesNext => [Next]_vars
  <1> SUFFICES ASSUME QuotesNext PROVE [Next]_vars
    OBVIOUS
  <1>1. ASSUME NEW r \in Askers, WriteQuote(r) \/ QuoteFails(r) \/ \E plan \in Asked : BuildQuote(r, plan)
        PROVE  UNCHANGED vars
    BY <1>1 DEF WriteQuote, QuoteFails, BuildQuote
  <1>2. ASSUME NEW plan \in Asked, QuoteExpires(plan) \/ DeleteQuote(plan) \/ DeletionFails(plan)
        PROVE  UNCHANGED vars
    BY <1>2 DEF QuoteExpires, DeleteQuote, DeletionFails
  <1>3. ASSUME NEW b \in Buyers, StartPurchase(b) \/ BuyQuoted(b) \/ AbandonQuoted(b)
        PROVE  Next
    BY <1>3 DEF StartPurchase, BuyQuoted, AbandonQuoted, Next
  <1>4. ASSUME NEW b \in Buyers, NEW plan \in Asked, NEW named \in Quotes \cup {None},
               ReadQuote(b, plan, named)
        PROVE  UNCHANGED vars
    BY <1>4 DEF ReadQuote
  <1>5. ASSUME NEW h \in Holders, HoldOn(h) PROVE Next
    BY <1>5 DEF HoldOn, Next
  <1> QED
    BY <1>1, <1>2, <1>3, <1>4, <1>5 DEF QuotesNext

LEMMA PlansStep == PlansNext => [Next]_vars
  <1> SUFFICES ASSUME PlansNext PROVE [Next]_vars
    OBVIOUS
  <1>1. ASSUME NEW b \in Buyers,
               StartPlan(b) \/ AbandonPlan(b) \/ \E plan \in Wanted : BuyPlan(b, plan)
        PROVE  Next
    BY <1>1 DEF StartPlan, AbandonPlan, BuyPlan, Next
  <1>2. ASSUME NEW h \in Holders,
               CommitRenewal(h) \/ CommitUpgrade(h) \/ RequestFails(h)
                 \/ Invalidate(h) \/ InvalidationFails(h)
        PROVE  [Next]_vars
    BY <1>2 DEF CommitRenewal, CommitUpgrade, RequestFails, Invalidate, InvalidationFails, Next
  <1>3. ASSUME NEW h \in Holders, NEW p \in Policies, ReadForRenewal(h, p) PROVE Next
    BY <1>3 DEF ReadForRenewal, Next
  <1>4. ASSUME NEW h \in Holders, NEW p \in Policies, NEW plan \in Wanted,
               ReadForUpgrade(h, p, plan) \/ ScheduleDowngrade(h, p, plan)
        PROVE  UNCHANGED vars
    BY <1>4 DEF ReadForUpgrade, ScheduleDowngrade
  <1>5. ASSUME NEW row \in logging, InsertAudit(row) \/ LoseAudit(row) PROVE UNCHANGED vars
    BY <1>5 DEF InsertAudit, LoseAudit
  <1>6. ASSUME NEW v \in Viewers, CacheView(v) \/ ViewFails(v) \/ \E p \in Policies : LoadView(v, p)
        PROVE  UNCHANGED vars
    BY <1>6 DEF CacheView, ViewFails, LoadView
  <1>7. ASSUME NEW p \in Policies, ViewExpires(p) PROVE UNCHANGED vars
    BY <1>7 DEF ViewExpires
  <1> QED
    BY <1>1, <1>2, <1>3, <1>4, <1>5, <1>6, <1>7 DEF PlansNext

LEMMA RoutesStep == [RoutesNext]_routeVars => [Next]_vars
  <1> SUFFICES ASSUME [RoutesNext]_routeVars PROVE [Next]_vars
    OBVIOUS
  <1>1. CASE Tick
    BY <1>1 DEF Next
  <1>2. CASE ProfileChanges
    BY <1>2 DEF ProfileChanges
  <1>3. CASE UNCHANGED routeVars
    BY <1>3 DEF routeVars
  <1> QED
    BY <1>1, <1>2, <1>3, QuotesStep, PlansStep DEF RoutesNext

(* The policy routes, under either router, implement PolicyLifecycle: a    *)
(* quote, an upgrade, a downgrade or a view never touches status, dates or *)
(* renewal count.                                                          *)
THEOREM RoutesImplementLifecycle == RoutesSpec => Spec
  <1>1. RoutesInit => Init
    BY DEF RoutesInit, TermsInit
  <1> QED
    BY <1>1, RoutesStep, PTL DEF RoutesSpec, Spec

(* Under either router, unless two purchases held the check at once, a     *)
(* worker has at most one active policy.                                   *)
THEOREM RoutesOneActive == RoutesSpec => []AtMostOneActive
  BY RoutesImplementLifecycle, OneActivePolicy, PTL

(* Under either router, end date and renewal count of an active policy     *)
(* agree.                                                                  *)
THEOREM RoutesEndsMatch == RoutesSpec => []EndMatchesRenewals
  BY RoutesImplementLifecycle, EndsMatchRenewals, PTL

(* Under either router, a cancelled policy stays cancelled.                *)
THEOREM RoutesCancellationsLast == RoutesSpec => CancelledForGood
  BY RoutesImplementLifecycle, CancellationsLast, PTL

-----------------------------------------------------------------------------
(* The cached view.                                                        *)

(* The view of p is what the rows say, or the exceptions ViewFresh names.  *)
Fresh(p) ==
  \/ view[p] \in {NoView, Detail(p)}
  \/ p \in stained
  \/ \E h \in Holders : ask[h].op = "invalidate" /\ ask[h].id = p

(* Domains of what the views are made of.                                  *)
ViewTypes ==
  /\ view = [p \in Policies |-> view[p]]
  /\ looking = [v \in Viewers |-> looking[v]]
  /\ \A v \in Viewers : looking[v] = NotLooking \/ looking[v].id \in Policies
  /\ ask = [h \in Holders |-> ask[h]]
  /\ terms = [p \in Policies |-> terms[p]]
  /\ scheduled = [p \in Policies |-> scheduled[p]]
  /\ \A row \in logging : row.id \in Policies

(* Only a row that exists has been looked at.                               *)
ViewsExist ==
  \A p \in Policies :
    policy[p] = NoPolicy =>
      /\ view[p] = NoView
      /\ \A v \in Viewers : looking[v].id # p

(* A request that is about to commit a renewal holds the row it will write. *)
RenewalsHeld ==
  \A h \in Holders :
    /\ ask[h].op \in {"upgrade", "invalidate", "renew"} => ask[h].id \in Policies
    /\ ask[h].op = "renew" => held[h].op = "renew" /\ held[h].id = ask[h].id

(* policies.py keeps no views and no requests of policy.py.                 *)
OneRouter ==
  router # "policy" =>
    /\ \A p \in Policies : view[p] = NoView
    /\ \A v \in Viewers : looking[v] = NotLooking
    /\ \A h \in Holders : ask[h] = Idle

PlansInv ==
  /\ ViewTypes
  /\ ViewsExist
  /\ RenewalsHeld
  /\ \A p \in Policies : Fresh(p)

ViewInv == PlansInv /\ OneRouter

LEMMA RequestFields ==
  /\ Idle.op = "none" /\ Idle.id = None
  /\ \A p \in Policies : Invalidating(p).op = "invalidate" /\ Invalidating(p).id = p
  /\ NotLooking.id = None
  BY DEF Idle, Invalidating, NotLooking

(* The request h goes to op on row i, the others stay.                     *)
Asks(h, op, i) ==
  /\ ask' = [g \in Holders |-> ask'[g]]
  /\ ask'[h].op = op /\ ask'[h].id = i
  /\ \A g \in Holders \ {h} : ask'[g] = ask[g]

LEMMA TurnsTo ==
  ASSUME ViewTypes, NEW h \in Holders
  PROVE  /\ \A p \in Policies : ask' = [ask EXCEPT ![h] = Invalidating(p)] => Asks(h, "invalidate", p)
         /\ ask' = [ask EXCEPT ![h] = Idle] => Asks(h, "none", None)
         /\ \A p, op, w, n : Take(h, p, op, w, n) => Asks(h, op, p)
  BY RequestFields DEF Asks, Take, ViewTypes

(* What a row shows does not change.                                       *)
Shows(p) ==
  /\ terms'[p] = terms[p] /\ scheduled'[p] = scheduled[p]
  /\ policy'[p] = policy[p]

LEMMA ShownStays == ASSUME NEW p, Shows(p) PROVE Detail(p)' = Detail(p)
  BY DEF Shows, Detail

(* A renewal changes one row, which stays a row.                           *)
LEMMA RenewedRow ==
  ASSUME EndInv, NEW h \in Holders, Renew(h)
  PROVE  /\ held[h].id \in Policies
         /\ policy'[held[h].id] # NoPolicy
         /\ \A p \in Policies \ {held[h].id} : policy'[p] = policy[p]
         /\ \A g \in Holders \ {h} : held'[g] = held[g]
  <1>1. held[h].id \in Policies
    BY DEF EndInv, HeldRow, Renew
  <1>2. \A p \in Policies \ {held[h].id} : policy'[p] = policy[p]
    BY DEF EndInv, TypeOK, Renew
  <1>3. policy'[held[h].id].status = policy[held[h].id].status
    BY <1>1 DEF EndInv, TypeOK, Renew
  <1>4. policy'[held[h].id] # NoPolicy
    <2>1. held[h].op = "renew"
      BY DEF Renew
    <2>2. policy[held[h].id].status # "none"
      BY <2>1 DEF EndInv, HeldRow
    <2> QED
      BY <1>3, <2>2 DEF NoPolicy
  <1>5. \A g \in Holders \ {h} : held'[g] = held[g]
    BY DEF EndInv, TypeOK, Renew, Release
  <1> QED
    BY <1>1, <1>2, <1>4, <1>5

-----------------------------------------------------------------------------
(* The steps of policy.py.                                                 *)

(* Steps that change neither rows nor views nor requests.                  *)
LEMMA RestingStep ==
  ASSUME PlansInv, UNCHANGED <<policy, held, terms, scheduled, ask, view, looking, stained>>,
         logging' \subseteq logging
  PROVE  PlansInv'
  BY DEF PlansInv, ViewTypes, ViewsExist, RenewalsHeld, Fresh, Detail

LEMMA BuyPlanStep ==
  ASSUME PlansInv, EndInv, NEW b \in Buyers, NEW plan \in Wanted, BuyPlan(b, plan)
  PROVE  PlansInv'
  <1>1. PICK p \in Policies :
          /\ policy[p] = NoPolicy
          /\ policy' = [policy EXCEPT ![p] = [status |-> "active", start |-> now,
                                              end |-> now + Week, renewals |-> 0]]
    BY DEF BuyPlan, Purchase
  <1>2. PICK q \in Policies : policy'[q] # policy[q] /\ \E new : terms' = [terms EXCEPT ![q] = new]
    BY DEF BuyPlan
  <1>3. \A r \in Policies \ {p} : policy'[r] = policy[r]
    BY <1>1 DEF EndInv, TypeOK
  <1>4. q = p
    BY <1>2, <1>3
  <1>5. UNCHANGED <<held, scheduled, logging, ask, view, looking, stained>>
    BY DEF BuyPlan, Purchase
  <1>7. \A r \in Policies \ {p} : Shows(r)
    BY <1>2, <1>3, <1>4, <1>5 DEF Shows, PlansInv, ViewTypes
  <1>8. view[p] = NoView
    BY <1>1 DEF PlansInv, ViewsExist
  <1>9. \A r \in Policies : Fresh(r)'
    BY <1>5, <1>7, <1>8, ShownStays DEF Fresh, PlansInv
  <1>10. ViewTypes'
    BY <1>2, <1>5 DEF PlansInv, ViewTypes
  <1>11. policy'[p] # NoPolicy
    BY <1>1 DEF EndInv, TypeOK, NoPolicy
  <1>12. ViewsExist'
    BY <1>3, <1>5, <1>11 DEF PlansInv, ViewsExist
  <1>13. RenewalsHeld'
    BY <1>5 DEF PlansInv, RenewalsHeld
  <1> QED
    BY <1>9, <1>10, <1>12, <1>13 DEF PlansInv

(* A commit of a renewal or an upgrade changes the row whose view the      *)
(* request will invalidate.                                                *)
LEMMA CommitStep ==
  ASSUME PlansInv, NEW h \in Holders, NEW p \in Policies,
         Asks(h, "invalidate", p),
         ask[h].id = p, ask[h].op # "invalidate",
         policy'[p] = NoPolicy => policy[p] = NoPolicy,
         \A q \in Policies \ {p} : Shows(q),
         \A g \in Holders \ {h} : held'[g] = held[g],
         terms' = [q \in Policies |-> terms'[q]],
         UNCHANGED <<scheduled, logging, view, looking, stained>>
  PROVE  PlansInv'
  <1>1. Fresh(p)'
    BY DEF Fresh, Asks
  <1>2. ASSUME NEW q \in Policies \ {p} PROVE Fresh(q)'
    BY ShownStays DEF Fresh, Asks, PlansInv
  <1>3. ViewTypes'
    BY DEF PlansInv, ViewTypes, Asks
  <1>4. ViewsExist'
    BY DEF PlansInv, ViewsExist, Shows
  <1>5. RenewalsHeld'
    BY DEF PlansInv, RenewalsHeld, Asks
  <1> QED
    BY <1>1, <1>2, <1>3, <1>4, <1>5 DEF PlansInv

LEMMA CommitRenewalStep ==
  ASSUME PlansInv, EndInv, NEW h \in Holders, CommitRenewal(h)
  PROVE  PlansInv'
  <1> DEFINE p == ask[h].id
  <1>1. p \in Policies /\ held[h].id = p /\ ask[h].op = "renew"
    BY DEF PlansInv, RenewalsHeld, CommitRenewal
  <1>2. Asks(h, "invalidate", p)
    BY <1>1, TurnsTo DEF PlansInv, CommitRenewal
  <1>3. UNCHANGED <<scheduled, logging, view, looking, stained>>
    BY DEF CommitRenewal
  <1>4. PICK new : terms' = [terms EXCEPT ![p] = new]
    BY DEF CommitRenewal
  <1>5. terms' = [q \in Policies |-> terms'[q]] /\ \A q \in Policies \ {p} : terms'[q] = terms[q]
    BY <1>1, <1>4 DEF PlansInv, ViewTypes
  <1>6. Renew(h)
    BY DEF CommitRenewal
  <1>7. \A q \in Policies \ {p} : Shows(q)
    BY <1>1, <1>3, <1>5, <1>6, RenewedRow DEF Shows
  <1> QED
    BY <1>1, <1>2, <1>3, <1>5, <1>6, <1>7, RenewedRow, CommitStep

LEMMA CommitUpgradeStep ==
  ASSUME PlansInv, NEW h \in Holders, CommitUpgrade(h)
  PROVE  PlansInv'
  <1> DEFINE p == ask[h].id
  <1>1. p \in Policies /\ ask[h].op = "upgrade"
    BY DEF PlansInv, RenewalsHeld, CommitUpgrade
  <1>2. Asks(h, "invalidate", p)
    BY <1>1, TurnsTo DEF PlansInv, CommitUpgrade
  <1>3. UNCHANGED <<policy, held, scheduled, logging, view, looking, stained>>
    BY DEF CommitUpgrade, vars
  <1>4. PICK new : terms' = [terms EXCEPT ![p] = new]
    BY DEF CommitUpgrade
  <1>5. terms' = [q \in Policies |-> terms'[q]] /\ \A q \in Policies \ {p} : terms'[q] = terms[q]
    BY <1>1, <1>4 DEF PlansInv, ViewTypes
  <1>7. \A q \in Policies \ {p} : Shows(q)
    BY <1>3, <1>5 DEF Shows
  <1> QED
    BY <1>1, <1>2, <1>3, <1>5, <1>7, CommitStep

(* A request reads a row and leaves it as it is; only renewals hold it.    *)
LEMMA ReadStep ==
  ASSUME PlansInv, NEW h \in Holders, NEW p \in Policies,
         NEW op \in {"renew", "upgrade", "invalidate"}, Asks(h, op, p),
         ask[h].op # "invalidate",
         op = "renew" => held'[h].op = "renew" /\ held'[h].id = p,
         \A g \in Holders \ {h} : held'[g] = held[g],
         \A row \in logging' : row.id \in Policies,
         UNCHANGED <<policy, terms, scheduled, view, looking, stained>>
  PROVE  PlansInv'
  <1>1. \A q \in Policies : Fresh(q)'
    BY DEF Fresh, Asks, PlansInv, Detail
  <1>2. ViewTypes'
    BY DEF PlansInv, ViewTypes, Asks
  <1>3. ViewsExist'
    BY DEF PlansInv, ViewsExist
  <1>4. RenewalsHeld'
    BY DEF PlansInv, RenewalsHeld, Asks
  <1> QED
    BY <1>1, <1>2, <1>3, <1>4 DEF PlansInv

LEMMA ReadForRenewalStep ==
  ASSUME PlansInv, EndInv, NEW h \in Holders, NEW p \in Policies, ReadForRenewal(h, p)
  PROVE  PlansInv'
  <1>1. Asks(h, "renew", p)
    BY TurnsTo DEF PlansInv, ReadForRenewal
  <1>2. ask[h].op # "invalidate"
    BY RequestFields DEF ReadForRenewal
  <1>3. /\ held'[h].op = "renew" /\ held'[h].id = p
        /\ \A g \in Holders \ {h} : held'[g] = held[g]
        /\ policy' = policy
    BY DEF ReadForRenewal, Read, EndInv, TypeOK
  <1>4. UNCHANGED <<terms, scheduled, logging, view, looking, stained>>
    BY DEF ReadForRenewal
  <1>5. \A row \in logging' : row.id \in Policies
    BY <1>4 DEF PlansInv, ViewTypes
  <1> QED
    BY <1>1, <1>2, <1>3, <1>4, <1>5, ReadStep

LEMMA ReadForUpgradeStep ==
  ASSUME PlansInv, NEW h \in Holders, NEW p \in Policies, NEW plan \in Wanted,
         ReadForUpgrade(h, p, plan)
  PROVE  PlansInv'
  <1>1. Asks(h, "upgrade", p)
    BY TurnsTo DEF PlansInv, ReadForUpgrade
  <1>2. ask[h].op # "invalidate"
    BY RequestFields DEF ReadForUpgrade
  <1>3. UNCHANGED <<policy, held, terms, scheduled, logging, view, looking, stained>>
    BY DEF ReadForUpgrade, vars
  <1>4. \A row \in logging' : row.id \in Policies
    BY <1>3 DEF PlansInv, ViewTypes
  <1> QED
    BY <1>1, <1>2, <1>3, <1>4, ReadStep

LEMMA ScheduleDowngradeStep ==
  ASSUME PlansInv, NEW h \in Holders, NEW p \in Policies, NEW plan \in Wanted,
         ScheduleDowngrade(h, p, plan)
  PROVE  PlansInv'
  <1>1. Asks(h, "invalidate", p)
    BY TurnsTo DEF PlansInv, ScheduleDowngrade
  <1>2. ask[h].op # "invalidate"
    BY RequestFields DEF ScheduleDowngrade
  <1>3. UNCHANGED <<policy, held, terms, scheduled, view, looking, stained>>
    BY DEF ScheduleDowngrade, vars
  <1>4. logging' = logging \cup {[id |-> p, target |-> plan]}
    BY DEF ScheduleDowngrade
  <1>5. \A row \in logging' : row.id \in Policies
    BY <1>4 DEF PlansInv, ViewTypes
  <1> QED
    BY <1>1, <1>2, <1>3, <1>5, ReadStep

LEMMA RequestFailsStep ==
  ASSUME PlansInv, EndInv, NEW h \in Holders, RequestFails(h)
  PROVE  PlansInv'
  <1>1. Asks(h, "none", None)
    BY TurnsTo DEF PlansInv, RequestFails
  <1>2. ask[h].op # "invalidate"
    BY DEF RequestFails
  <1>3. policy' = policy /\ \A g \in Holders \ {h} : held'[g] = held[g]
    BY DEF RequestFails, Forget, Release, vars, EndInv, TypeOK
  <1>4. UNCHANGED <<terms, scheduled, logging, view, looking, stained>>
    BY DEF RequestFails
  <1>5. \A q \in Policies : Fresh(q)'
    BY <1>1, <1>2, <1>3, <1>4 DEF Fresh, Asks, PlansInv, Detail
  <1>6. ViewTypes'
    BY <1>1, <1>4 DEF PlansInv, ViewTypes, Asks
  <1>7. ViewsExist'
    BY <1>3, <1>4 DEF PlansInv, ViewsExist
  <1>8. RenewalsHeld'
    BY <1>1, <1>3 DEF PlansInv, RenewalsHeld, Asks
  <1> QED
    BY <1>5, <1>6, <1>7, <1>8 DEF PlansInv

(* An invalidation removes the view, or leaves it stained.                 *)
LEMMA InvalidationStep ==
  ASSUME PlansInv, NEW h \in Holders, Invalidate(h) \/ InvalidationFails(h)
  PROVE  PlansInv'
  <1> DEFINE p == ask[h].id
  <1>1. p \in Policies /\ ask[h].op = "invalidate"
    BY DEF PlansInv, RenewalsHeld, Invalidate, InvalidationFails
  <1>2. Asks(h, "none", None)
    BY TurnsTo DEF PlansInv, Invalidate, InvalidationFails
  <1>3. UNCHANGED <<policy, held, terms, scheduled, logging, looking>>
    BY DEF Invalidate, InvalidationFails, vars
  <1>4. /\ \/ view'[p] = NoView
           \/ p \in stained'
        /\ \A q \in Policies \ {p} : view'[q] = view[q] /\ (q \in stained => q \in stained')
        /\ view' = [q \in Policies |-> view'[q]]
        /\ view[p] = NoView => view'[p] = NoView
    BY <1>1 DEF Invalidate, InvalidationFails, PlansInv, ViewTypes
  <1>5. \A q \in Policies : Fresh(q)'
    BY <1>1, <1>2, <1>3, <1>4 DEF Fresh, Asks, PlansInv, Detail
  <1>6. ViewTypes'
    BY <1>2, <1>3, <1>4 DEF PlansInv, ViewTypes, Asks
  <1>7. ViewsExist'
    BY <1>3, <1>4 DEF PlansInv, ViewsExist
  <1>8. RenewalsHeld'
    BY <1>2, <1>3 DEF PlansInv, RenewalsHeld, Asks
  <1> QED
    BY <1>5, <1>6, <1>7, <1>8 DEF PlansInv

(* The audit row of a downgrade changes what a policy shows.               *)
LEMMA InsertAuditStep ==
  ASSUME PlansInv, NEW row \in logging, InsertAudit(row)
  PROVE  PlansInv'
  <1> DEFINE p == row.id
  <1>1. p \in Policies
    BY DEF PlansInv, ViewTypes
  <1>2. UNCHANGED <<policy, held, terms, ask, view, looking>> /\ logging' \subseteq logging
    BY DEF InsertAudit, vars
  <1>3. stained' = stained \cup (IF view[p] = NoView THEN {} ELSE {p})
    BY DEF InsertAudit
  <1>4. PICK new : scheduled' = [scheduled EXCEPT ![p] = new]
    BY DEF InsertAudit
  <1>5. /\ scheduled' = [q \in Policies |-> scheduled'[q]]
        /\ \A q \in Policies \ {p} : scheduled'[q] = scheduled[q]
    BY <1>1, <1>4 DEF PlansInv, ViewTypes
  <1>6. Fresh(p)'
    BY <1>2, <1>3 DEF Fresh
  <1>7. \A q \in Policies \ {p} : Fresh(q)'
    BY <1>2, <1>3, <1>5 DEF Fresh, PlansInv, Detail
  <1>8. ViewTypes' /\ ViewsExist' /\ RenewalsHeld'
    BY <1>2, <1>5 DEF PlansInv, ViewTypes, ViewsExist, RenewalsHeld
  <1> QED
    BY <1>6, <1>7, <1>8 DEF PlansInv

LEMMA LoadViewStep ==
  ASSUME PlansInv, EndInv, NEW v \in Viewers, NEW p \in Policies, LoadView(v, p)
  PROVE  PlansInv'
  <1>1. UNCHANGED <<policy, held, terms, scheduled, logging, ask, view, stained>>
    BY DEF LoadView, vars
  <1>2. /\ looking' = [w \in Viewers |-> looking'[w]]
        /\ looking'[v].id = p
        /\ \A w \in Viewers \ {v} : looking'[w] = looking[w]
    BY DEF LoadView, PlansInv, ViewTypes
  <1>3. policy[p] # NoPolicy
    BY DEF LoadView
  <1>4. ViewTypes'
    BY <1>1, <1>2 DEF PlansInv, ViewTypes
  <1>5. ViewsExist'
    BY <1>1, <1>2, <1>3 DEF PlansInv, ViewsExist
  <1>6. RenewalsHeld' /\ \A q \in Policies : Fresh(q)'
    BY <1>1 DEF PlansInv, RenewalsHeld, Fresh, Detail
  <1> QED
    BY <1>4, <1>5, <1>6 DEF PlansInv

(* What was loaded is cached: as it still is, or stained.                  *)
LEMMA CacheViewStep ==
  ASSUME PlansInv, NEW v \in Viewers, CacheView(v)
  PROVE  PlansInv'
  <1>1. PICK p \in Policies : p = looking[v].id /\ policy[p] # NoPolicy
    BY DEF PlansInv, ViewTypes, ViewsExist, CacheView
  <1>2. UNCHANGED <<policy, held, terms, scheduled, logging, ask>>
    BY DEF CacheView, vars
  <1>3. /\ view' = [q \in Policies |-> view'[q]]
        /\ view'[p] = looking[v].detail
        /\ \A q \in Policies \ {p} : view'[q] = view[q]
    BY <1>1 DEF CacheView, PlansInv, ViewTypes
  <1>4. /\ looking[v].detail = Detail(p) \/ p \in stained'
        /\ \A q \in Policies \ {p} : q \in stained => q \in stained'
    BY <1>1 DEF CacheView
  <1>5. /\ looking' = [w \in Viewers |-> looking'[w]]
        /\ looking'[v] = NotLooking
        /\ \A w \in Viewers \ {v} : looking'[w] = looking[w]
    BY DEF CacheView, PlansInv, ViewTypes
  <1>6. Fresh(p)'
    BY <1>2, <1>3, <1>4 DEF Fresh, Detail
  <1>7. \A q \in Policies \ {p} : Fresh(q)'
    BY <1>2, <1>3, <1>4 DEF Fresh, PlansInv, Detail
  <1>8. ViewTypes'
    BY <1>2, <1>3, <1>5 DEF PlansInv, ViewTypes
  <1>9. ViewsExist'
    BY <1>1, <1>2, <1>3, <1>5, RequestFields, PolicyAssumption DEF PlansInv, ViewsExist
  <1>10. RenewalsHeld'
    BY <1>2 DEF PlansInv, RenewalsHeld
  <1> QED
    BY <1>6, <1>7, <1>8, <1>9, <1>10 DEF PlansInv

LEMMA ViewFailsStep ==
  ASSUME PlansInv, NEW v \in Viewers, ViewFails(v)
  PROVE  PlansInv'
  <1>1. UNCHANGED <<policy, held, terms, scheduled, logging, ask, view, stained>>
    BY DEF ViewFails, vars
  <1>2. /\ looking' = [w \in Viewers |-> looking'[w]]
        /\ looking'[v] = NotLooking
        /\ \A w \in Viewers \ {v} : looking'[w] = looking[w]
    BY DEF ViewFails, PlansInv, ViewTypes
  <1>3. ViewTypes'
    BY <1>1, <1>2 DEF PlansInv, ViewTypes
  <1>4. ViewsExist'
    BY <1>1, <1>2, RequestFields, PolicyAssumption DEF PlansInv, ViewsExist
  <1>5. RenewalsHeld' /\ \A q \in Policies : Fresh(q)'
    BY <1>1 DEF PlansInv, RenewalsHeld, Fresh, Detail
  <1> QED
    BY <1>3, <1>4, <1>5 DEF PlansInv

LEMMA ViewExpiresStep ==
  ASSUME PlansInv, NEW p \in Policies, ViewExpires(p)
  PROVE  PlansInv'
  <1>1. UNCHANGED <<policy, held, terms, scheduled, logging, ask, looking>>
    BY DEF ViewExpires, vars
  <1>2. /\ view' = [q \in Policies |-> view'[q]]
        /\ view'[p] = NoView
        /\ \A q \in Policies \ {p} : view'[q] = view[q] /\ (q \in stained => q \in stained')
    BY DEF ViewExpires, PlansInv, ViewTypes
  <1>3. \A q \in Policies : Fresh(q)'
    BY <1>1, <1>2 DEF Fresh, PlansInv, Detail
  <1>4. ViewTypes' /\ ViewsExist' /\ RenewalsHeld'
    BY <1>1, <1>2 DEF PlansInv, ViewTypes, ViewsExist, RenewalsHeld
  <1> QED
    BY <1>3, <1>4 DEF PlansInv

LEMMA PlansNextKeepsViews == PlansInv /\ EndInv /\ PlansNext => PlansInv'
  <1> SUFFICES ASSUME PlansInv, EndInv, PlansNext PROVE PlansInv'
    OBVIOUS
  <1>1. ASSUME NEW b \in Buyers, StartPlan(b) \/ AbandonPlan(b) PROVE PlansInv'
    BY <1>1, RestingStep
    DEF StartPlan, AbandonPlan, BeginPurchase, AbandonPurchase, planVars
  <1>2. ASSUME NEW row \in logging, LoseAudit(row) PROVE PlansInv'
    BY <1>2, RestingStep DEF LoseAudit, vars
  <1> QED
    BY <1>1, <1>2, BuyPlanStep, CommitRenewalStep, CommitUpgradeStep, RequestFailsStep,
       InvalidationStep, ReadForRenewalStep, ReadForUpgradeStep, ScheduleDowngradeStep,
       InsertAuditStep, LoadViewStep, CacheViewStep, ViewFailsStep, ViewExpiresStep
    DEF PlansNext

-----------------------------------------------------------------------------
(* Under policies.py there is nothing to look at.                          *)

LEMMA QuotesNextKeepsViews ==
  ASSUME ViewInv, router # "policy", UNCHANGED planVars, router' = router,
         terms' = [p \in Policies |-> terms'[p]]
  PROVE  ViewInv'
  <1>1. UNCHANGED <<scheduled, logging, ask, view, looking, stained>>
    BY DEF planVars
  <1>2. OneRouter'
    BY <1>1 DEF ViewInv, OneRouter
  <1>3. ViewTypes'
    BY <1>1 DEF ViewInv, PlansInv, ViewTypes
  <1>4. ViewsExist'
    BY <1>1, RequestFields, PolicyAssumption DEF ViewInv, OneRouter, ViewsExist
  <1>5. RenewalsHeld'
    BY <1>1, RequestFields DEF ViewInv, OneRouter, RenewalsHeld
  <1>6. \A p \in Policies : Fresh(p)'
    BY <1>1 DEF ViewInv, OneRouter, Fresh
  <1> QED
    BY <1>2, <1>3, <1>4, <1>5, <1>6 DEF ViewInv, PlansInv

LEMMA TermsOfQuotes ==
  ASSUME terms = [p \in Policies |-> terms[p]], QuotesNext
  PROVE  router' = router /\ terms' = [p \in Policies |-> terms'[p]]
  <1>1. ASSUME NEW b \in Buyers, BuyQuoted(b)
        PROVE  router' = router /\ terms' = [p \in Policies |-> terms'[p]]
    <2>1. PICK p \in Policies : \E new : terms' = [terms EXCEPT ![p] = new]
      BY <1>1 DEF BuyQuoted
    <2> QED
      BY <1>1, <2>1 DEF BuyQuoted
  <1>2. CASE UNCHANGED <<router, terms>>
    BY <1>2
  <1> QED
    BY <1>1, <1>2 DEF QuotesNext, WriteQuote, QuoteFails, BuildQuote, QuoteExpires, DeleteQuote,
       DeletionFails, StartPurchase, AbandonQuoted, ReadQuote, HoldOn

LEMMA InitViewInv == RoutesInit => ViewInv
  BY RequestFields, PolicyAssumption
  DEF RoutesInit, TermsInit, PlansInit, ViewInv, PlansInv, ViewTypes, ViewsExist, RenewalsHeld,
      OneRouter, Fresh

LEMMA RouterStays == PlansNext => router' = router
  BY ZenonT(30) DEF PlansNext, StartPlan, AbandonPlan, BuyPlan, CommitRenewal, CommitUpgrade, RequestFails,
     Invalidate, InvalidationFails, ReadForRenewal, ReadForUpgrade, ScheduleDowngrade,
     InsertAudit, LoseAudit, CacheView, ViewFails, LoadView, ViewExpires

LEMMA NextViewInv == ViewInv /\ EndInv /\ [RoutesNext]_routeVars => ViewInv'
  <1> SUFFICES ASSUME ViewInv, EndInv, [RoutesNext]_routeVars PROVE ViewInv'
    OBVIOUS
  <1>1. ASSUME UNCHANGED <<policy, held, router, terms, planVars>> PROVE ViewInv'
    BY <1>1, RestingStep DEF ViewInv, OneRouter, planVars
  <1>2. CASE Tick /\ UNCHANGED <<router, profile, terms, quoteVars, planVars>>
    BY <1>1, <1>2 DEF Tick
  <1>3. CASE ProfileChanges /\ UNCHANGED <<quoteVars, planVars>>
    BY <1>1, <1>3 DEF ProfileChanges, vars
  <1>4. CASE router = "policies" /\ QuotesNext /\ UNCHANGED planVars
    BY <1>4, TermsOfQuotes, QuotesNextKeepsViews DEF ViewInv, PlansInv, ViewTypes
  <1>5. CASE router = "policy" /\ PlansNext /\ UNCHANGED quoteVars
    BY <1>5, PlansNextKeepsViews, RouterStays DEF ViewInv, OneRouter
  <1>6. CASE UNCHANGED routeVars
    BY <1>1, <1>6 DEF routeVars, vars
  <1> QED
    BY <1>2, <1>3, <1>4, <1>5, <1>6 DEF RoutesNext

(* A worker is shown an old plan or renewal count only between a write and *)
(* its invalidation, after an invalidation that failed, or when a view was *)
(* loaded or an audit row written around it.                               *)
THEOREM ViewsFresh == RoutesSpec => []ViewFresh
  <1>1. RoutesInit => EndInv
    BY InitEndInv DEF RoutesInit, TermsInit
  <1>2. EndInv /\ [RoutesNext]_routeVars => EndInv'
    BY NextEndInv, RoutesStep
  <1>3. ViewInv => ViewFresh
    BY DEF ViewInv, PlansInv, Fresh, ViewFresh
  <1> QED
    BY <1>1, <1>2, <1>3, InitViewInv, NextViewInv, PTL DEF RoutesSpec


-----------------------------------------------------------------------------
(* What a policy costs and covers.                                         *)

(* Rounding half to even takes one of the two integers around a quotient.  *)
LEMMA HalfEvenAround ==
  ASSUME NEW a \in Nat
  PROVE  HalfEven(a, 100) \in {a \div 100, a \div 100 + 1}
  BY DEF HalfEven

LEMMA RoundedNatural ==
  ASSUME NEW a \in Nat, NEW b \in Nat \ {0}
  PROVE  HalfEven(a, b) \in Nat /\ HalfUp(a, b) \in Nat
  BY DEF HalfEven, HalfUp

LEMMA ClampedWithin ==
  ASSUME NEW x \in Int, NEW low \in Int, NEW high \in Int, low <= high
  PROVE  Clamp(x, low, high) \in low..high
  BY DEF Clamp, Least, Greatest

LEMMA PremiumClamped ==
  ASSUME NEW x \in Int
  PROVE  Clamp(x, Floor, Ceiling) \in Floor..Ceiling
  BY SMTT(30) DEF Clamp, Least, Greatest, Floor, Ceiling

LEMMA PremiumNatural == ASSUME NEW x \in Floor..Ceiling PROVE x \in Nat
  BY DEF Floor, Ceiling

LEMMA StandardNatural == ASSUME NEW x \in Floor..ModelCeiling PROVE x \in Nat
  BY DEF Floor, ModelCeiling

(* A trust discount of a premium above the floor: 12 % at most.            *)
LEMMA DiscountedOnce ==
  ASSUME NEW premium \in Nat, premium >= Floor, NEW t \in {"bronze", "silver", "gold"}
  PROVE  Discounted(premium, t) \in 2552..premium
  <1>1. CASE t = "gold"
    <2> DEFINE a == premium * 88
               q == a \div 100
    <2>1. q \in Int /\ 100 * q <= a /\ a < 100 * q + 100
      OBVIOUS
    <2>2. HalfEven(a, 100) \in {q, q + 1}
      BY HalfEvenAround
    <2>3. 2552 <= q /\ q + 1 <= premium
      <3> HIDE DEF q
      <3> QED
        BY <2>1 DEF Floor
    <2>4. Discounted(premium, t) = HalfEven(a, 100)
      BY <1>1 DEF Discounted, TrustMultiplier
    <2> QED
      BY <2>1, <2>2, <2>3, <2>4
  <1>2. CASE t = "silver"
    <2> DEFINE a == premium * 95
               q == a \div 100
    <2>1. q \in Int /\ 100 * q <= a /\ a < 100 * q + 100
      OBVIOUS
    <2>2. HalfEven(a, 100) \in {q, q + 1}
      BY HalfEvenAround
    <2>3. 2552 <= q /\ q + 1 <= premium
      <3> HIDE DEF q
      <3> QED
        BY <2>1 DEF Floor
    <2>4. Discounted(premium, t) = HalfEven(a, 100)
      BY <1>2 DEF Discounted, TrustMultiplier
    <2> QED
      BY <2>1, <2>2, <2>3, <2>4
  <1>3. CASE t = "bronze"
    <2> DEFINE a == premium * 100
    <2>1. a \div 100 = premium /\ a % 100 = 0 /\ a \in Nat
      OBVIOUS
    <2>2. HalfEven(a, 100) = premium
      <3> HIDE DEF a
      <3> QED
        BY <2>1 DEF HalfEven
    <2> QED
      BY <1>3, <2>2 DEF Discounted, TrustMultiplier, Floor
  <1> QED
    BY <1>1, <1>2, <1>3

(* A weekly premium lies between floor and ceiling, for every worker.      *)
LEMMA WeeklyWithin ==
  ASSUME NEW w \in Profiles
  PROVE  WeeklyPremium(w) \in Floor..Ceiling
  <1> DEFINE r == RiskMultiplier(w.location, w.disruption)
             e == ExposureMultiplier(w.hours, w.platform)
  <1>1. /\ w.location \in Int /\ w.disruption \in Int /\ w.hours \in Int
        /\ PlatformBonus[w.platform] \in Int
    BY TermsAssumption DEF PlatformBonus
  <1>2. r \in Int /\ e \in Int
    BY <1>1 DEF RiskMultiplier, ExposureMultiplier, Clamp, Least, Greatest
  <1>3. HalfUp(BaseRate * r * e, 200) \in Int
    <2> HIDE DEF r, e
    <2>1. BaseRate * r * e \in Int
      BY <1>2 DEF BaseRate
    <2> QED
      BY <2>1 DEF HalfUp
  <1>4. Clamp(HalfUp(BaseRate * r * e, 200), Floor, Ceiling) \in Floor..Ceiling
    <2> HIDE DEF r, e
    <2> QED
      BY <1>3, PremiumClamped
  <1>5. BaseRate * 100 \in Floor..Ceiling
    BY DEF BaseRate, Floor, Ceiling
  <1> QED
    BY <1>4, <1>5 DEF WeeklyPremium

(* What the weekly engine offers.                                          *)
LEMMA OfferWithin ==
  ASSUME NEW plan \in Plans, NEW w \in Profiles
  PROVE  /\ WeeklyOffer(plan, w).premium \in Floor..Ceiling
         /\ WeeklyOffer(plan, w).cap \in Nat
  <1>1. WeeklyPremium(w) \in Nat /\ WeeklyPremium(w) \in Floor..Ceiling
    BY WeeklyWithin, PremiumNatural
  <1>2. PlanPremium(plan, WeeklyPremium(w)) \in Floor..Ceiling
    <2>1. ASSUME NEW k \in {85, 115}
          PROVE  Clamp(HalfUp(WeeklyPremium(w) * k, 100), Floor, Ceiling) \in Floor..Ceiling
      <3>1. WeeklyPremium(w) * k \in Nat
        BY <1>1
      <3>2. HalfUp(WeeklyPremium(w) * k, 100) \in Nat
        BY <3>1, RoundedNatural
      <3> QED
        BY <3>2, PremiumClamped
    <2> QED
      BY <1>1, <2>1 DEF PlanPremium, Plans
  <1>3. PlanCover(plan, w.earnings) \in Nat
    <2> DEFINE limit == Least(200000, 80 * w.earnings)
    <2>1. limit \in Nat
      BY TermsAssumption DEF Least
    <2> HIDE DEF limit
    <2>2. HalfUp(limit * 75, 100) \in Nat /\ HalfUp(limit * 125, 100) \in Nat
      BY <2>1, RoundedNatural
    <2> QED
      BY <2>1, <2>2 DEF PlanCover, Plans, limit
  <1> QED
    BY <1>2, <1>3 DEF WeeklyOffer

(* The largest premium of the model-based engine: the top of the pro plan. *)
Dearest == 299 * PremiumModifier["pro"]

LEMMA ModelWithin ==
  ASSUME NEW plan \in Plans, NEW t \in {"bronze", "silver", "gold"}, NEW w \in Profiles
  PROVE  /\ ModelPremium(plan, t, w.standard) \in Floor..Dearest
         /\ Discounted(ModelPremium(plan, t, w.standard), t) \in 2552..Dearest
         /\ ModelCover(plan, w.earnings) \in Nat
  <1> DEFINE a == w.standard * PremiumModifier[plan] * TrustMultiplier[t]
             m == ModelPremium(plan, t, w.standard)
  <1>1. a \in Nat
    <2>1. w.standard \in Nat
      <3>1. w.standard \in Floor..ModelCeiling
        BY TermsAssumption
      <3> QED
        BY <3>1, StandardNatural
    <2>2. PremiumModifier[plan] \in Nat /\ TrustMultiplier[t] \in Nat
      BY DEF PremiumModifier, TrustMultiplier, Plans
    <2> QED
      BY <2>1, <2>2
  <1>2. HalfEven(a, 10000) \in Nat
    <2> HIDE DEF a
    <2> QED
      BY <1>1, RoundedNatural
  <1>3. 299 * PremiumModifier[plan] \in Floor..Dearest
    BY DEF Dearest, PremiumModifier, Plans, Floor
  <1>4. m \in Floor..(299 * PremiumModifier[plan])
    <2> DEFINE h == HalfEven(a, 10000)
               top == 299 * PremiumModifier[plan]
    <2>1. h \in Int /\ top \in Int /\ Floor \in Int /\ Floor <= top
      BY <1>2, <1>3 DEF Floor
    <2>2. m = Clamp(h, Floor, top)
      BY DEF ModelPremium
    <2> HIDE DEF h, top, m
    <2>3. m \in Floor..top
      BY <2>1, <2>2, ClampedWithin
    <2> QED
      BY <2>3 DEF top
  <1>5. m \in Nat /\ Dearest \in Nat /\ m >= Floor /\ m <= Dearest
    <2> HIDE DEF m
    <2> QED
      BY <1>3, <1>4 DEF Floor, Dearest, PremiumModifier
  <1>6. Discounted(m, t) \in 2552..m
    <2> HIDE DEF m
    <2> QED
      BY <1>5, DiscountedOnce
  <1>7. ModelCover(plan, w.earnings) \in Nat
    <2> DEFINE c == Clamp(160 * w.earnings, 200000, 2000000) * CoverModifier[plan]
    <2>1. c \in Nat
      BY TermsAssumption DEF Clamp, Least, Greatest, CoverModifier, Plans
    <2> HIDE DEF c
    <2>2. HalfEven(c, 100) \in Nat
      BY <2>1, RoundedNatural
    <2> QED
      BY <2>2 DEF ModelCover, c
  <1> QED
    BY <1>5, <1>6, <1>7 DEF Floor

-----------------------------------------------------------------------------
(* Quotes.                                                                 *)

Rows(premiums) == [plan : Plans, premium : premiums, cap : Nat]

(* A quote is priced once, and what it says stays what the engine said.    *)
Built == \A q \in Quotes : quotes[q] # NoQuote => quotes[q] \in Rows(Floor..Ceiling)

(* The key of a plan names a quote of that plan that was answered.         *)
CachedTold ==
  \A plan \in Plans :
    cached[plan] # None => cached[plan] \in Told /\ quotes[cached[plan]].plan = plan

(* Each quote that is being written was built by one request.              *)
AskingOwn ==
  \A r \in Askers :
    asking[r] # None => /\ quotes[asking[r]] # NoQuote
                        /\ \A s \in Askers \ {r} : asking[s] # asking[r]

(* A quote somebody was told is cached, or it has left the cache.          *)
ToldKept == \A q \in Told : q \in gone \/ cached[quotes[q].plan] = q

(* What purchase c would pay is an offer for its plan; the quote it names  *)
(* if it was given for that plan, or a fresh price for a quote that left.  *)
CartOK(c) ==
  c # NoCart =>
    /\ c.plan \in Plans /\ c.offer.plan = c.plan /\ c.offer \in Rows(Floor..Ceiling)
    /\ c.named # None =>
         /\ c.named \in Told
         /\ quotes[c.named].plan = c.plan => c.offer = quotes[c.named] \/ (c.fresh /\ c.late)

CartsInv ==
  /\ \A b \in Buyers : CartOK(cart[b])
  /\ router # "policies" => \A b \in Buyers : cart[b] = NoCart

QuotesInv == QuotesTypeOK /\ Built /\ CachedTold /\ AskingOwn /\ ToldKept /\ CartsInv

LEMMA OfferRow == ASSUME TermsTypeOK, NEW plan \in Plans PROVE Offer(plan) \in Rows(Floor..Ceiling)
  BY OfferWithin DEF Offer, Rows, TermsTypeOK

LEMMA RowTyped ==
  ASSUME NEW row \in Rows(Floor..Ceiling)
  PROVE  /\ row \in [plan : Plans \cup {"none"}, premium : Nat, cap : Nat]
         /\ row # NoQuote
         /\ row.plan \in Plans /\ row.premium \in Floor..Ceiling /\ row.cap \in Nat
  <1>1. row.plan \in Plans /\ row.premium \in Floor..Ceiling /\ row.cap \in Nat
    BY DEF Rows
  <1>2. row.premium \in Nat
    BY <1>1, PremiumNatural
  <1>3. row.plan # "none"
    BY <1>1 DEF Plans
  <1> QED
    BY <1>1, <1>2, <1>3 DEF Rows, NoQuote

(* Nothing is told or taken back, and the cache and the carts stay.        *)
LEMMA TellingNothing ==
  ASSUME QuotesInv, Told' = Told, \A q \in Told : quotes'[q] = quotes[q],
         UNCHANGED <<gone, cached, cart, router>>
  PROVE  CachedTold' /\ ToldKept' /\ CartsInv'
  <1>1. CachedTold' /\ ToldKept'
    BY DEF QuotesInv, CachedTold, ToldKept
  <1>2. CartsInv'
    BY DEF QuotesInv, CartsInv, CartOK
  <1> QED
    BY <1>1, <1>2

LEMMA BuildQuoteStep ==
  ASSUME QuotesInv, TermsTypeOK, NEW r \in Askers, NEW plan \in Asked, BuildQuote(r, plan)
  PROVE  QuotesInv'
  <1>1. PICK q \in Quotes : /\ quotes[q] = NoQuote
                            /\ quotes' = [quotes EXCEPT ![q] = Offer(plan)]
                            /\ asking' = [asking EXCEPT ![r] = q]
    BY DEF BuildQuote
  <1>2. plan \in Plans /\ asking[r] = None /\ UNCHANGED <<router, gone, cached, cart, deleting>>
    BY QuoteAssumption DEF BuildQuote
  <1>3. Offer(plan) \in Rows(Floor..Ceiling)
    BY <1>2, OfferRow
  <1>4. /\ Offer(plan) \in [plan : Plans \cup {"none"}, premium : Nat, cap : Nat]
        /\ Offer(plan) # NoQuote
    BY <1>3, RowTyped
  <1>5. /\ quotes'[q] = Offer(plan) /\ \A x \in Quotes \ {q} : quotes'[x] = quotes[x]
        /\ asking'[r] = q /\ \A s \in Askers \ {r} : asking'[s] = asking[s]
    BY <1>1 DEF QuotesInv, QuotesTypeOK
  <1>6. QuotesTypeOK'
    BY <1>1, <1>2, <1>4 DEF QuotesInv, QuotesTypeOK
  <1>7. \A s \in Askers : asking[s] # q
    BY <1>1, QuoteAssumption DEF QuotesInv, AskingOwn, QuotesTypeOK
  <1>8. Told' = Told
    BY <1>1, <1>2, <1>5, <1>7, QuoteAssumption DEF Told
  <1>9. \A x \in Told : quotes'[x] = quotes[x]
    BY <1>1, <1>5 DEF Told
  <1>10. Built'
    BY <1>3, <1>5 DEF QuotesInv, Built
  <1>11. AskingOwn'
    BY <1>4, <1>5, <1>7, QuoteAssumption DEF QuotesInv, AskingOwn, QuotesTypeOK
  <1> QED
    BY <1>2, <1>6, <1>8, <1>9, <1>10, <1>11, TellingNothing DEF QuotesInv

LEMMA QuoteFailsStep ==
  ASSUME QuotesInv, NEW r \in Askers, QuoteFails(r)
  PROVE  QuotesInv'
  <1> DEFINE q == asking[r]
  <1>1. q \in Quotes /\ q # None
    BY DEF QuoteFails, QuotesInv, QuotesTypeOK
  <1>2. UNCHANGED <<router, gone, cached, cart, deleting>>
    BY DEF QuoteFails
  <1>3. /\ quotes' = [quotes EXCEPT ![q] = NoQuote]
        /\ asking' = [asking EXCEPT ![r] = None]
    BY DEF QuoteFails
  <1>4. /\ quotes'[q] = NoQuote /\ \A x \in Quotes \ {q} : quotes'[x] = quotes[x]
        /\ asking'[r] = None /\ \A s \in Askers \ {r} : asking'[s] = asking[s]
    BY <1>1, <1>3 DEF QuotesInv, QuotesTypeOK
  <1>5. NoQuote \in [plan : Plans \cup {"none"}, premium : Nat, cap : Nat]
    BY DEF NoQuote
  <1>6. QuotesTypeOK'
    BY <1>2, <1>3, <1>5 DEF QuotesInv, QuotesTypeOK
  <1>7. Told' = Told
    BY <1>1, <1>4, QuoteAssumption DEF Told
  <1>8. \A x \in Told : quotes'[x] = quotes[x]
    BY <1>4 DEF Told
  <1>9. Built'
    BY <1>4 DEF QuotesInv, Built
  <1>10. AskingOwn'
    BY <1>1, <1>4, QuoteAssumption DEF QuotesInv, AskingOwn, QuotesTypeOK
  <1> QED
    BY <1>2, <1>6, <1>7, <1>8, <1>9, <1>10, TellingNothing DEF QuotesInv

LEMMA WriteQuoteStep ==
  ASSUME QuotesInv, NEW r \in Askers, WriteQuote(r)
  PROVE  QuotesInv'
  <1> DEFINE q == asking[r]
             plan == quotes[q].plan
  <1>1. q \in Quotes /\ q # None /\ quotes[q] # NoQuote
    BY DEF WriteQuote, QuotesInv, QuotesTypeOK, AskingOwn
  <1>2. plan \in Plans
    BY <1>1, RowTyped DEF QuotesInv, Built
  <1>3. UNCHANGED <<router, quotes, cart, deleting>>
    BY DEF WriteQuote
  <1>4. /\ cached' = [cached EXCEPT ![plan] = q]
        /\ gone' = gone \cup Uncached(plan)
        /\ asking' = [asking EXCEPT ![r] = None]
    BY DEF WriteQuote
  <1>5. /\ cached'[plan] = q /\ \A x \in Plans \ {plan} : cached'[x] = cached[x]
        /\ asking'[r] = None /\ \A s \in Askers \ {r} : asking'[s] = asking[s]
    BY <1>2, <1>4 DEF QuotesInv, QuotesTypeOK
  <1>6. gone \subseteq gone' /\ (cached[plan] # None => cached[plan] \in gone')
    BY <1>4 DEF Uncached
  <1>7. Told' = Told \cup {q}
    BY <1>1, <1>3, <1>5, QuoteAssumption DEF Told, QuotesInv, AskingOwn
  <1>8. QuotesTypeOK'
    BY <1>1, <1>2, <1>3, <1>4 DEF QuotesInv, QuotesTypeOK, Uncached
  <1>9. Built' /\ CartsInv'
    BY <1>3, <1>7 DEF QuotesInv, Built, CartsInv, CartOK
  <1>10. CachedTold'
    BY <1>3, <1>5, <1>7 DEF QuotesInv, CachedTold
  <1>11. AskingOwn'
    BY <1>1, <1>3, <1>5 DEF QuotesInv, AskingOwn
  <1>12. ToldKept'
    <2> SUFFICES ASSUME NEW x \in Told, x # q PROVE x \in gone' \/ cached'[quotes[x].plan] = x
      BY <1>3, <1>5, <1>7 DEF ToldKept
    <2>1. quotes[x].plan \in Plans
      BY RowTyped DEF Told, QuotesInv, Built
    <2>2. x # None /\ (x \in gone \/ cached[quotes[x].plan] = x)
      BY QuoteAssumption DEF QuotesInv, ToldKept, Told
    <2> QED
      BY <1>5, <1>6, <2>1, <2>2
  <1> QED
    BY <1>8, <1>9, <1>10, <1>11, <1>12 DEF QuotesInv

(* The key of a plan is gone, whoever removed it.                          *)
LEMMA Evicted ==
  ASSUME QuotesInv, NEW plan \in Plans,
         cached' = [cached EXCEPT ![plan] = None], gone' = gone \cup Uncached(plan),
         deleting' \subseteq deleting, UNCHANGED <<router, quotes, asking, cart>>
  PROVE  QuotesInv'
  <1>1. cached'[plan] = None /\ \A x \in Plans \ {plan} : cached'[x] = cached[x]
    BY DEF QuotesInv, QuotesTypeOK
  <1>2. gone \subseteq gone' /\ (cached[plan] # None => cached[plan] \in gone')
    BY DEF Uncached
  <1>3. Told' = Told
    BY DEF Told
  <1>4. QuotesTypeOK'
    BY DEF QuotesInv, QuotesTypeOK, Uncached
  <1>5. Built' /\ AskingOwn'
    BY DEF QuotesInv, Built, AskingOwn
  <1>6. CartsInv'
    BY <1>3 DEF QuotesInv, CartsInv, CartOK
  <1>7. CachedTold'
    BY <1>1, <1>3 DEF QuotesInv, CachedTold
  <1>8. ToldKept'
    <2> SUFFICES ASSUME NEW x \in Told PROVE x \in gone' \/ cached'[quotes[x].plan] = x
      BY <1>3 DEF ToldKept
    <2>1. quotes[x].plan \in Plans
      BY RowTyped DEF Told, QuotesInv, Built
    <2>2. x # None /\ (x \in gone \/ cached[quotes[x].plan] = x)
      BY QuoteAssumption DEF QuotesInv, ToldKept, Told
    <2> QED
      BY <1>1, <1>2, <2>1, <2>2
  <1> QED
    BY <1>4, <1>5, <1>6, <1>7, <1>8 DEF QuotesInv

(* Only the cart of b changes, and the keys that are still to be deleted.  *)
LEMMA CartTurns ==
  ASSUME QuotesInv, router = "policies", NEW b \in Buyers, NEW c,
         cart' = [cart EXCEPT ![b] = c],
         CartOK(c),
         c \in [plan : Plans \cup {"none"}, named : Quotes \cup {None},
                offer : [plan : Plans \cup {"none"}, premium : Nat, cap : Nat],
                fresh : BOOLEAN, late : BOOLEAN],
         deleting' \subseteq Plans, UNCHANGED <<router, quotes, gone, cached, asking>>
  PROVE  QuotesInv'
  <1>1. QuotesTypeOK'
    BY DEF QuotesInv, QuotesTypeOK
  <1>2. Told' = Told
    BY DEF Told
  <1>3. Built' /\ AskingOwn' /\ CachedTold' /\ ToldKept'
    BY <1>2 DEF QuotesInv, Built, AskingOwn, CachedTold, ToldKept
  <1>4. cart'[b] = c /\ \A a \in Buyers \ {b} : cart'[a] = cart[a]
    BY DEF QuotesInv, QuotesTypeOK
  <1>5. CartsInv'
    BY <1>2, <1>4 DEF QuotesInv, CartsInv, CartOK
  <1> QED
    BY <1>1, <1>3, <1>5 DEF QuotesInv

LEMMA EmptyCart ==
  /\ CartOK(NoCart)
  /\ NoCart \in [plan : Plans \cup {"none"}, named : Quotes \cup {None},
                 offer : [plan : Plans \cup {"none"}, premium : Nat, cap : Nat],
                 fresh : BOOLEAN, late : BOOLEAN]
  BY DEF CartOK, NoCart, NoQuote

LEMMA ReadQuoteStep ==
  ASSUME QuotesInv, TermsTypeOK, router = "policies", NEW b \in Buyers, NEW plan \in Asked,
         NEW named \in Quotes \cup {None}, ReadQuote(b, plan, named)
  PROVE  QuotesInv'
  <1> DEFINE offer == IF cached[plan] = None THEN Offer(plan) ELSE quotes[cached[plan]]
             c == [plan |-> plan, named |-> named, offer |-> offer,
                   fresh |-> cached[plan] = None, late |-> named \in gone]
  <1>1. plan \in Plans /\ UNCHANGED <<router, quotes, gone, cached, asking, deleting>>
    BY QuoteAssumption DEF ReadQuote
  <1>2. /\ named \in Told \cup {None}
        /\ named # None /\ cached[plan] # None => named = cached[plan]
        /\ cart' = [cart EXCEPT ![b] = c]
    BY DEF ReadQuote
  <1>3. offer \in Rows(Floor..Ceiling) /\ offer.plan = plan
    <2>1. CASE cached[plan] = None
      BY <1>1, <2>1, OfferRow DEF Offer
    <2>2. CASE cached[plan] # None
      BY <1>1, <2>2 DEF QuotesInv, CachedTold, Told, Built
    <2> QED
      BY <2>1, <2>2
  <1>4. named # None /\ quotes[named].plan = plan =>
          \/ offer = quotes[named]
          \/ cached[plan] = None /\ named \in gone
    BY <1>2 DEF QuotesInv, ToldKept
  <1>5. /\ c.plan = plan /\ c.named = named /\ c.offer = offer
        /\ c.fresh = (cached[plan] = None) /\ c.late = (named \in gone)
    OBVIOUS
  <1>6. CartOK(c)
    <2> HIDE DEF c, offer
    <2> QED
      BY <1>1, <1>2, <1>3, <1>4, <1>5 DEF CartOK
  <1>7. offer \in [plan : Plans \cup {"none"}, premium : Nat, cap : Nat]
    <2> HIDE DEF offer
    <2> QED
      BY <1>3, RowTyped
  <1>8. c \in [plan : Plans \cup {"none"}, named : Quotes \cup {None},
               offer : [plan : Plans \cup {"none"}, premium : Nat, cap : Nat],
               fresh : BOOLEAN, late : BOOLEAN]
    <2> HIDE DEF offer
    <2> QED
      BY <1>1, <1>7
  <1>9. deleting' \subseteq Plans
    BY <1>1 DEF QuotesInv, QuotesTypeOK
  <1> QED
    <2> HIDE DEF c, offer
    <2> QED
      BY <1>1, <1>2, <1>6, <1>8, <1>9, CartTurns

LEMMA BuyQuotedStep ==
  ASSUME QuotesInv, router = "policies", NEW b \in Buyers, BuyQuoted(b) \/ AbandonQuoted(b)
  PROVE  QuotesInv'
  <1>1. /\ cart' = [cart EXCEPT ![b] = NoCart]
        /\ UNCHANGED <<router, quotes, gone, cached, asking>>
    BY DEF BuyQuoted, AbandonQuoted
  <1>2. deleting' \subseteq Plans
    BY DEF BuyQuoted, AbandonQuoted, QuotesInv, QuotesTypeOK, CartsInv, CartOK
  <1> QED
    BY <1>1, <1>2, EmptyCart, CartTurns

LEMMA QuotesResting ==
  ASSUME QuotesInv, UNCHANGED <<router, quotes, gone, cached, asking, cart>>,
         deleting' \subseteq deleting
  PROVE  QuotesInv'
  BY DEF QuotesInv, QuotesTypeOK, Built, CachedTold, AskingOwn, ToldKept, CartsInv, CartOK, Told

LEMMA NextQuotesInv ==
  ASSUME QuotesInv, TermsTypeOK, [RoutesNext]_routeVars
  PROVE  QuotesInv'
  <1>1. ASSUME router = "policies", QuotesNext PROVE QuotesInv'
    <2>1. ASSUME NEW plan \in Asked, QuoteExpires(plan) \/ DeleteQuote(plan) PROVE QuotesInv'
      <3>1. plan \in Plans
        BY QuoteAssumption
      <3>2. /\ cached' = [cached EXCEPT ![plan] = None] /\ gone' = gone \cup Uncached(plan)
            /\ deleting' \subseteq deleting /\ UNCHANGED <<router, quotes, asking, cart>>
        BY <2>1 DEF QuoteExpires, DeleteQuote
      <3> QED
        BY <3>1, <3>2, Evicted
    <2>2. ASSUME NEW plan \in Asked, DeletionFails(plan) PROVE QuotesInv'
      BY <2>2, QuotesResting DEF DeletionFails
    <2>3. ASSUME NEW b \in Buyers, StartPurchase(b) PROVE QuotesInv'
      BY <2>3, QuotesResting DEF StartPurchase, quoteVars
    <2>4. ASSUME NEW h \in Holders, HoldOn(h) PROVE QuotesInv'
      BY <2>4, QuotesResting DEF HoldOn, quoteVars
    <2> QED
      BY <1>1, <2>1, <2>2, <2>3, <2>4, BuildQuoteStep, QuoteFailsStep, WriteQuoteStep,
         ReadQuoteStep, BuyQuotedStep DEF QuotesNext
  <1>2. CASE UNCHANGED <<router, quoteVars>>
    BY <1>2, QuotesResting DEF quoteVars
  <1> QED
    BY <1>1, <1>2, RouterStays DEF RoutesNext, ProfileChanges, routeVars

-----------------------------------------------------------------------------
(* Plan, premium and cover.                                                *)

AnyRow == [plan : Plans \cup {"none"}, premium : Nat, cap : Nat]
Modelled == 2552..Dearest
Capped(row) == row.cap <= CapMax[row.plan]

(* What a request would write into the columns of a row.                   *)
Written(changes) ==
  /\ DOMAIN changes \subseteq {"plan", "premium", "cap"}
  /\ "plan" \in DOMAIN changes => changes["plan"] \in Plans
  /\ "premium" \in DOMAIN changes => changes["premium"] \in Modelled
  /\ "cap" \in DOMAIN changes => changes["cap"] \in Nat

Writes(h) == ask[h].op \in {"renew", "upgrade"}
Exists(p) == policy[p].status # "none"

(* A row that exists is priced within its engine and, unless two requests  *)
(* held it at once, covers no more than its plan allows.                   *)
RowOK(p) ==
  Exists(p) =>
    /\ terms[p] \in Rows(IF router = "policies" THEN Floor..Ceiling ELSE Modelled)
    /\ p \notin overlapped => Capped(terms[p])

(* What a request will write does the same to the row as it is by then, and *)
(* unless the row is overlapped nobody else is about to write it.          *)
WriterOK(h) ==
  /\ Written(ask[h].changes)
  /\ Writes(h) =>
       /\ ask[h].id \in Policies /\ Exists(ask[h].id)
       /\ ask[h].id \notin overlapped =>
            /\ Capped(Flushed(terms[ask[h].id], ask[h].changes))
            /\ \A g \in Holders \ {h} : Writes(g) => ask[g].id # ask[h].id

Targets == \A p \in Policies : scheduled[p] # NoRow => scheduled[p].target \in Plans

CoverInv ==
  /\ TermsTypeOK /\ PlansTypeOK /\ Targets
  /\ \A p \in Policies : RowOK(p)
  /\ \A h \in Holders : WriterOK(h)

LEMMA ModelledNatural == ASSUME NEW x \in Modelled PROVE x \in Nat
  BY DEF Modelled

LEMMA CapsNatural == \A plan \in Plans : CapMax[plan] \in Nat
  BY DEF CapMax, Plans

LEMMA LeastNatural ==
  ASSUME NEW a \in Nat, NEW b \in Nat
  PROVE  Least(a, b) \in Nat /\ Least(a, b) <= b
  BY DEF Least

LEMMA ModelledRow ==
  ASSUME NEW row \in Rows(Modelled)
  PROVE  /\ row \in AnyRow
         /\ row.plan \in Plans /\ row.premium \in Modelled /\ row.cap \in Nat
  <1>1. row.plan \in Plans /\ row.premium \in Modelled /\ row.cap \in Nat
    BY DEF Rows
  <1> QED
    BY <1>1, ModelledNatural DEF Rows, AnyRow

(* The columns that differ, written to the row they were read from, make   *)
(* the row that was wanted.                                                *)
LEMMA ChangesWritten ==
  ASSUME NEW row \in AnyRow, NEW wanted \in Rows(Modelled)
  PROVE  /\ Written(Changes(row, wanted))
         /\ Flushed(row, Changes(row, wanted)) = wanted
  <1>1. wanted \in AnyRow
    BY ModelledRow
  <1>2. DOMAIN row = {"plan", "premium", "cap"}
    BY DEF AnyRow
  <1>3. Written(Changes(row, wanted))
    BY <1>2 DEF Written, Changes, Rows
  <1>4. Flushed(row, Changes(row, wanted)) = wanted
    BY <1>1 DEF AnyRow, Changes, Flushed
  <1> QED
    BY <1>3, <1>4

LEMMA FlushedTyped ==
  ASSUME NEW row \in AnyRow, NEW changes, Written(changes)
  PROVE  /\ Flushed(row, changes) \in AnyRow
         /\ row \in Rows(Modelled) => Flushed(row, changes) \in Rows(Modelled)
  <1>1. "premium" \in DOMAIN changes => changes["premium"] \in Nat
    BY ModelledNatural DEF Written
  <1>2. Flushed(row, changes) \in AnyRow
    BY <1>1 DEF AnyRow, Flushed, Written
  <1>3. row \in Rows(Modelled) => Flushed(row, changes) \in Rows(Modelled)
    BY DEF Rows, Flushed, Written
  <1> QED
    BY <1>2, <1>3

LEMMA IdleWrites == Written(Idle.changes) /\ \A p : Written(Invalidating(p).changes)
  <1>1. Idle.changes = << >> /\ \A p : Invalidating(p).changes = << >>
    BY DEF Idle, Invalidating
  <1>2. Written(<< >>)
    BY DEF Written
  <1> QED
    BY <1>1, <1>2

(* Renewal and cancellation neither make a row nor remove one.             *)
LEMMA RowsStay ==
  ASSUME EndInv, NEW h \in Holders, Renew(h) \/ Cancel(h), NEW p \in Policies
  PROVE  Exists(p)' <=> Exists(p)
  <1>1. held[h].id \in Policies /\ Exists(held[h].id)
    BY DEF EndInv, HeldRow, Renew, Cancel, Exists
  <1>2. policy \in [Policies -> [status : {"none", "active", "cancelled"}, start : Nat,
                                 end : Nat, renewals : Nat]]
    BY DEF EndInv, TypeOK
  <1>3. p # held[h].id => policy'[p] = policy[p]
    BY <1>2 DEF Renew, Cancel
  <1>4. policy'[held[h].id].status \in {policy[held[h].id].status, "cancelled"}
    BY <1>1, <1>2 DEF Renew, Cancel
  <1> QED
    BY <1>1, <1>3, <1>4 DEF Exists

(* The row a purchase inserts is the one that changes.                     *)
LEMMA InsertedRow ==
  ASSUME EndInv, NEW b \in Buyers, Purchase(b), NEW q \in Policies, policy'[q] # policy[q]
  PROVE  ~Exists(q) /\ \A p \in Policies \ {q} : policy'[p] = policy[p]
  <1>1. PICK p \in Policies :
          /\ policy[p] = NoPolicy
          /\ policy' = [policy EXCEPT ![p] = [status |-> "active", start |-> now,
                                              end |-> now + Week, renewals |-> 0]]
    BY DEF Purchase
  <1>2. \A r \in Policies \ {p} : policy'[r] = policy[r]
    BY <1>1 DEF EndInv, TypeOK
  <1>3. q = p
    BY <1>2
  <1>4. ~Exists(q)
    BY <1>1, <1>3 DEF Exists, NoPolicy
  <1> QED
    BY <1>2, <1>3, <1>4

(* A purchase gives the row it inserts its terms.                          *)
LEMMA InsertedTerms ==
  ASSUME CoverInv, EndInv, NEW b \in Buyers, Purchase(b),
         NEW q \in Policies, policy'[q] # policy[q],
         NEW row \in Rows(IF router = "policies" THEN Floor..Ceiling ELSE Modelled),
         Capped(row), terms' = [terms EXCEPT ![q] = row], UNCHANGED <<router, ask, overlapped>>
  PROVE  /\ terms' \in [Policies -> AnyRow]
         /\ \A p \in Policies : RowOK(p)'
         /\ \A h \in Holders : WriterOK(h)'
  <1>1. row \in AnyRow
    BY RowTyped, ModelledRow DEF AnyRow
  <1>2. terms \in [Policies -> AnyRow]
    BY DEF CoverInv, TermsTypeOK, AnyRow
  <1>3. terms' \in [Policies -> AnyRow] /\ terms'[q] = row
        /\ \A p \in Policies \ {q} : terms'[p] = terms[p]
    BY <1>1, <1>2
  <1>4. ~Exists(q) /\ \A p \in Policies \ {q} : policy'[p] = policy[p]
    BY InsertedRow
  <1>5. \A p \in Policies : RowOK(p)'
    BY <1>3, <1>4 DEF CoverInv, RowOK, Exists
  <1>6. \A h \in Holders : WriterOK(h)'
    BY <1>3, <1>4 DEF CoverInv, WriterOK, Writes, Exists
  <1> QED
    BY <1>3, <1>5, <1>6

(* Rows and requests stay; a row may only be stamped as overlapped.        *)
LEMMA RowsResting ==
  ASSUME CoverInv, UNCHANGED <<terms, router>>, overlapped' = overlapped,
         \A p \in Policies : Exists(p)' <=> Exists(p)
  PROVE  /\ \A p \in Policies : RowOK(p)'
         /\ ask' = ask => \A h \in Holders : WriterOK(h)'
  <1>1. \A p \in Policies : RowOK(p)'
    BY DEF CoverInv, RowOK
  <1>2. ask' = ask => \A h \in Holders : WriterOK(h)'
    BY DEF CoverInv, WriterOK, Writes
  <1> QED
    BY <1>1, <1>2

-----------------------------------------------------------------------------
(* The steps that write plan, premium and cover.                           *)

(* What is asked of h is not a write any more, the rows stay.              *)
LEMMA Rests ==
  ASSUME CoverInv, ViewTypes, NEW h \in Holders,
         ask' = [ask EXCEPT ![h] = Idle] \/ \E p \in Policies : ask' = [ask EXCEPT ![h] = Invalidating(p)],
         UNCHANGED <<terms, router, overlapped>>,
         \A p \in Policies : Exists(p)' <=> Exists(p)
  PROVE  \A g \in Holders : WriterOK(g)'
  <1>1. /\ Written(ask'[h].changes) /\ ~Writes(h)'
        /\ \A g \in Holders \ {h} : ask'[g] = ask[g]
    BY RequestFields, IdleWrites DEF ViewTypes, Writes
  <1> QED
    BY <1>1 DEF CoverInv, WriterOK, Writes

(* Types of the requests: h goes to a new request.                         *)
AskTyped ==
  \A h \in Holders :
    /\ ask[h].op \in {"none", "renew", "upgrade", "invalidate"}
    /\ ask[h].id \in Policies \cup {None} /\ ask[h].number \in Nat
    /\ DOMAIN ask[h].changes \subseteq {"plan", "premium", "cap"}

LEMMA AskTurns ==
  ASSUME AskTyped, ViewTypes, NEW h \in Holders, NEW r, ask' = [ask EXCEPT ![h] = r],
         r.op \in {"none", "renew", "upgrade", "invalidate"},
         r.id \in Policies \cup {None}, r.number \in Nat, Written(r.changes)
  PROVE  AskTyped'
  BY DEF AskTyped, ViewTypes, Written

LEMMA IdleFields ==
  /\ Idle.op = "none" /\ Idle.id = None /\ Idle.number = 0
  /\ \A p : Invalidating(p).op = "invalidate" /\ Invalidating(p).id = p /\ Invalidating(p).number = 0
  BY DEF Idle, Invalidating

LEMMA AskRests ==
  ASSUME AskTyped, ViewTypes, NEW h \in Holders,
         ask' = [ask EXCEPT ![h] = Idle] \/ \E p \in Policies : ask' = [ask EXCEPT ![h] = Invalidating(p)]
  PROVE  AskTyped'
  <1>1. CASE ask' = [ask EXCEPT ![h] = Idle]
    <2>1. /\ Idle.op \in {"none", "renew", "upgrade", "invalidate"}
          /\ Idle.id \in Policies \cup {None} /\ Idle.number \in Nat /\ Written(Idle.changes)
      BY IdleFields, IdleWrites
    <2> QED
      BY <1>1, <2>1, AskTurns
  <1>2. ASSUME NEW p \in Policies, ask' = [ask EXCEPT ![h] = Invalidating(p)] PROVE AskTyped'
    <2>1. /\ Invalidating(p).op \in {"none", "renew", "upgrade", "invalidate"}
          /\ Invalidating(p).id \in Policies \cup {None} /\ Invalidating(p).number \in Nat
          /\ Written(Invalidating(p).changes)
      BY IdleFields, IdleWrites
    <2> QED
      BY <1>2, <2>1, AskTurns
  <1> QED
    BY <1>1, <1>2

(* A request reads row p and asks to write wanted to it.                   *)
LEMMA Takes ==
  ASSUME CoverInv, ViewTypes, NEW h \in Holders, NEW p \in Policies, Exists(p),
         NEW op \in {"renew", "upgrade"}, NEW wanted \in Rows(Modelled), NEW n \in Nat,
         Capped(terms[p]) => Capped(wanted), router = "policy", ~Writes(h),
         Take(h, p, op, wanted, n), UNCHANGED <<policy, terms, router>>
  PROVE  /\ AskTyped'
         /\ \A q \in Policies : RowOK(q)'
         /\ \A g \in Holders : WriterOK(g)'
         /\ overlapped' \subseteq Policies
  <1> DEFINE c == Changes(terms[p], wanted)
             r == [op |-> op, id |-> p, changes |-> c, number |-> n]
  <1>1. terms[p] \in AnyRow
    BY DEF CoverInv, TermsTypeOK, AnyRow
  <1>2. Written(c) /\ Flushed(terms[p], c) = wanted
    BY <1>1, ChangesWritten
  <1>3. r.op = op /\ r.id = p /\ r.changes = c /\ r.number = n
    OBVIOUS
  <1>4. ask' = [ask EXCEPT ![h] = r] /\ overlapped' = overlapped \cup Overlap(p)
    BY DEF Take
  <1> HIDE DEF c, r
  <1>5. AskTyped'
    <2>1. AskTyped
      BY DEF AskTyped, CoverInv, PlansTypeOK
    <2> QED
      BY <1>2, <1>3, <1>4, <2>1, AskTurns
  <1>6. ask'[h] = r /\ \A g \in Holders \ {h} : ask'[g] = ask[g]
    BY <1>4 DEF ViewTypes
  <1>7. overlapped \subseteq overlapped' /\ overlapped' \subseteq Policies
    BY <1>4 DEF CoverInv, PlansTypeOK, Overlap
  <1>8. p \notin overlapped' => \A g \in Holders : Writes(g) => ask[g].id # p
    BY <1>4 DEF Overlap, Writing, Writes
  <1>9. \A q \in Policies : RowOK(q)'
    BY <1>7 DEF CoverInv, RowOK, Exists
  <1>10. WriterOK(h)'
    <2>1. p \notin overlapped' => Capped(wanted)
      BY <1>7 DEF CoverInv, RowOK
    <2>2. p \notin overlapped' => \A g \in Holders \ {h} : Writes(g)' => ask'[g].id # p
      BY <1>6, <1>8 DEF Writes
    <2>3. ask'[h].id = p /\ ask'[h].changes = c
      BY <1>3, <1>6
    <2> QED
      BY <1>2, <2>1, <2>2, <2>3 DEF WriterOK, Exists
  <1>11. ASSUME NEW g \in Holders \ {h} PROVE WriterOK(g)'
    <2>1. ask'[g] = ask[g] /\ WriterOK(g)
      BY <1>6 DEF CoverInv
    <2>2. ASSUME Writes(g), ask[g].id \notin overlapped'
          PROVE  \A f \in Holders \ {g} : Writes(f)' => ask'[f].id # ask[g].id
      <3>1. ask[g].id # p
        BY <1>8, <2>2
      <3>2. \A f \in Holders \ {g} : Writes(f) => ask[f].id # ask[g].id
        BY <1>7, <2>1, <2>2 DEF WriterOK
      <3> QED
        BY <1>3, <1>6, <3>1, <3>2 DEF Writes
    <2> QED
      BY <1>7, <2>1, <2>2 DEF WriterOK, Writes, Exists
  <1> QED
    BY <1>5, <1>7, <1>9, <1>10, <1>11

(* The request of h writes its columns to the row.                         *)
LEMMA Commits ==
  ASSUME CoverInv, ViewTypes, NEW h \in Holders, Writes(h), router = "policy",
         terms' = [terms EXCEPT ![ask[h].id] = Flushed(@, ask[h].changes)],
         ask' = [ask EXCEPT ![h] = Invalidating(ask[h].id)],
         \A p \in Policies : Exists(p)' <=> Exists(p),
         UNCHANGED <<router, overlapped>>
  PROVE  /\ AskTyped'
         /\ terms' \in [Policies -> AnyRow]
         /\ \A p \in Policies : RowOK(p)'
         /\ \A g \in Holders : WriterOK(g)'
  <1> DEFINE p == ask[h].id
             new == Flushed(terms[p], ask[h].changes)
  <1>1. /\ p \in Policies /\ Exists(p) /\ Written(ask[h].changes)
        /\ p \notin overlapped =>
             /\ Capped(new)
             /\ \A g \in Holders \ {h} : Writes(g) => ask[g].id # p
    BY DEF CoverInv, WriterOK
  <1>2. AskTyped'
    <2>1. AskTyped
      BY DEF AskTyped, CoverInv, PlansTypeOK
    <2> QED
      BY <1>1, <2>1, AskRests
  <1>3. terms \in [Policies -> AnyRow] /\ terms[p] \in Rows(Modelled)
    BY <1>1 DEF CoverInv, TermsTypeOK, AnyRow, RowOK
  <1>4. new \in AnyRow /\ new \in Rows(Modelled)
    BY <1>1, <1>3, FlushedTyped
  <1>5. /\ terms' = [terms EXCEPT ![p] = new]
        /\ terms' \in [Policies -> AnyRow] /\ terms'[p] = new
        /\ \A q \in Policies \ {p} : terms'[q] = terms[q]
    BY <1>1, <1>3, <1>4
  <1>6. /\ Written(ask'[h].changes) /\ ~Writes(h)'
        /\ \A g \in Holders \ {h} : ask'[g] = ask[g]
    BY <1>1, RequestFields, IdleWrites DEF ViewTypes, Writes
  <1> HIDE DEF p, new
  <1>7. \A q \in Policies : RowOK(q)'
    BY <1>1, <1>4, <1>5 DEF CoverInv, RowOK
  <1>8. ASSUME NEW g \in Holders \ {h} PROVE WriterOK(g)'
    <2>1. ask'[g] = ask[g] /\ WriterOK(g)
      BY <1>6 DEF CoverInv
    <2>2. ASSUME Writes(g), ask[g].id \notin overlapped
          PROVE  ask[g].id \in Policies /\ ask[g].id # p
      BY <1>1, <2>1, <2>2 DEF WriterOK
    <2>3. \A f \in Holders : Writes(f)' => Writes(f) /\ ask'[f] = ask[f]
      BY <1>6 DEF Writes
    <2> QED
      BY <1>5, <2>1, <2>2, <2>3 DEF WriterOK, Writes
  <1> QED
    BY <1>2, <1>5, <1>6, <1>7, <1>8 DEF WriterOK

LEMMA RecomputedTier == ASSUME CoverInv, Recompute PROVE tier' \in {"bronze", "silver", "gold"}
  BY DEF CoverInv, PlansTypeOK, Recompute, TrustTier

(* The row the latest downgrade asks for is a row, capped as it was.       *)
LEMMA PlannedRow ==
  ASSUME CoverInv, NEW p \in Policies, terms[p] \in Rows(Modelled)
  PROVE  /\ Planned(p) \in Rows(Modelled)
         /\ Capped(terms[p]) => Capped(Planned(p))
  <1>1. CASE scheduled[p] = NoRow
    BY <1>1 DEF Planned
  <1>2. CASE scheduled[p] # NoRow
    <2> DEFINE t == scheduled[p].target
               k == Least(terms[p].cap, CapMax[t])
    <2>1. t \in Plans
      BY <1>2 DEF CoverInv, Targets
    <2>2. k \in Nat /\ k <= CapMax[t]
      BY <2>1, CapsNatural, LeastNatural, ModelledRow
    <2>3. Planned(p) = [plan |-> t, premium |-> terms[p].premium, cap |-> k]
      BY <1>2 DEF Planned, Rows
    <2> HIDE DEF t, k
    <2> QED
      BY <2>1, <2>2, <2>3, ModelledRow DEF Rows, Capped
  <1> QED
    BY <1>1, <1>2

LEMMA RepricedWithin ==
  ASSUME CoverInv, NEW plan \in Plans, NEW old
  PROVE  Repriced(plan, old) \in Modelled
  BY ModelWithin DEF Repriced, Modelled, CoverInv, TermsTypeOK, PlansTypeOK

LEMMA ReadForRenewalCover ==
  ASSUME CoverInv, ViewTypes, TypeOK', router = "policy", NEW h \in Holders, NEW p \in Policies,
         ReadForRenewal(h, p)
  PROVE  CoverInv'
  <1>1. PICK premium \in {terms[p].premium, Repriced(Planned(p).plan, terms[p].premium)} :
          Take(h, p, "renew", [Planned(p) EXCEPT !.premium = premium], scheduled[p].number)
    BY DEF ReadForRenewal
  <1> DEFINE wanted == [Planned(p) EXCEPT !.premium = premium]
  <1>2. /\ UNCHANGED <<policy, router, profile, terms, tier, scheduled, logging, view, looking,
                       applied, stained>>
        /\ Exists(p) /\ ~Writes(h)
    BY RequestFields DEF ReadForRenewal, Read, Active, Exists, Writes
  <1>3. terms[p] \in Rows(Modelled) /\ scheduled[p].number \in Nat
    BY <1>2 DEF CoverInv, RowOK, PlansTypeOK
  <1>4. Planned(p) \in Rows(Modelled) /\ (Capped(terms[p]) => Capped(Planned(p)))
    BY <1>3, PlannedRow
  <1>5. premium \in Modelled
    BY <1>3, <1>4, ModelledRow, RepricedWithin
  <1>6. wanted \in Rows(Modelled) /\ (Capped(Planned(p)) => Capped(wanted))
    BY <1>4, <1>5 DEF Rows, Capped
  <1> HIDE DEF wanted
  <1>7. /\ AskTyped' /\ \A q \in Policies : RowOK(q)'
        /\ \A g \in Holders : WriterOK(g)'
        /\ overlapped' \subseteq Policies
    BY <1>1, <1>2, <1>3, <1>4, <1>6, Takes DEF wanted
  <1>8. TermsTypeOK' /\ PlansTypeOK' /\ Targets'
    BY <1>2, <1>7 DEF AskTyped, CoverInv, TermsTypeOK, PlansTypeOK, Targets, ReadForRenewal
  <1> QED
    BY <1>7, <1>8 DEF CoverInv

LEMMA ReadForUpgradeCover ==
  ASSUME CoverInv, ViewTypes, TypeOK', router = "policy", NEW h \in Holders, NEW p \in Policies,
         NEW target \in Wanted, ReadForUpgrade(h, p, target)
  PROVE  CoverInv'
  <1> DEFINE kept == [plan |-> target, cap |-> Least(terms[p].cap, CapMax[target]),
                      premium |-> terms[p].premium]
             anew == [plan |-> target,
                      cap |-> Least(ModelCover(target, profile.earnings), CapMax[target]),
                      premium |-> Repriced(target, terms[p].premium)]
  <1>1. PICK wanted \in {kept, anew} : Take(h, p, "upgrade", wanted, 0)
    BY DEF ReadForUpgrade
  <1>2. /\ UNCHANGED <<policy, router, profile, terms, tier, scheduled, logging, view, looking,
                       applied, stained>>
        /\ Exists(p) /\ ~Writes(h) /\ target \in Plans
    BY RequestFields, PlanAssumption DEF ReadForUpgrade, Active, Exists, Writes, vars
  <1>3. terms[p] \in Rows(Modelled)
    BY <1>2 DEF CoverInv, RowOK
  <1>4. /\ ModelCover(target, profile.earnings) \in Nat /\ CapMax[target] \in Nat
        /\ Repriced(target, terms[p].premium) \in Modelled
    BY <1>2, ModelWithin, CapsNatural, RepricedWithin DEF CoverInv, TermsTypeOK, PlansTypeOK
  <1>5. /\ terms[p].premium \in Modelled
        /\ Least(terms[p].cap, CapMax[target]) \in Nat
        /\ Least(terms[p].cap, CapMax[target]) <= CapMax[target]
    BY <1>3, <1>4, ModelledRow, LeastNatural
  <1>6. /\ Least(ModelCover(target, profile.earnings), CapMax[target]) \in Nat
        /\ Least(ModelCover(target, profile.earnings), CapMax[target]) <= CapMax[target]
    BY <1>4, LeastNatural
  <1>7. kept \in Rows(Modelled) /\ Capped(kept)
    BY <1>2, <1>5 DEF Rows, Capped
  <1>8. anew \in Rows(Modelled) /\ Capped(anew)
    BY <1>2, <1>4, <1>6 DEF Rows, Capped
  <1> HIDE DEF kept, anew
  <1>9. wanted \in Rows(Modelled) /\ Capped(wanted)
    BY <1>7, <1>8
  <1>10. /\ AskTyped' /\ \A q \in Policies : RowOK(q)'
         /\ \A g \in Holders : WriterOK(g)'
         /\ overlapped' \subseteq Policies
    BY <1>1, <1>2, <1>9, Takes
  <1>11. TermsTypeOK' /\ PlansTypeOK' /\ Targets'
    BY <1>2, <1>10 DEF AskTyped, CoverInv, TermsTypeOK, PlansTypeOK, Targets
  <1> QED
    BY <1>10, <1>11 DEF CoverInv

LEMMA CommitCover ==
  ASSUME CoverInv, EndInv, ViewTypes, TypeOK', router = "policy", NEW h \in Holders,
         CommitRenewal(h) \/ CommitUpgrade(h)
  PROVE  CoverInv'
  <1>1. /\ Writes(h)
        /\ terms' = [terms EXCEPT ![ask[h].id] = Flushed(@, ask[h].changes)]
        /\ ask' = [ask EXCEPT ![h] = Invalidating(ask[h].id)]
        /\ UNCHANGED <<router, profile, scheduled, logging, view, looking, overlapped, stained>>
    BY DEF CommitRenewal, CommitUpgrade, Writes
  <1>2. \A p \in Policies : Exists(p)' <=> Exists(p)
    BY RowsStay DEF CommitRenewal, CommitUpgrade, Exists, vars
  <1>3. /\ AskTyped'
        /\ terms' \in [Policies -> AnyRow]
        /\ \A p \in Policies : RowOK(p)'
        /\ \A g \in Holders : WriterOK(g)'
    BY <1>1, <1>2, Commits
  <1>4. tier' \in {"bronze", "silver", "gold"}
    BY RecomputedTier DEF CommitRenewal, CommitUpgrade, CoverInv, PlansTypeOK
  <1>5. applied' \in [Policies -> Nat]
    BY DEF CommitRenewal, CommitUpgrade, CoverInv, PlansTypeOK, Greatest
  <1>6. TermsTypeOK' /\ PlansTypeOK' /\ Targets'
    BY <1>1, <1>3, <1>4, <1>5 DEF AskTyped, AnyRow, CoverInv, TermsTypeOK, PlansTypeOK, Targets
  <1> QED
    BY <1>3, <1>6 DEF CoverInv

(* A step that leaves the rows alone, and of the requests at most ends one. *)
LEMMA CoverResting ==
  ASSUME CoverInv, ViewTypes, TypeOK', UNCHANGED <<router, terms, overlapped, tier, applied>>,
         profile' \in Profiles,
         \A p \in Policies : Exists(p)' <=> Exists(p),
         \/ ask' = ask
         \/ \E h \in Holders :
              \/ ask' = [ask EXCEPT ![h] = Idle]
              \/ \E p \in Policies : ask' = [ask EXCEPT ![h] = Invalidating(p)],
         scheduled' \in [Policies -> [target : Plans \cup {"none"}, number : Nat]], Targets',
         logging' \subseteq [id : Policies, target : Plans],
         view' \in [Policies -> Details],
         looking' \in [Viewers -> [id : Policies \cup {None}, detail : Details]],
         stained' \subseteq Policies
  PROVE  CoverInv'
  <1>1. /\ \A p \in Policies : RowOK(p)'
        /\ ask' = ask => \A h \in Holders : WriterOK(h)'
    BY RowsResting
  <1>2. \A h \in Holders : WriterOK(h)'
    BY <1>1, Rests
  <1>3. AskTyped'
    <2>1. AskTyped
      BY DEF AskTyped, CoverInv, PlansTypeOK
    <2> QED
      BY <2>1, AskRests DEF AskTyped
  <1>4. TermsTypeOK' /\ PlansTypeOK'
    BY <1>3 DEF AskTyped, CoverInv, TermsTypeOK, PlansTypeOK
  <1> QED
    BY <1>1, <1>2, <1>4 DEF CoverInv

LEMMA PlansTyped ==
  ASSUME CoverInv
  PROVE  /\ scheduled \in [Policies -> [target : Plans \cup {"none"}, number : Nat]] /\ Targets
         /\ logging \subseteq [id : Policies, target : Plans]
         /\ view \in [Policies -> Details]
         /\ looking \in [Viewers -> [id : Policies \cup {None}, detail : Details]]
         /\ stained \subseteq Policies /\ profile \in Profiles
  BY DEF CoverInv, PlansTypeOK, TermsTypeOK

LEMMA EndingCover ==
  ASSUME CoverInv, ViewTypes, RenewalsHeld, TypeOK', NEW h \in Holders,
         RequestFails(h) \/ Invalidate(h) \/ InvalidationFails(h)
  PROVE  CoverInv'
  <1>1. /\ UNCHANGED <<policy, router, profile, terms, tier, scheduled, logging, looking, applied,
                       overlapped>>
        /\ ask' = [ask EXCEPT ![h] = Idle]
    BY DEF RequestFails, Invalidate, InvalidationFails, Forget, vars
  <1>2. NoView \in Details
    BY DEF NoView, Details
  <1>3. view' \in [Policies -> Details]
    BY <1>2, PlansTyped DEF RequestFails, Invalidate, InvalidationFails
  <1>4. stained' \subseteq Policies
    <2>1. InvalidationFails(h) => ask[h].id \in Policies \cup {None}
      BY DEF CoverInv, PlansTypeOK
    <2>2. CASE InvalidationFails(h)
      <3>1. ask[h].op = "invalidate" /\ stained' \subseteq stained \cup {ask[h].id}
        BY <2>2 DEF InvalidationFails
      <3> QED
        BY <3>1, PlansTyped DEF RenewalsHeld
    <2>3. CASE ~InvalidationFails(h)
      BY <2>3, PlansTyped DEF RequestFails, Invalidate
    <2> QED
      BY <2>2, <2>3
  <1>5. Targets' /\ \A p \in Policies : Exists(p)' <=> Exists(p)
    BY <1>1, PlansTyped DEF Targets, Exists
  <1> QED
    BY <1>1, <1>3, <1>4, <1>5, PlansTyped, CoverResting

LEMMA DowngradeCover ==
  ASSUME CoverInv, ViewTypes, TypeOK',
         \/ \E h \in Holders, p \in Policies, target \in Wanted : ScheduleDowngrade(h, p, target)
         \/ \E row \in logging : InsertAudit(row) \/ LoseAudit(row)
  PROVE  CoverInv'
  <1>1. ASSUME NEW h \in Holders, NEW p \in Policies, NEW target \in Wanted,
               ScheduleDowngrade(h, p, target)
        PROVE  CoverInv'
    <2>1. /\ UNCHANGED <<policy, router, profile, terms, tier, scheduled, view, looking, applied,
                         overlapped, stained>>
          /\ ask' = [ask EXCEPT ![h] = Invalidating(p)]
          /\ logging' = logging \cup {[id |-> p, target |-> target]}
      BY <1>1 DEF ScheduleDowngrade, vars
    <2>2. logging' \subseteq [id : Policies, target : Plans]
      BY <2>1, PlansTyped, PlanAssumption
    <2>3. Targets' /\ \A q \in Policies : Exists(q)' <=> Exists(q)
      BY <2>1, PlansTyped DEF Targets, Exists
    <2> QED
      BY <2>1, <2>2, <2>3, PlansTyped, CoverResting
  <1>2. ASSUME NEW row \in logging, InsertAudit(row) PROVE CoverInv'
    <2>1. /\ UNCHANGED <<policy, router, profile, terms, tier, ask, view, looking, applied,
                         overlapped>>
          /\ logging' \subseteq logging
          /\ scheduled' = [scheduled EXCEPT ![row.id] = [target |-> row.target,
                                                         number |-> @.number + 1]]
          /\ stained' \subseteq stained \cup {row.id}
      BY <1>2 DEF InsertAudit, vars
    <2>2. row.id \in Policies /\ row.target \in Plans
      BY PlansTyped
    <2>3. /\ scheduled' \in [Policies -> [target : Plans \cup {"none"}, number : Nat]]
          /\ Targets'
      BY <2>1, <2>2, PlansTyped DEF Targets
    <2>4. \A q \in Policies : Exists(q)' <=> Exists(q)
      BY <2>1 DEF Exists
    <2>5. stained' \subseteq Policies /\ logging' \subseteq [id : Policies, target : Plans]
      BY <2>1, <2>2, PlansTyped
    <2> QED
      BY <2>1, <2>3, <2>4, <2>5, PlansTyped, CoverResting
  <1>3. ASSUME NEW row \in logging, LoseAudit(row) PROVE CoverInv'
    <2>1. /\ UNCHANGED <<policy, router, profile, terms, tier, scheduled, ask, view, looking,
                         applied, overlapped, stained>>
          /\ logging' \subseteq logging
      BY <1>3 DEF LoseAudit, vars
    <2>2. Targets' /\ \A q \in Policies : Exists(q)' <=> Exists(q)
      BY <2>1, PlansTyped DEF Targets, Exists
    <2> QED
      BY <2>1, <2>2, PlansTyped, CoverResting
  <1> QED
    BY <1>1, <1>2, <1>3

LEMMA DetailTyped == ASSUME CoverInv, EndInv, NEW p \in Policies PROVE Detail(p) \in Details
  <1>1. terms[p].plan \in Plans \cup {"none"} /\ scheduled[p].target \in Plans \cup {"none"}
    BY DEF CoverInv, TermsTypeOK, PlansTypeOK
  <1>2. policy[p].renewals \in Nat
    BY DEF EndInv, TypeOK
  <1> QED
    BY <1>1, <1>2 DEF Detail, Details

LEMMA ViewCover ==
  ASSUME CoverInv, EndInv, ViewTypes, TypeOK',
         \/ \E v \in Viewers : CacheView(v) \/ ViewFails(v) \/ \E p \in Policies : LoadView(v, p)
         \/ \E p \in Policies : ViewExpires(p)
  PROVE  CoverInv'
  <1>1. UNCHANGED <<policy, router, profile, terms, tier, scheduled, logging, ask, applied, overlapped>>
    BY DEF CacheView, ViewFails, LoadView, ViewExpires, vars
  <1>2. NoView \in Details /\ NotLooking \in [id : Policies \cup {None}, detail : Details]
    BY DEF NotLooking, NoView, Details
  <1>3. Targets' /\ \A q \in Policies : Exists(q)' <=> Exists(q)
    BY <1>1, PlansTyped DEF Targets, Exists
  <1>4. /\ view' \in [Policies -> Details]
        /\ looking' \in [Viewers -> [id : Policies \cup {None}, detail : Details]]
        /\ stained' \subseteq Policies
    <2>1. ASSUME NEW v \in Viewers, CacheView(v)
          PROVE  /\ view' \in [Policies -> Details]
                 /\ looking' \in [Viewers -> [id : Policies \cup {None}, detail : Details]]
                 /\ stained' \subseteq Policies
      <3>1. looking[v].id \in Policies /\ looking[v].detail \in Details
        BY <2>1, PlansTyped DEF ViewTypes, CacheView
      <3> QED
        BY <2>1, <3>1, <1>2, PlansTyped DEF CacheView
    <2>2. ASSUME NEW v \in Viewers, NEW p \in Policies, LoadView(v, p)
          PROVE  /\ view' \in [Policies -> Details]
                 /\ looking' \in [Viewers -> [id : Policies \cup {None}, detail : Details]]
                 /\ stained' \subseteq Policies
      <3>1. [id |-> p, detail |-> Detail(p)] \in [id : Policies \cup {None}, detail : Details]
        BY DetailTyped
      <3> QED
        BY <2>2, <3>1, PlansTyped DEF LoadView
    <2>3. ASSUME NEW v \in Viewers, ViewFails(v)
          PROVE  /\ view' \in [Policies -> Details]
                 /\ looking' \in [Viewers -> [id : Policies \cup {None}, detail : Details]]
                 /\ stained' \subseteq Policies
      BY <2>3, <1>2, PlansTyped DEF ViewFails
    <2>4. ASSUME NEW p \in Policies, ViewExpires(p)
          PROVE  /\ view' \in [Policies -> Details]
                 /\ looking' \in [Viewers -> [id : Policies \cup {None}, detail : Details]]
                 /\ stained' \subseteq Policies
      BY <2>4, <1>2, PlansTyped DEF ViewExpires
    <2> QED
      BY <2>1, <2>2, <2>3, <2>4
  <1> QED
    BY <1>1, <1>3, <1>4, PlansTyped, CoverResting

LEMMA BuyPlanCover ==
  ASSUME CoverInv, EndInv, TypeOK', router = "policy", NEW b \in Buyers, NEW plan \in Wanted,
         BuyPlan(b, plan)
  PROVE  CoverInv'
  <1> DEFINE row == [plan |-> plan, premium |-> ModelPremium(plan, tier, profile.standard),
                     cap |-> Least(ModelCover(plan, profile.earnings), CapMax[plan])]
  <1>1. PICK q \in Policies : policy'[q] # policy[q] /\ terms' = [terms EXCEPT ![q] = row]
    BY DEF BuyPlan
  <1>2. /\ Purchase(b)
        /\ UNCHANGED <<router, profile, scheduled, logging, ask, view, looking, applied,
                       overlapped, stained>>
    BY DEF BuyPlan
  <1>3. plan \in Plans /\ tier' \in {"bronze", "silver", "gold"}
    BY PlanAssumption, RecomputedTier DEF BuyPlan
  <1>4. /\ ModelPremium(plan, tier, profile.standard) \in Floor..Dearest
        /\ ModelCover(plan, profile.earnings) \in Nat /\ CapMax[plan] \in Nat
    BY <1>3, ModelWithin, CapsNatural DEF CoverInv, TermsTypeOK, PlansTypeOK
  <1>5. /\ Least(ModelCover(plan, profile.earnings), CapMax[plan]) \in Nat
        /\ Least(ModelCover(plan, profile.earnings), CapMax[plan]) <= CapMax[plan]
    BY <1>4, LeastNatural
  <1>6. ModelPremium(plan, tier, profile.standard) \in Modelled
    BY <1>4 DEF Modelled, Floor
  <1>7. row \in Rows(Modelled) /\ Capped(row)
    BY <1>3, <1>5, <1>6 DEF Rows, Capped
  <1> HIDE DEF row
  <1>8. /\ terms' \in [Policies -> AnyRow]
        /\ \A p \in Policies : RowOK(p)'
        /\ \A h \in Holders : WriterOK(h)'
    BY <1>1, <1>2, <1>7, InsertedTerms
  <1>9. TermsTypeOK' /\ PlansTypeOK' /\ Targets'
    BY <1>2, <1>3, <1>8 DEF AnyRow, CoverInv, TermsTypeOK, PlansTypeOK, Targets
  <1> QED
    BY <1>8, <1>9 DEF CoverInv

LEMMA BuyQuotedCover ==
  ASSUME CoverInv, EndInv, QuotesInv, TypeOK', router = "policies", NEW b \in Buyers, BuyQuoted(b),
         UNCHANGED planVars
  PROVE  CoverInv'
  <1> DEFINE row == [cart[b].offer EXCEPT !.cap = Least(@, CapMax[cart[b].plan])]
  <1>1. PICK q \in Policies : policy'[q] # policy[q] /\ terms' = [terms EXCEPT ![q] = row]
    BY DEF BuyQuoted
  <1>2. Purchase(b) /\ UNCHANGED <<router, profile>>
    BY DEF BuyQuoted
  <1>3. cart[b].plan \in Plans /\ cart[b].offer.plan = cart[b].plan
        /\ cart[b].offer \in Rows(Floor..Ceiling)
    BY DEF BuyQuoted, QuotesInv, CartsInv, CartOK
  <1>4. /\ cart[b].offer.cap \in Nat /\ CapMax[cart[b].plan] \in Nat
    BY <1>3, RowTyped, CapsNatural
  <1>5. /\ Least(cart[b].offer.cap, CapMax[cart[b].plan]) \in Nat
        /\ Least(cart[b].offer.cap, CapMax[cart[b].plan]) <= CapMax[cart[b].plan]
    BY <1>4, LeastNatural
  <1>7. row \in Rows(Floor..Ceiling) /\ Capped(row)
    BY <1>3, <1>5 DEF Rows, Capped
  <1> HIDE DEF row
  <1>8. /\ terms' \in [Policies -> AnyRow]
        /\ \A p \in Policies : RowOK(p)'
        /\ \A h \in Holders : WriterOK(h)'
    BY <1>1, <1>2, <1>7, InsertedTerms DEF planVars
  <1>9. TermsTypeOK' /\ PlansTypeOK' /\ Targets'
    BY <1>2, <1>8 DEF AnyRow, CoverInv, TermsTypeOK, PlansTypeOK, Targets, planVars
  <1> QED
    BY <1>8, <1>9 DEF CoverInv

(* The rows, the requests and the plans all stay.                          *)
LEMMA CoverQuiet ==
  ASSUME CoverInv, ViewTypes, TypeOK', UNCHANGED <<router, terms, planVars>>, profile' \in Profiles,
         \A p \in Policies : Exists(p)' <=> Exists(p)
  PROVE  CoverInv'
  <1>1. UNCHANGED <<tier, scheduled, logging, ask, view, looking, applied, overlapped, stained>>
    BY DEF planVars
  <1>2. Targets'
    BY <1>1, PlansTyped DEF Targets
  <1> QED
    BY <1>1, <1>2, PlansTyped, CoverResting

LEMMA InitCoverInv == RoutesInit => CoverInv /\ QuotesInv
  <1> SUFFICES ASSUME RoutesInit PROVE CoverInv /\ QuotesInv
    OBVIOUS
  <1>1. NoTerms \in AnyRow /\ NoQuote \in AnyRow /\ NoView \in Details
        /\ NotLooking \in [id : Policies \cup {None}, detail : Details]
        /\ NoRow \in [target : Plans \cup {"none"}, number : Nat]
    BY DEF NoTerms, NoQuote, AnyRow, NoView, NotLooking, Details, NoRow
  <1>2. TypeOK
    BY InitEndInv DEF RoutesInit, TermsInit, EndInv
  <1>3. TermsTypeOK
    BY <1>1, <1>2 DEF RoutesInit, TermsInit, TermsTypeOK, AnyRow
  <1>4. AskTyped /\ \A h \in Holders : WriterOK(h)
    BY IdleFields, IdleWrites
    DEF RoutesInit, PlansInit, AskTyped, WriterOK, Writes, Written
  <1>5. PlansTypeOK
    BY <1>1, <1>4 DEF RoutesInit, PlansInit, PlansTypeOK, AskTyped
  <1>6. Targets /\ \A p \in Policies : RowOK(p)
    BY DEF RoutesInit, TermsInit, Init, PlansInit, Targets, RowOK, Exists, NoPolicy
  <1>7. QuotesTypeOK
    BY <1>1, EmptyCart DEF RoutesInit, QuotesInit, QuotesTypeOK, AnyRow
  <1>8. Built /\ CachedTold /\ AskingOwn /\ ToldKept /\ CartsInv
    BY EmptyCart
    DEF RoutesInit, QuotesInit, Built, CachedTold, AskingOwn, ToldKept, CartsInv, Told
  <1> QED
    BY <1>3, <1>4, <1>5, <1>6, <1>7, <1>8 DEF CoverInv, QuotesInv

RoutesInv == EndInv /\ ViewInv /\ QuotesInv /\ CoverInv

LEMMA PlansNextCover ==
  ASSUME RoutesInv, TypeOK', router = "policy", PlansNext
  PROVE  CoverInv'
  <1>1. CoverInv /\ EndInv /\ ViewTypes /\ RenewalsHeld
    BY DEF RoutesInv, ViewInv, PlansInv
  <1>2. ASSUME NEW b \in Buyers, StartPlan(b) \/ AbandonPlan(b) PROVE CoverInv'
    <2>1. UNCHANGED <<policy, router, profile, terms, planVars>>
      BY <1>2 DEF StartPlan, AbandonPlan, BeginPurchase, AbandonPurchase
    <2>2. profile' \in Profiles /\ \A p \in Policies : Exists(p)' <=> Exists(p)
      BY <1>1, <2>1, PlansTyped DEF Exists
    <2> QED
      BY <1>1, <2>1, <2>2, CoverQuiet
  <1>3. ASSUME NEW b \in Buyers, NEW plan \in Wanted, BuyPlan(b, plan) PROVE CoverInv'
    BY <1>1, <1>3, BuyPlanCover
  <1>4. ASSUME NEW h \in Holders, CommitRenewal(h) \/ CommitUpgrade(h) PROVE CoverInv'
    BY <1>1, <1>4, CommitCover
  <1>5. ASSUME NEW h \in Holders, RequestFails(h) \/ Invalidate(h) \/ InvalidationFails(h)
        PROVE  CoverInv'
    BY <1>1, <1>5, EndingCover
  <1>6. ASSUME NEW h \in Holders, NEW p \in Policies, ReadForRenewal(h, p) PROVE CoverInv'
    BY <1>1, <1>6, ReadForRenewalCover
  <1>7. ASSUME NEW h \in Holders, NEW p \in Policies, NEW plan \in Wanted,
               ReadForUpgrade(h, p, plan) \/ ScheduleDowngrade(h, p, plan)
        PROVE  CoverInv'
    BY <1>1, <1>7, ReadForUpgradeCover, DowngradeCover
  <1>8. ASSUME NEW row \in logging, InsertAudit(row) \/ LoseAudit(row) PROVE CoverInv'
    BY <1>1, <1>8, DowngradeCover
  <1>9. ASSUME NEW v \in Viewers,
               CacheView(v) \/ ViewFails(v) \/ \E p \in Policies : LoadView(v, p)
        PROVE  CoverInv'
    BY <1>1, <1>9, ViewCover
  <1>10. ASSUME NEW p \in Policies, ViewExpires(p) PROVE CoverInv'
    BY <1>1, <1>10, ViewCover
  <1> QED
    BY <1>2, <1>3, <1>4, <1>5, <1>6, <1>7, <1>8, <1>9, <1>10 DEF PlansNext

LEMMA QuotesNextCover ==
  ASSUME RoutesInv, TypeOK', router = "policies", QuotesNext, UNCHANGED planVars
  PROVE  CoverInv'
  <1>1. CoverInv /\ EndInv /\ ViewTypes /\ QuotesInv /\ profile \in Profiles
    BY PlansTyped DEF RoutesInv, ViewInv, PlansInv
  <1>2. ASSUME NEW b \in Buyers, BuyQuoted(b) PROVE CoverInv'
    BY <1>1, <1>2, BuyQuotedCover
  <1>3. ASSUME UNCHANGED <<policy, router, profile, terms>> PROVE CoverInv'
    BY <1>1, <1>3, CoverQuiet DEF Exists
  <1>4. ASSUME NEW h \in Holders, HoldOn(h) PROVE CoverInv'
    <2>1. UNCHANGED <<router, profile, terms>>
      BY <1>4 DEF HoldOn
    <2>2. \A p \in Policies : Exists(p)' <=> Exists(p)
      BY <1>1, <1>4, RowsStay DEF HoldOn, Read, Forget, Exists
    <2> QED
      BY <1>1, <2>1, <2>2, CoverQuiet
  <1>5. ASSUME NEW b \in Buyers, StartPurchase(b) \/ AbandonQuoted(b) PROVE CoverInv'
    BY <1>3, <1>5 DEF StartPurchase, AbandonQuoted, BeginPurchase, AbandonPurchase
  <1>6. ASSUME NEW b \in Buyers, NEW plan \in Asked, NEW named \in Quotes \cup {None},
               ReadQuote(b, plan, named)
        PROVE  CoverInv'
    BY <1>3, <1>6 DEF ReadQuote, vars
  <1>7. ASSUME NEW r \in Askers,
               WriteQuote(r) \/ QuoteFails(r) \/ \E plan \in Asked : BuildQuote(r, plan)
        PROVE  CoverInv'
    BY <1>3, <1>7 DEF WriteQuote, QuoteFails, BuildQuote, vars
  <1>8. ASSUME NEW plan \in Asked, QuoteExpires(plan) \/ DeleteQuote(plan) \/ DeletionFails(plan)
        PROVE  CoverInv'
    BY <1>3, <1>8 DEF QuoteExpires, DeleteQuote, DeletionFails, vars
  <1> QED
    BY <1>2, <1>4, <1>5, <1>6, <1>7, <1>8 DEF QuotesNext

LEMMA NextRoutesInv == RoutesInv /\ [RoutesNext]_routeVars => RoutesInv'
  <1> SUFFICES ASSUME RoutesInv, [RoutesNext]_routeVars PROVE RoutesInv'
    OBVIOUS
  <1>1. EndInv' /\ TypeOK'
    BY NextEndInv, RoutesStep DEF RoutesInv, EndInv
  <1>2. ViewInv'
    BY NextViewInv DEF RoutesInv
  <1>3. QuotesInv'
    BY NextQuotesInv DEF RoutesInv, CoverInv
  <1>4. CoverInv'
    <2>1. CoverInv /\ ViewTypes /\ profile \in Profiles
      BY PlansTyped DEF RoutesInv, ViewInv, PlansInv
    <2>2. ASSUME UNCHANGED <<policy, router, terms, planVars>>, profile' \in Profiles PROVE CoverInv'
      BY <1>1, <2>1, <2>2, CoverQuiet DEF Exists
    <2>3. CASE Tick /\ UNCHANGED <<router, profile, terms, quoteVars, planVars>>
      BY <2>1, <2>2, <2>3 DEF Tick
    <2>4. CASE ProfileChanges /\ UNCHANGED <<quoteVars, planVars>>
      BY <2>2, <2>4 DEF ProfileChanges, vars
    <2>5. CASE UNCHANGED routeVars
      BY <2>1, <2>2, <2>5 DEF routeVars, vars
    <2> QED
      BY <1>1, <2>3, <2>4, <2>5, PlansNextCover, QuotesNextCover DEF RoutesNext
  <1> QED
    BY <1>1, <1>2, <1>3, <1>4 DEF RoutesInv

LEMMA RoutesInvariant == RoutesSpec => []RoutesInv
  <1>1. RoutesInit => RoutesInv
    BY InitEndInv, InitViewInv, InitCoverInv DEF RoutesInit, TermsInit, RoutesInv
  <1> QED
    BY <1>1, NextRoutesInv, PTL DEF RoutesSpec

(* Type correctness of rows, quotes, requests and views under either       *)
(* router.                                                                 *)
THEOREM RoutesTypeCorrect == RoutesSpec => []RoutesTypeOK
  <1>1. RoutesInv => RoutesTypeOK
    BY DEF RoutesInv, QuotesInv, CoverInv, RoutesTypeOK
  <1> QED
    BY <1>1, RoutesInvariant, PTL

(* Whatever plans are bought, renewed, raised and lowered in, an active    *)
(* policy that no two requests wrote at once covers no more than its plan  *)
(* allows.                                                                 *)
THEOREM CoverStaysWithinPlan == RoutesSpec => []CoverWithinPlan
  <1>1. RoutesInv => CoverWithinPlan
    BY DEF RoutesInv, CoverInv, RowOK, Exists, Active, Capped, CoverWithinPlan
  <1> QED
    BY <1>1, RoutesInvariant, PTL

(* For every worker the premium of an active policy stays between the      *)
(* bounds of the engine it was priced by: the discount never compounds.    *)
THEOREM PremiumStaysBounded == RoutesSpec => []PremiumBounded
  <1>1. Discounted(Floor, "gold") = 2552
    BY DEF Discounted, Floor, TrustMultiplier, HalfEven
  <1>2. RoutesInv => PremiumBounded
    BY <1>1 DEF RoutesInv, CoverInv, RowOK, Exists, Active, Rows, Modelled, Dearest, PremiumBounded
  <1> QED
    BY <1>2, RoutesInvariant, PTL

(* A purchase takes its premium from its cart.                             *)
LEMMA PaysTheOffer ==
  ASSUME RoutesInv, NEW b \in Buyers, BuyQuoted(b), NEW p \in Policies, terms'[p] # terms[p]
  PROVE  /\ terms'[p].premium = cart[b].offer.premium
         /\ cart[b] # NoCart /\ CartOK(cart[b])
  <1> DEFINE row == [cart[b].offer EXCEPT !.cap = Least(@, CapMax[cart[b].plan])]
  <1>1. PICK q \in Policies : terms' = [terms EXCEPT ![q] = row]
    BY DEF BuyQuoted
  <1>2. terms \in [Policies -> AnyRow]
    BY DEF RoutesInv, CoverInv, TermsTypeOK, AnyRow
  <1>3. cart[b] # NoCart /\ CartOK(cart[b])
    BY DEF BuyQuoted, RoutesInv, QuotesInv, CartsInv
  <1>4. cart[b].offer \in Rows(Floor..Ceiling)
    BY <1>3 DEF CartOK
  <1>5. row.premium = cart[b].offer.premium
    BY <1>4 DEF Rows
  <1> HIDE DEF row
  <1>6. terms'[p] = row
    BY <1>1, <1>2
  <1> QED
    BY <1>3, <1>5, <1>6

LEMMA OnlyTheBuyer ==
  ASSUME RoutesInv, NEW b \in Buyers, Purchase(b), NEW a \in Buyers \ {b}
  PROVE  buying'[a] = buying[a]
  <1>1. buying \in [Buyers -> BOOLEAN]
    BY DEF RoutesInv, EndInv, TypeOK
  <1>2. buying' = [buying EXCEPT ![b] = FALSE]
    BY DEF Purchase
  <1> QED
    BY <1>1, <1>2

(* Terms change with the end of a purchase in three ways.                  *)
LEMMA TermsChange ==
  ASSUME RoutesInv, [RoutesNext]_routeVars
  PROVE  \/ UNCHANGED terms
         \/ UNCHANGED buying
         \/ \E a \in Buyers : BuyQuoted(a)
         \/ \A b \in Buyers : cart[b].named = None
  <1>1. CASE router = "policies" /\ QuotesNext
    BY <1>1 DEF QuotesNext, WriteQuote, QuoteFails, BuildQuote, QuoteExpires, DeleteQuote,
       DeletionFails, StartPurchase, AbandonQuoted, ReadQuote, HoldOn
  <1>2. CASE router = "policy"
    BY <1>2 DEF RoutesInv, QuotesInv, CartsInv, NoCart
  <1> QED
    BY <1>1, <1>2 DEF RoutesNext, ProfileChanges, routeVars

(* A purchase pays the quote it names, or a fresh price once that quote    *)
(* had left the cache: never the price of another quote.                   *)
THEOREM QuotesAreHonoured == RoutesSpec => QuoteHonoured
  <1> DEFINE Ends(b, p) == /\ buying[b] /\ ~buying'[b] /\ terms'[p] # terms[p]
                           /\ cart[b].named # None /\ quotes[cart[b].named].plan = cart[b].plan
             Pays(b, p) == \/ terms'[p].premium = quotes[cart[b].named].premium
                           \/ cart[b].late /\ cart[b].fresh
             Honoured == \A b \in Buyers, p \in Policies : Ends(b, p) => Pays(b, p)
  <1>1. RoutesInv /\ [RoutesNext]_routeVars => Honoured
    <2> SUFFICES ASSUME RoutesInv, [RoutesNext]_routeVars, NEW b \in Buyers, NEW p \in Policies,
                        Ends(b, p)
                 PROVE  Pays(b, p)
      OBVIOUS
    <2> HIDE DEF Pays
    <2>1. PICK a \in Buyers : BuyQuoted(a)
      BY TermsChange
    <2>2. a = b
      BY <2>1, OnlyTheBuyer, Zenon DEF BuyQuoted
    <2>3. /\ terms'[p].premium = cart[b].offer.premium
          /\ cart[b] # NoCart /\ CartOK(cart[b])
      BY <2>1, <2>2, PaysTheOffer
    <2> QED
      BY <2>3 DEF CartOK, Pays
  <1>2. RoutesInv /\ [RoutesNext]_routeVars => [Honoured]_<<buying, terms>>
    BY <1>1
  <1> QED
    BY <1>2, RoutesInvariant, PTL DEF RoutesSpec, QuoteHonoured
=============================================================================
