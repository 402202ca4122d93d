----------------------------- MODULE PolicyPlans -----------------------------
(***************************************************************************)
(* The requests of routers/policy.py: purchase, renewal with the downgrade *)
(* it finds in the audit log, upgrade, scheduling of a downgrade, and the  *)
(* cached view of a policy.  The audit row of a downgrade is inserted by a *)
(* detached task in a session of its own: later, or never.                 *)
(***************************************************************************)
EXTENDS PolicyTerms

CONSTANTS Wanted,          \* the plans bought, upgraded and downgraded to
          Viewers,         \* concurrent GET /policies/{id} requests
          MaxDowngrades    \* bound on the downgrade rows of a policy

ASSUME PlanAssumption == Wanted \subseteq Plans /\ MaxDowngrades \in Nat

VARIABLES tier,        \* trust_tier of the worker
          scheduled,   \* scheduled[p]: target and number of the latest downgrade row
          logging,     \* audit tasks that have not run: [id, target]
          ask,         \* ask[h]: what the request h has read and will write
          view,        \* view[p]: the cached detail of p, or NoView
          looking,     \* looking[v]: the detail v has loaded and will cache
          applied,     \* history: number of the last downgrade row applied
          overlapped,  \* history: policies two writing requests have held at once
          stained      \* history: policies whose view was left or put in stale

planVars == <<tier, scheduled, logging, ask, view, looking, applied, overlapped, stained>>

NoRow == [target |-> "none", number |-> 0]
Idle == [op |-> "none", id |-> None, changes |-> << >>, number |-> 0]
Invalidating(p) == [Idle EXCEPT !.op = "invalidate", !.id = p]
NoView == [plan |-> "none", renewals |-> 0, pending |-> "none"]
NotLooking == [id |-> None, detail |-> NoView]

PlansInit ==
  /\ tier = "bronze"
  /\ scheduled = [p \in Policies |-> NoRow]
  /\ logging = {}
  /\ ask = [h \in Holders |-> Idle]
  /\ view = [p \in Policies |-> NoView]
  /\ looking = [v \in Viewers |-> NotLooking]
  /\ applied = [p \in Policies |-> 0]
  /\ overlapped = {} /\ stained = {}

(* Premium and cover are shown as well: they change with plan or renewals. *)
Detail(p) ==
  [plan |-> terms[p].plan, renewals |-> policy[p].renewals, pending |-> scheduled[p].target]

Writing(p) == {h \in Holders : ask[h].id = p /\ ask[h].op \in {"renew", "upgrade"}}
Overlap(p) == IF Writing(p) = {} THEN {} ELSE {p}

(* The ORM writes the columns that differ from what it loaded. *)
Changes(loaded, wanted) ==
  [c \in {d \in DOMAIN loaded : wanted[d] # loaded[d]} |-> wanted[c]]
Flushed(row, changes) ==
  [c \in DOMAIN row |-> IF c \in DOMAIN changes THEN changes[c] ELSE row[c]]

(* recompute_trust_score, or the failure of it that the callers swallow. *)
Recompute ==
  \/ tier' = tier
  \/ \E claims \in ClaimHistories, p \in Policies :
       /\ \A q \in Policies : policy'[q].renewals <= policy'[p].renewals
       /\ tier' = TrustTier(TrustScore(profile, policy'[p].renewals, claims))

-----------------------------------------------------------------------------
(* Purchase. *)

StartPlan(b) ==
  /\ BeginPurchase(b)
  /\ UNCHANGED <<router, profile, terms, planVars>>

BuyPlan(b, plan) ==
  /\ Purchase(b)
  /\ \E p \in Policies :
       /\ policy'[p] # policy[p]
       /\ terms' = [terms EXCEPT ![p] =
                      [plan |-> plan, premium |-> ModelPremium(plan, tier, profile.standard),
                       cap |-> Least(ModelCover(plan, profile.earnings), CapMax[plan])]]
  /\ Recompute
  /\ UNCHANGED <<router, profile, scheduled, logging, ask, view, looking,
                 applied, overlapped, stained>>

AbandonPlan(b) ==
  /\ AbandonPurchase(b)
  /\ UNCHANGED <<router, profile, terms, planVars>>

-----------------------------------------------------------------------------
(* Renewal and upgrade.  When pricing fails the old premium is kept.       *)

(* Faulty variant: the discount is taken from what is paid today. *)
DiscountedAgain(plan, old) == Discounted(old, tier)

(* The premium of today for a plan, whatever was paid before. *)
Repriced(plan, old) == Discounted(ModelPremium(plan, tier, profile.standard), tier)

Take(h, p, op, wanted, number) ==
  /\ ask' = [ask EXCEPT ![h] = [op |-> op, id |-> p, changes |-> Changes(terms[p], wanted),
                                number |-> number]]
  /\ overlapped' = overlapped \cup Overlap(p)

(* Faulty variant: the downgraded row keeps its cover. *)
PlannedKeepingCap(p) ==
  IF scheduled[p] = NoRow THEN terms[p] ELSE [terms[p] EXCEPT !.plan = scheduled[p].target]

(* The latest downgrade row, whenever it was written and applied before. *)
Planned(p) ==
  IF scheduled[p] = NoRow THEN terms[p]
  ELSE [terms[p] EXCEPT !.plan = scheduled[p].target,
                        !.cap = Least(@, CapMax[scheduled[p].target])]

ReadForRenewal(h, p) ==
  /\ ask[h] = Idle
  /\ Read(h, "renew", p)
  /\ \E premium \in {terms[p].premium, Repriced(Planned(p).plan, terms[p].premium)} :
       Take(h, p, "renew", [Planned(p) EXCEPT !.premium = premium], scheduled[p].number)
  /\ UNCHANGED <<router, profile, terms, tier, scheduled, logging, view, looking,
                 applied, stained>>

CommitRenewal(h) ==
  /\ ask[h].op = "renew"
  /\ Renew(h)
  /\ terms' = [terms EXCEPT ![ask[h].id] = Flushed(@, ask[h].changes)]
  /\ applied' = [applied EXCEPT ![ask[h].id] = Greatest(@, ask[h].number)]
  /\ ask' = [ask EXCEPT ![h] = Invalidating(ask[h].id)]
  /\ Recompute
  /\ UNCHANGED <<router, profile, scheduled, logging, view, looking, overlapped, stained>>

ReadForUpgrade(h, p, target) ==
  /\ ask[h] = Idle /\ p \in Active
  /\ Rank[target] > Rank[terms[p].plan]
  /\ \E wanted \in
       {[plan |-> target, cap |-> Least(terms[p].cap, CapMax[target]), premium |-> terms[p].premium],
        [plan |-> target, cap |-> Least(ModelCover(target, profile.earnings), CapMax[target]),
         premium |-> Repriced(target, terms[p].premium)]} :
       Take(h, p, "upgrade", wanted, 0)
  /\ UNCHANGED <<vars, router, profile, terms, tier, scheduled, logging, view, looking,
                 applied, stained>>

(* Faulty variant: the cached view is left alone. *)
CommitUpgradeSilently(h) ==
  /\ ask[h].op = "upgrade"
  /\ terms' = [terms EXCEPT ![ask[h].id] = Flushed(@, ask[h].changes)]
  /\ ask' = [ask EXCEPT ![h] = Idle]
  /\ UNCHANGED <<vars, router, profile, tier, scheduled, logging, view, looking,
                 applied, overlapped, stained>>

CommitUpgrade(h) ==
  /\ ask[h].op = "upgrade"
  /\ terms' = [terms EXCEPT ![ask[h].id] = Flushed(@, ask[h].changes)]
  /\ ask' = [ask EXCEPT ![h] = Invalidating(ask[h].id)]
  /\ UNCHANGED <<vars, router, profile, tier, scheduled, logging, view, looking,
                 applied, overlapped, stained>>

RequestFails(h) ==
  /\ \/ ask[h].op = "renew" /\ Forget(h)
     \/ ask[h].op = "upgrade" /\ UNCHANGED vars
  /\ ask' = [ask EXCEPT ![h] = Idle]
  /\ UNCHANGED <<router, profile, terms, tier, scheduled, logging, view, looking,
                 applied, overlapped, stained>>

-----------------------------------------------------------------------------
(* Downgrade. *)

ScheduleDowngrade(h, p, target) ==
  /\ ask[h] = Idle /\ p \in Active
  /\ Rank[target] < Rank[terms[p].plan]
  /\ scheduled[p].number + Cardinality(logging) < MaxDowngrades
  /\ logging' = logging \cup {[id |-> p, target |-> target]}
  /\ ask' = [ask EXCEPT ![h] = Invalidating(p)]
  /\ UNCHANGED <<vars, router, profile, terms, tier, scheduled, view, looking,
                 applied, overlapped, stained>>

InsertAudit(row) ==
  /\ row \in logging
  /\ logging' = logging \ {row}
  /\ scheduled' = [scheduled EXCEPT ![row.id] = [target |-> row.target, number |-> @.number + 1]]
  /\ stained' = stained \cup (IF view[row.id] = NoView THEN {} ELSE {row.id})
  /\ UNCHANGED <<vars, router, profile, terms, tier, ask, view, looking, applied, overlapped>>

(* The insert fails, which is printed and counted, or the replica stops. *)
LoseAudit(row) ==
  /\ row \in logging
  /\ logging' = logging \ {row}
  /\ UNCHANGED <<vars, router, profile, terms, tier, scheduled, ask, view, looking,
                 applied, overlapped, stained>>

-----------------------------------------------------------------------------
(* The cached view. *)

Invalidate(h) ==
  /\ ask[h].op = "invalidate"
  /\ view' = [view EXCEPT ![ask[h].id] = NoView]
  /\ stained' = stained \ {ask[h].id}
  /\ ask' = [ask EXCEPT ![h] = Idle]
  /\ UNCHANGED <<vars, router, profile, terms, tier, scheduled, logging, looking,
                 applied, overlapped>>

(* Redis cannot be reached: a warning, and the view stays. *)
InvalidationFails(h) ==
  /\ ask[h].op = "invalidate"
  /\ stained' = stained \cup (IF view[ask[h].id] = NoView THEN {} ELSE {ask[h].id})
  /\ ask' = [ask EXCEPT ![h] = Idle]
  /\ UNCHANGED <<vars, router, profile, terms, tier, scheduled, logging, view, looking,
                 applied, overlapped>>

(* A cached view is answered as it is, no step. *)
LoadView(v, p) ==
  /\ looking[v] = NotLooking /\ view[p] = NoView
  /\ policy[p] # NoPolicy
  /\ looking' = [looking EXCEPT ![v] = [id |-> p, detail |-> Detail(p)]]
  /\ UNCHANGED <<vars, router, profile, terms, tier, scheduled, logging, ask, view,
                 applied, overlapped, stained>>

CacheView(v) ==
  /\ looking[v] # NotLooking
  /\ LET p == looking[v].id
     IN  /\ view' = [view EXCEPT ![p] = looking[v].detail]
         /\ stained' = IF looking[v].detail = Detail(p) THEN stained \ {p} ELSE stained \cup {p}
  /\ looking' = [looking EXCEPT ![v] = NotLooking]
  /\ UNCHANGED <<vars, router, profile, terms, tier, scheduled, logging, ask, applied, overlapped>>

ViewFails(v) ==
  /\ looking[v] # NotLooking
  /\ looking' = [looking EXCEPT ![v] = NotLooking]
  /\ UNCHANGED <<vars, router, profile, terms, tier, scheduled, logging, ask, view,
                 applied, overlapped, stained>>

(* Thirty seconds are over. *)
ViewExpires(p) ==
  /\ view[p] # NoView
  /\ view' = [view EXCEPT ![p] = NoView]
  /\ stained' = stained \ {p}
  /\ UNCHANGED <<vars, router, profile, terms, tier, scheduled, logging, ask, looking,
                 applied, overlapped>>

PlansNext ==
  \/ \E b \in Buyers : StartPlan(b) \/ AbandonPlan(b) \/ \E plan \in Wanted : BuyPlan(b, plan)
  \/ \E h \in Holders :
       \/ CommitRenewal(h) \/ CommitUpgrade(h) \/ RequestFails(h)
       \/ Invalidate(h) \/ InvalidationFails(h)
       \/ \E p \in Policies : \/ ReadForRenewal(h, p)
                              \/ \E plan \in Wanted : \/ ReadForUpgrade(h, p, plan)
                                                      \/ ScheduleDowngrade(h, p, plan)
  \/ \E row \in logging : InsertAudit(row) \/ LoseAudit(row)
  \/ \E v \in Viewers : CacheView(v) \/ ViewFails(v) \/ \E p \in Policies : LoadView(v, p)
  \/ \E p \in Policies : ViewExpires(p)

-----------------------------------------------------------------------------
(* Properties. *)

Details == [plan : Plans \cup {"none"}, renewals : Nat, pending : Plans \cup {"none"}]

PlansTypeOK ==
  /\ tier \in {"bronze", "silver", "gold"}
  /\ scheduled \in [Policies -> [target : Plans \cup {"none"}, number : Nat]]
  /\ logging \subseteq [id : Policies, target : Plans]
  /\ \A h \in Holders :
       /\ ask[h].op \in {"none", "renew", "upgrade", "invalidate"}
       /\ ask[h].id \in Policies \cup {None} /\ ask[h].number \in Nat
       /\ DOMAIN ask[h].changes \subseteq {"plan", "premium", "cap"}
  /\ view \in [Policies -> Details]
  /\ looking \in [Viewers -> [id : Policies \cup {None}, detail : Details]]
  /\ applied \in [Policies -> Nat]
  /\ overlapped \subseteq Policies /\ stained \subseteq Policies

(* The cached detail of a policy is the row and its pending downgrade,     *)
(* unless a request has still to invalidate it, or the view was loaded     *)
(* before a write and cached after its invalidation, or an invalidation    *)
(* failed, or the detached audit row arrived after it: no other sequence   *)
(* of writes shows a worker a plan he no longer has.                       *)
ViewFresh ==
  \A p \in Policies :
    \/ view[p] \in {NoView, Detail(p)}
    \/ p \in stained
    \/ \E h \in Holders : ask[h].op = "invalidate" /\ ask[h].id = p

(* A downgrade row lowers the plan at one renewal, "until the renewal      *)
(* endpoint consumes it"; a plan bought back afterwards stays.             *)
DowngradeOnce ==
  [][\A p \in Policies :
       /\ terms[p].plan # "none"
       /\ Rank[terms'[p].plan] < Rank[terms[p].plan]
       => \E h \in Holders : ask[h].op = "renew" /\ ask[h].id = p /\ ask[h].number > applied[p]]_planVars
=============================================================================
