--------------------------- MODULE PolicyLifecycle ---------------------------
(***************************************************************************)
(* The weekly policies of one worker: purchase, renewal and cancellation   *)
(* as routers/policies.py performs them, each a request that reads the     *)
(* policy rows first and writes what it computed from them later.  No row  *)
(* is locked or versioned between the two, and nothing in the program sets *)
(* a policy whose week is over to another status.                          *)
(***************************************************************************)
EXTENDS Naturals, FiniteSets

CONSTANTS Policies,  \* policy ids
          Buyers,    \* concurrent POST /policies/purchase requests
          Holders,   \* concurrent renew and cancel requests
          Week,      \* length of a policy week
          MaxTime,   \* bound on the clock
          MaxRenewals,  \* bound on the renewals of a policy
          None

ASSUME PolicyAssumption ==
  /\ Buyers \cap Holders = {}
  /\ Week \in Nat \ {0}
  /\ MaxTime \in Nat
  /\ MaxRenewals \in Nat
  /\ None \notin Policies

VARIABLES now,
          policy,   \* policy[p]: the committed row, or NoPolicy
          buying,   \* buying[b]: b has found no active policy and will insert one
          held,     \* held[h]: the row h has read, and what it is about to do
          raced     \* history: two purchases have been under way at once

vars == <<now, policy, buying, held, raced>>

NoPolicy == [status |-> "none", start |-> 0, end |-> 0, renewals |-> 0]
NotHolding == [op |-> "none", id |-> None, end |-> 0, renewals |-> 0]

Active == {p \in Policies : policy[p].status = "active"}

Init ==
  /\ now = 0
  /\ policy = [p \in Policies |-> NoPolicy]
  /\ buying = [b \in Buyers |-> FALSE]
  /\ held = [h \in Holders |-> NotHolding]
  /\ raced = FALSE

Tick ==
  /\ now < MaxTime
  /\ now' = now + 1
  /\ UNCHANGED <<policy, buying, held, raced>>

-----------------------------------------------------------------------------
(* Purchase. *)

(* Faulty variant: only a policy that is still running refuses a purchase. *)
BeginAfterLapse(b) ==
  /\ ~buying[b]
  /\ ~\E p \in Active : now < policy[p].end
  /\ buying' = [buying EXCEPT ![b] = TRUE]
  /\ raced' = (raced \/ \E c \in Buyers : buying[c])
  /\ UNCHANGED <<now, policy, held>>

(* An active policy, running or lapsed, refuses the purchase: no step. *)
BeginPurchase(b) ==
  /\ ~buying[b]
  /\ Active = {}
  /\ buying' = [buying EXCEPT ![b] = TRUE]
  /\ raced' = (raced \/ \E c \in Buyers : buying[c])
  /\ UNCHANGED <<now, policy, held>>

Purchase(b) ==
  /\ buying[b]
  /\ buying' = [buying EXCEPT ![b] = FALSE]
  /\ \E p \in Policies :
       /\ policy[p] = NoPolicy
       /\ policy' = [policy EXCEPT ![p] = [status |-> "active", start |-> now,
                                           end |-> now + Week, renewals |-> 0]]
  /\ UNCHANGED <<now, held, raced>>

AbandonPurchase(b) ==
  /\ buying[b]
  /\ buying' = [buying EXCEPT ![b] = FALSE]
  /\ UNCHANGED <<now, policy, held, raced>>

-----------------------------------------------------------------------------
(* Renewal and cancellation.  Only the columns that changed are written.   *)

Read(h, op, p) ==
  /\ held[h] = NotHolding
  /\ p \in Active
  /\ op = "renew" => policy[p].renewals < MaxRenewals
  /\ held' = [held EXCEPT ![h] = [op |-> op, id |-> p, end |-> policy[p].end,
                                  renewals |-> policy[p].renewals]]
  /\ UNCHANGED <<now, policy, buying, raced>>

Release(h) == held' = [held EXCEPT ![h] = NotHolding]

(* Faulty variant: the new week starts today. *)
RenewFromToday(h) ==
  /\ held[h].op = "renew"
  /\ policy' = [policy EXCEPT ![held[h].id].end = now + Week,
                              ![held[h].id].renewals = held[h].renewals + 1]
  /\ Release(h)
  /\ UNCHANGED <<now, buying, raced>>

(* Faulty variant: the row is written back as it was read. *)
RenewWholeRow(h) ==
  /\ held[h].op = "renew"
  /\ policy' = [policy EXCEPT ![held[h].id].end = held[h].end + Week,
                              ![held[h].id].renewals = held[h].renewals + 1,
                              ![held[h].id].status = "active"]
  /\ Release(h)
  /\ UNCHANGED <<now, buying, raced>>

Renew(h) ==
  /\ held[h].op = "renew"
  /\ policy' = [policy EXCEPT ![held[h].id].end = held[h].end + Week,
                              ![held[h].id].renewals = held[h].renewals + 1]
  /\ Release(h)
  /\ UNCHANGED <<now, buying, raced>>

Cancel(h) ==
  /\ held[h].op = "cancel"
  /\ policy' = [policy EXCEPT ![held[h].id].status = "cancelled", ![held[h].id].end = now]
  /\ Release(h)
  /\ UNCHANGED <<now, buying, raced>>

(* The request fails before it commits. *)
Forget(h) ==
  /\ held[h] # NotHolding
  /\ Release(h)
  /\ UNCHANGED <<now, policy, buying, raced>>

Next ==
  \/ Tick
  \/ \E b \in Buyers : BeginPurchase(b) \/ Purchase(b) \/ AbandonPurchase(b)
  \/ \E h \in Holders : \/ \E op \in {"renew", "cancel"}, p \in Policies : Read(h, op, p)
                        \/ Renew(h) \/ Cancel(h) \/ Forget(h)

Spec == Init /\ [][Next]_vars
-----------------------------------------------------------------------------
(* Properties. *)

TypeOK ==
  /\ now \in 0..MaxTime
  /\ policy \in [Policies -> [status : {"none", "active", "cancelled"}, start : Nat,
                              end : Nat, renewals : Nat]]
  /\ buying \in [Buyers -> BOOLEAN]
  /\ held \in [Holders -> [op : {"none", "renew", "cancel"}, id : Policies \cup {None},
                           end : Nat, renewals : Nat]]
  /\ raced \in BOOLEAN

(* Unless two purchases were under way at once, a worker has at most one   *)
(* active policy, whatever renewals and cancellations race with them:      *)
(* nothing but the check before the insert says so.                        *)
AtMostOneActive == ~raced => Cardinality(Active) <= 1

(* An active policy ends one week after its start plus one for every       *)
(* renewal it counts, even when renewals overwrite one another: the two    *)
(* columns are computed from one reading and written together.             *)
EndMatchesRenewals ==
  \A p \in Active : policy[p].end = policy[p].start + Week * (policy[p].renewals + 1)

(* A cancelled policy stays cancelled, also for a renewal that had read it *)
(* as active: cover once given up never comes back.                        *)
CancelledForGood ==
  [][\A p \in Policies :
       policy[p].status = "cancelled" => policy'[p].status = "cancelled"]_vars
=============================================================================
