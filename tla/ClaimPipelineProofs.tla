------------------------- MODULE ClaimPipelineProofs -------------------------
(***************************************************************************)
(* Proofs about ClaimPipeline for every set of workers, triggers, replicas *)
(* and requests and every fault bound: types; then settlement, the rows of *)
(* a claim appear together, one transaction at a time holds a claim, money *)
(* is accounted for, and the pipeline implements ClaimLedger; last, with   *)
(* lemmas about sums, the weekly cap.                                      *)
(***************************************************************************)
EXTENDS ClaimPipeline, FiniteSetTheorems, WellFoundedInduction, TLAPS

Working == {"insert", "score", "rescore", "pay", "gateway", "publish", "commit"}

(* What the fields of a session hold at each point of its transaction. *)
Shape(x) ==
  /\ x.pc = "next" => x.trig \in Triggers
  /\ x.pc \in Working => x.worker \in Workers /\ x.trig \in Triggers
  /\ x.pc \in {"pay", "gateway", "publish", "commit"} =>
       x.decision # "none" /\ x.to # "initiated"

SessionShape == \A s \in Sessions : Shape(sess[s])

TypeInv == TypeOK /\ SessionShape

LEMMA InitTypeInv == Init => TypeInv
  <1> SUFFICES ASSUME Init PROVE TypeInv
    OBVIOUS
  <1> USE PipelineAssumption DEF Init, Idle, NoPayout
  <1>1. TypeOK
    BY DEF TypeOK, SessionType, Payouts
  <1>2. SessionShape
    BY DEF SessionShape, Shape, Working
  <1> QED
    BY <1>1, <1>2 DEF TypeInv

(* Only the session that acts changes, so only its new record matters. *)
LEMMA BecomeTyped ==
  ASSUME TypeInv, NEW s \in Sessions, NEW x, Become(s, x), x \in SessionType, Shape(x)
  PROVE  sess' \in [Sessions -> SessionType] /\ SessionShape'
  BY DEF TypeInv, TypeOK, SessionShape, Become, Shape

LEMMA SameSessions ==
  ASSUME TypeInv, UNCHANGED sess
  PROVE  sess' \in [Sessions -> SessionType] /\ SessionShape'
  BY DEF TypeInv, TypeOK, SessionShape, Shape

LEMMA IdleTyped == Idle \in SessionType /\ Shape(Idle)
  BY PipelineAssumption DEF Idle, SessionType, Payouts, NoPayout, Shape, Working

LEMMA NextTypeInv == TypeInv /\ [Next]_vars => TypeInv'
  <1> SUFFICES ASSUME TypeInv, [Next]_vars PROVE TypeInv'
    OBVIOUS
  <1> USE PipelineAssumption DEF TypeInv, TypeOK, database
  <1>1. ASSUME NEW t \in Triggers, PollWrite(t) PROVE TypeInv'
    BY <1>1, SameSessions DEF PollWrite, Deliver
  <1>2. ASSUME NEW t \in Triggers, PollPublish(t) PROVE TypeInv'
    BY <1>2, SameSessions DEF PollPublish, Deliver
  <1>3. ASSUME NEW t \in Triggers, PollCrash(t) PROVE TypeInv'
    BY <1>3, SameSessions DEF PollCrash, Deliver
  <1>4. ASSUME NEW t \in Triggers, SimulatePublish(t) PROVE TypeInv'
    BY <1>4, SameSessions DEF SimulatePublish, Deliver
  <1>5. ASSUME NEW t \in Triggers, SimulateCommit(t) PROVE TypeInv'
    BY <1>5, SameSessions DEF SimulateCommit, Deliver
  <1>6. ASSUME NEW t \in Triggers, SimulateAbort(t) PROVE TypeInv'
    BY <1>6, SameSessions DEF SimulateAbort, Deliver
  <1>7. ASSUME NEW r \in Replicas, Receive(r) PROVE TypeInv'
    <2>1. Head(inbox[r]) \in Triggers /\ Tail(inbox[r]) \in Seq(Triggers)
      BY <1>7 DEF Receive
    <2> DEFINE t == Head(inbox[r])
               x == [Idle EXCEPT !.pc = "next", !.trig = t, !.todo = Eligible[t]]
    <2>2. x \in SessionType /\ Shape(x)
      BY <2>1, IdleTyped DEF SessionType, Shape, Working
    <2>3. Become(r, x) \/ UNCHANGED sess
      BY <1>7 DEF Receive
    <2>4. sess' \in [Sessions -> SessionType] /\ SessionShape'
      BY <2>2, <2>3, BecomeTyped, SameSessions DEF Sessions
    <2> QED
      BY <1>7, <2>1, <2>4 DEF Receive
  <1>8. ASSUME NEW r \in Replicas, NextWorker(r) PROVE TypeInv'
    <2>1. PICK w \in sess[r].todo :
            Become(r, [sess[r] EXCEPT !.worker = w, !.todo = @ \ {w},
                                      !.pc = IF claims[<<w, sess[r].trig>>] = "none"
                                               THEN "insert" ELSE "rescore"])
      BY <1>8 DEF NextWorker
    <2> DEFINE x == [sess[r] EXCEPT !.worker = w, !.todo = @ \ {w},
                                    !.pc = IF claims[<<w, sess[r].trig>>] = "none"
                                             THEN "insert" ELSE "rescore"]
    <2>2. sess[r] \in SessionType /\ sess[r].trig \in Triggers
      BY <1>8 DEF NextWorker, SessionShape, Shape, Sessions
    <2>3. x \in SessionType /\ Shape(x)
      BY <2>2 DEF SessionType, Shape, Working
    <2>4. sess' \in [Sessions -> SessionType] /\ SessionShape'
      BY <2>1, <2>3, BecomeTyped DEF Sessions
    <2> QED
      BY <1>8, <2>4 DEF NextWorker
  <1>9. ASSUME NEW r \in Replicas, FinishDelivery(r) PROVE TypeInv'
    <2>1. sess' \in [Sessions -> SessionType] /\ SessionShape'
      BY <1>9, IdleTyped, BecomeTyped DEF FinishDelivery, Abandon, Sessions
    <2> QED
      BY <1>9, <2>1 DEF FinishDelivery
  <1>10. ASSUME NEW r \in Replicas, Crash(r) PROVE TypeInv'
    <2>1. sess' \in [Sessions -> SessionType] /\ SessionShape'
      BY <1>10, IdleTyped, BecomeTyped DEF Crash, Abandon, Sessions
    <2> QED
      BY <1>10, <2>1 DEF Crash
  <1>11. ASSUME NEW s \in Sessions, Fail(s) PROVE TypeInv'
    <2>1. sess' \in [Sessions -> SessionType] /\ SessionShape'
      BY <1>11, IdleTyped, BecomeTyped DEF Fail, Abandon, Sessions
    <2> QED
      BY <1>11, <2>1 DEF Fail
  <1>12. ASSUME NEW q \in Requests, NEW w \in Workers, NEW t \in Triggers, Apply(q, w, t)
         PROVE TypeInv'
    <2> DEFINE x == [Idle EXCEPT !.pc = "insert", !.trig = t, !.worker = w]
    <2>1. x \in SessionType /\ Shape(x)
      BY IdleTyped DEF SessionType, Shape, Working
    <2>2. sess' \in [Sessions -> SessionType] /\ SessionShape'
      BY <1>12, <2>1, BecomeTyped DEF Apply, Sessions
    <2> QED
      BY <1>12, <2>2 DEF Apply
  <1>13. ASSUME NEW q \in Requests, Republish(q) PROVE TypeInv'
    <2> DEFINE x == [sess[q] EXCEPT !.pc = "commit"]
    <2>1. sess[q] \in SessionType /\ Shape(sess[q]) /\ sess[q].pc = "publish"
      BY <1>13 DEF Republish, SessionShape, Sessions
    <2>2. x \in SessionType /\ Shape(x) /\ sess[q].trig \in Triggers
      BY <2>1 DEF SessionType, Shape, Working
    <2>3. sess' \in [Sessions -> SessionType] /\ SessionShape'
      BY <1>13, <2>2, BecomeTyped DEF Republish, Sessions
    <2> QED
      BY <1>13, <2>2, <2>3 DEF Republish, Deliver
  <1>14. ASSUME NEW s \in Sessions, InsertClaim(s) PROVE TypeInv'
    <2> DEFINE x == [sess[s] EXCEPT !.pc = "score"]
    <2>1. sess[s] \in SessionType /\ Shape(sess[s]) /\ sess[s].pc = "insert"
      BY <1>14 DEF InsertClaim, SessionShape
    <2>2. x \in SessionType /\ Shape(x)
      BY <2>1 DEF SessionType, Shape, Working
    <2>3. sess' \in [Sessions -> SessionType] /\ SessionShape'
      BY <1>14, <2>2, IdleTyped, BecomeTyped DEF InsertClaim, Abandon
    <2> QED
      BY <1>14, <2>3 DEF InsertClaim
  <1>15. ASSUME NEW s \in Sessions, Score(s) PROVE TypeInv'
    <2>1. sess[s] \in SessionType /\ Shape(sess[s]) /\ sess[s].pc \in {"score", "rescore"}
      BY <1>15 DEF Score, SessionShape
    <2>2. ASSUME NEW d \in Decisions,
                 Become(s, [sess[s] EXCEPT !.decision = d, !.to = RoutedTo(d),
                              !.pc = IF d = "auto_approve" THEN "pay" ELSE AfterRouting(s)])
          PROVE  sess' \in [Sessions -> SessionType] /\ SessionShape'
      <3> DEFINE x == [sess[s] EXCEPT !.decision = d, !.to = RoutedTo(d),
                         !.pc = IF d = "auto_approve" THEN "pay" ELSE AfterRouting(s)]
      <3>1. RoutedTo(d) \in ClaimStatus /\ d # "none"
        BY DEF RoutedTo, Decisions, ClaimStatus
      <3>2. x \in SessionType
        BY <2>1, <3>1 DEF AfterRouting, SessionType
      <3>3. /\ x.worker = sess[s].worker /\ x.trig = sess[s].trig
            /\ x.decision = d /\ x.to \in ClaimStatus /\ x.pc # "next"
        BY <2>1, <3>1 DEF AfterRouting, SessionType
      <3>4. Shape(x)
        BY <2>1, <3>1, <3>3 DEF ClaimStatus, Shape, Working
      <3> QED
        BY <2>2, <3>2, <3>4, BecomeTyped
    <2>3. sess' \in [Sessions -> SessionType] /\ SessionShape'
      BY <1>15, <2>2, IdleTyped, BecomeTyped DEF Score, Abandon
    <2> QED
      BY <1>15, <2>3 DEF Score
  <1>16. ASSUME NEW s \in Sessions, CreatePayout(s) PROVE TypeInv'
    <2>1. sess[s] \in SessionType /\ Shape(sess[s]) /\ sess[s].pc = "pay"
      BY <1>16 DEF CreatePayout, SessionShape
    <2> DEFINE x == [sess[s] EXCEPT !.pc = AfterRouting(s)]
               y(a) == [sess[s] EXCEPT !.pay.amount = a, !.pc = "gateway"]
    <2>2. x \in SessionType /\ Shape(x)
      BY <2>1 DEF AfterRouting, SessionType, Shape, Working
    <2>3. ASSUME NEW a \in 0..BasePayout PROVE y(a) \in SessionType /\ Shape(y(a))
      BY <2>1 DEF Payouts, SessionType, Shape, Working
    <2>4. Become(s, x) \/ \E a \in 0..BasePayout : Become(s, y(a))
      BY <1>16 DEF CreatePayout
    <2>5. sess' \in [Sessions -> SessionType] /\ SessionShape'
      BY <2>2, <2>3, <2>4, BecomeTyped
    <2> QED
      BY <1>16, <2>5 DEF CreatePayout
  <1>17. ASSUME NEW s \in Sessions, CallGateway(s) PROVE TypeInv'
    <2>1. sess[s] \in SessionType /\ Shape(sess[s]) /\ sess[s].pc = "gateway"
      BY <1>17 DEF CallGateway, SessionShape
    <2> DEFINE y(o) == [sess[s] EXCEPT !.pay.status = o, !.to = "paid", !.pc = AfterRouting(s)]
    <2>2. ASSUME NEW o \in GatewayOutcomes PROVE y(o) \in SessionType /\ Shape(y(o))
      BY <2>1 DEF Payouts, AfterRouting, ClaimStatus, SessionType, Shape, Working
    <2>3. \E o \in GatewayOutcomes : Become(s, y(o))
      BY <1>17 DEF CallGateway
    <2>4. sess' \in [Sessions -> SessionType] /\ SessionShape'
      BY <2>2, <2>3, BecomeTyped
    <2>5. Key(s) \in Keys
      BY <2>1 DEF Shape, Working, Key, Keys
    <2> QED
      BY <1>17, <2>4, <2>5 DEF CallGateway
  <1>18. ASSUME NEW s \in Sessions, Commit(s) PROVE TypeInv'
    <2>1. sess[s] \in SessionType /\ Shape(sess[s]) /\ sess[s].pc = "commit"
      BY <1>18 DEF Commit, SessionShape
    <2> DEFINE y == [Idle EXCEPT !.pc = "next", !.trig = sess[s].trig, !.todo = sess[s].todo]
    <2>2. y \in SessionType /\ Shape(y)
      BY <2>1, IdleTyped DEF SessionType, Shape, Working
    <2>3. Become(s, IF s \in Requests THEN Idle ELSE y)
      BY <1>18 DEF Commit
    <2>4. sess' \in [Sessions -> SessionType] /\ SessionShape'
      BY <2>2, <2>3, IdleTyped, BecomeTyped
    <2>5. /\ sess[s].to \in ClaimStatus
          /\ sess[s].decision \in Decisions
          /\ sess[s].pay \in Payouts
      BY <2>1 DEF SessionType, Shape
    <2> QED
      BY <1>18, <2>4, <2>5 DEF Commit
  <1>19. ASSUME NEW k \in Keys, Appeal(k) PROVE TypeInv'
    BY <1>19, SameSessions DEF Appeal, ClaimStatus
  <1>20. ASSUME UNCHANGED vars PROVE TypeInv'
    BY <1>20, SameSessions DEF vars
  <1> QED
    BY <1>1, <1>2, <1>3, <1>4, <1>5, <1>6, <1>7, <1>8, <1>9, <1>10, <1>11, <1>12, <1>13, <1>14, <1>15, <1>16, <1>17, <1>18, <1>19, <1>20 DEF Next, Listener, Transaction

LEMMA TypeInvariant == Spec => []TypeInv
  BY InitTypeInv, NextTypeInv, PTL DEF Spec

(* Every variable keeps its type, in particular a session only ever writes *)
(* rows of a real (worker, trigger) pair with a decided status.            *)
THEOREM TypeCorrect == Spec => []TypeOK
  <1>1. TypeInv => TypeOK
    BY DEF TypeInv
  <1> QED
    BY <1>1, TypeInvariant, PTL

-----------------------------------------------------------------------------
(* Settlement. *)

(* What an open transaction has prepared so far. *)
Prepared(x) ==
  /\ x.pc \notin {"publish", "commit"} => x.pay.status = "none"
  /\ x.pc \in {"pay", "gateway"} => x.decision = "auto_approve"
  /\ x.pc \in {"publish", "commit"} =>
       /\ x.to \in {"in_review", "blocked", "paid"}
       /\ x.to = "paid" <=> x.pay.status # "none"
       /\ x.to = "paid" => x.decision = "auto_approve"

Rescoring == \A s \in Sessions : sess[s].pc = "rescore" => claims[Key(s)] # "none"

SettleInv ==
  /\ TypeInv
  /\ \A s \in Sessions : Prepared(sess[s])
  /\ Rescoring
  /\ AtomicSettlement
  /\ ExclusiveClaim
  /\ TransferAccounted

LEMMA InitSettleInv == Init => SettleInv
  <1> SUFFICES ASSUME Init PROVE SettleInv
    OBVIOUS
  <1> USE DEF Init
  <1>1. TypeInv
    BY InitTypeInv
  <1>2. \A s \in Sessions : sess[s].pc = "idle" /\ sess[s].pay.status = "none"
    BY DEF Idle, NoPayout
  <1>3. (\A s \in Sessions : Prepared(sess[s])) /\ Rescoring
    BY <1>2 DEF Prepared, Rescoring
  <1>4. AtomicSettlement
    BY DEF AtomicSettlement, NoPayout
  <1>5. ExclusiveClaim
    BY <1>2 DEF ExclusiveClaim, Holds
  <1>6. TransferAccounted
    BY DEF TransferAccounted
  <1> QED
    BY <1>1, <1>3, <1>4, <1>5, <1>6 DEF SettleInv

Holding == {"score", "pay", "gateway", "publish", "commit"}

KeyOf(x) == <<x.worker, x.trig>>

(* A session step that leaves the database alone and takes no claim that   *)
(* is settled or held.                                                     *)
LEMMA SessionStep ==
  ASSUME SettleInv, NEW s \in Sessions, NEW x \in SessionType, Become(s, x),
         UNCHANGED database, Prepared(x),
         x.pc = "rescore" => claims[KeyOf(x)] # "none",
         x.pc \in Holding =>
           /\ claims[KeyOf(x)] = "none"
           /\ \A o \in Sessions \ {s} : ~Holds(o, KeyOf(x))
  PROVE  /\ \A o \in Sessions : Prepared(sess'[o])
         /\ Rescoring'
         /\ AtomicSettlement'
         /\ ExclusiveClaim'
  <1>1. /\ sess'[s] = x
        /\ \A o \in Sessions \ {s} : sess'[o] = sess[o]
        /\ claims' = claims /\ assessments' = assessments /\ payouts' = payouts
    BY DEF Become, database, SettleInv, TypeInv, TypeOK
  <1>2. \A o \in Sessions : Prepared(sess'[o])
    BY <1>1 DEF SettleInv
  <1>3. Rescoring'
    BY <1>1 DEF SettleInv, Rescoring, Key, KeyOf
  <1>4. AtomicSettlement'
    BY <1>1 DEF SettleInv, AtomicSettlement
  <1>5. \A k \in Keys : Holds(s, k)' => x.pc \in Holding /\ k = KeyOf(x)
    BY <1>1 DEF Holds, Holding, Key, KeyOf
  <1>6. \A k \in Keys, o \in Sessions \ {s} : Holds(o, k)' <=> Holds(o, k)
    BY <1>1 DEF Holds, Key
  <1>7. ExclusiveClaim'
    BY <1>1, <1>5, <1>6 DEF SettleInv, ExclusiveClaim
  <1> QED
    BY <1>2, <1>3, <1>4, <1>7

(* No transfer happens and none leaves the record without a fault.         *)
LEMMA NoTransfer ==
  ASSUME SettleInv, UNCHANGED transfers, faults' \in Nat, faults <= faults',
         \A k \in Keys : OnRecord(k) => OnRecord(k)' \/ faults' = faults + 1
  PROVE  TransferAccounted'
  BY DEF SettleInv, TypeInv, TypeOK, TransferAccounted

(* A step of a session that has nothing pending with the gateway, or keeps *)
(* what it has, leaves the record as it is.                                *)
LEMMA SameRecord ==
  ASSUME SettleInv, NEW s \in Sessions, NEW x \in SessionType, Become(s, x),
         UNCHANGED payouts,
         \/ sess[s].pay.status = "none"
         \/ sess[s].pc \in Holding /\ x.pc \in Holding
            /\ KeyOf(x) = Key(s) /\ x.pay = sess[s].pay
  PROVE  \A k \in Keys : OnRecord(k) => OnRecord(k)'
  <1> TAKE k \in Keys
  <1> HAVE OnRecord(k)
  <1>1. /\ sess'[s] = x
        /\ \A o \in Sessions \ {s} : sess'[o] = sess[o]
    BY DEF Become, SettleInv, TypeInv, TypeOK
  <1>2. CASE payouts[k].status # "none"
    BY <1>2 DEF OnRecord
  <1>3. ASSUME NEW o \in Sessions, Unsettled(o, k) PROVE Unsettled(o, k)'
    <2>1. CASE o = s
      BY <1>1, <1>3, <2>1 DEF Unsettled, Holds, Holding, Key, KeyOf
    <2>2. CASE o # s
      BY <1>1, <1>3, <2>2 DEF Unsettled, Holds, Key
    <2> QED
      BY <2>1, <2>2
  <1> QED
    BY <1>2, <1>3 DEF OnRecord

(* A step that changes neither sessions nor database nor transfers.        *)
LEMMA AnnounceStep ==
  ASSUME SettleInv, TypeInv', UNCHANGED <<sess, database, transfers>>,
         faults' \in Nat, faults <= faults'
  PROVE  SettleInv'
  <1> USE DEF database
  <1>1. (\A s \in Sessions : Prepared(sess'[s])) /\ Rescoring'
    BY DEF SettleInv, Rescoring, Key
  <1>2. AtomicSettlement' /\ ExclusiveClaim'
    BY DEF SettleInv, AtomicSettlement, ExclusiveClaim, Holds, Key
  <1>3. \A k \in Keys : OnRecord(k)' <=> OnRecord(k)
    BY DEF OnRecord, Unsettled, Holds, Key
  <1>4. TransferAccounted'
    BY <1>3, NoTransfer
  <1> QED
    BY <1>1, <1>2, <1>4 DEF SettleInv

(* What each session step has to show.                                     *)
LEMMA QuietStep ==
  ASSUME SettleInv, TypeInv', NEW s \in Sessions, NEW x \in SessionType, Become(s, x),
         UNCHANGED <<database, transfers, faults>>, Prepared(x),
         x.pc = "rescore" => claims[KeyOf(x)] # "none",
         x.pc \in Holding =>
           /\ claims[KeyOf(x)] = "none"
           /\ \A o \in Sessions \ {s} : ~Holds(o, KeyOf(x)),
         \/ sess[s].pay.status = "none"
         \/ sess[s].pc \in Holding /\ x.pc \in Holding
            /\ KeyOf(x) = Key(s) /\ x.pay = sess[s].pay
  PROVE  SettleInv'
  <1>1. /\ \A o \in Sessions : Prepared(sess'[o])
        /\ Rescoring' /\ AtomicSettlement' /\ ExclusiveClaim'
    BY SessionStep DEF database
  <1>2. \A k \in Keys : OnRecord(k) => OnRecord(k)'
    BY SameRecord DEF database
  <1>3. faults \in Nat /\ faults' = faults
    BY DEF SettleInv, TypeInv, TypeOK
  <1>4. TransferAccounted'
    BY <1>2, <1>3, NoTransfer
  <1> QED
    BY <1>1, <1>4 DEF SettleInv

(* Rolling back: at most the fault is added to the account.                *)
LEMMA FaultStep ==
  ASSUME SettleInv, TypeInv', NEW s \in Sessions, Become(s, Idle),
         UNCHANGED <<database, transfers>>, faults' = faults + 1
  PROVE  SettleInv'
  <1>1. /\ \A o \in Sessions : Prepared(sess'[o])
        /\ Rescoring' /\ AtomicSettlement' /\ ExclusiveClaim'
    BY SessionStep, IdleTyped DEF Prepared, Idle, NoPayout, Holding
  <1>2. faults \in Nat
    BY PipelineAssumption DEF SettleInv, TypeInv, TypeOK
  <1>3. TransferAccounted'
    BY <1>2, NoTransfer
  <1> QED
    BY <1>1, <1>3 DEF SettleInv

(* The facts about the acting session that every step below starts from.   *)
LEMMA Acting ==
  ASSUME SettleInv, NEW s \in Sessions
  PROVE  /\ sess[s] \in SessionType /\ Shape(sess[s]) /\ Prepared(sess[s])
         /\ sess[s].pc = "rescore" => claims[Key(s)] # "none"
         /\ sess[s].pc \in Holding =>
              /\ Key(s) \in Keys
              /\ claims[Key(s)] = "none"
              /\ assessments[Key(s)] = "none"
              /\ payouts[Key(s)].status = "none"
              /\ \A o \in Sessions \ {s} : ~Holds(o, Key(s))
  <1>1. sess[s] \in SessionType /\ Shape(sess[s]) /\ Prepared(sess[s])
    BY DEF SettleInv, TypeInv, TypeOK, SessionShape
  <1>2. sess[s].pc = "rescore" => claims[Key(s)] # "none"
    BY DEF SettleInv, Rescoring
  <1>3. ASSUME sess[s].pc \in Holding
        PROVE  /\ Key(s) \in Keys
               /\ claims[Key(s)] = "none"
               /\ assessments[Key(s)] = "none"
               /\ payouts[Key(s)].status = "none"
               /\ \A o \in Sessions \ {s} : ~Holds(o, Key(s))
    <2>1. Key(s) \in Keys /\ Holds(s, Key(s))
      BY <1>1, <1>3 DEF Shape, Working, Holding, Holds, Key, Keys
    <2>2. claims[Key(s)] = "none" /\ \A o \in Sessions \ {s} : ~Holds(o, Key(s))
      BY <2>1 DEF SettleInv, ExclusiveClaim
    <2> QED
      BY <2>1, <2>2 DEF SettleInv, AtomicSettlement
  <1> QED
    BY <1>1, <1>2, <1>3

LEMMA NextSettleInv == SettleInv /\ [Next]_vars => SettleInv'
  <1> SUFFICES ASSUME SettleInv, [Next]_vars PROVE SettleInv'
    OBVIOUS
  <1>0. TypeInv'
    BY NextTypeInv DEF SettleInv
  <1>f. faults \in Nat /\ faults + 1 \in Nat /\ faults <= faults + 1 /\ faults <= faults
    BY PipelineAssumption DEF SettleInv, TypeInv, TypeOK
  <1>1. ASSUME NEW t \in Triggers, PollWrite(t) PROVE SettleInv'
    BY <1>1, <1>0, <1>f, AnnounceStep DEF PollWrite, database
  <1>2. ASSUME NEW t \in Triggers, PollPublish(t) PROVE SettleInv'
    BY <1>2, <1>0, <1>f, AnnounceStep DEF PollPublish, database
  <1>3. ASSUME NEW t \in Triggers, PollCrash(t) PROVE SettleInv'
    BY <1>3, <1>0, <1>f, AnnounceStep DEF PollCrash, database
  <1>4. ASSUME NEW t \in Triggers, SimulatePublish(t) PROVE SettleInv'
    BY <1>4, <1>0, <1>f, AnnounceStep DEF SimulatePublish, database
  <1>5. ASSUME NEW t \in Triggers, SimulateCommit(t) PROVE SettleInv'
    BY <1>5, <1>0, <1>f, AnnounceStep DEF SimulateCommit, database
  <1>6. ASSUME NEW t \in Triggers, SimulateAbort(t) PROVE SettleInv'
    BY <1>6, <1>0, <1>f, AnnounceStep DEF SimulateAbort, database
  <1>7. ASSUME NEW r \in Replicas, Receive(r) PROVE SettleInv'
    <2>s. r \in Sessions
      BY DEF Sessions
    <2> DEFINE x == [Idle EXCEPT !.pc = "next", !.trig = Head(inbox[r]),
                                 !.todo = Eligible[Head(inbox[r])]]
    <2>1. CASE UNCHANGED sess
      BY <1>7, <2>1, <1>0, <1>f, AnnounceStep DEF Receive, database
    <2>2. CASE Become(r, x)
      <3>1. sess[r].pc = "idle" /\ sess[r].pay.status = "none"
        BY <1>7, <2>s, Acting DEF Receive, Prepared
      <3>2. Head(inbox[r]) \in Triggers
        BY <1>7 DEF Receive, SettleInv, TypeInv, TypeOK
      <3>3. x \in SessionType
        BY <3>2, IdleTyped, PipelineAssumption DEF SessionType
      <3>4. x.pc = "next" /\ x.pay.status = "none"
        BY DEF Idle, NoPayout
      <3> QED
        BY <1>7, <1>0, <2>s, <2>2, <3>1, <3>3, <3>4, QuietStep
        DEF Receive, database, Prepared, Holding
    <2> QED
      BY <1>7, <2>1, <2>2 DEF Receive
  <1>8. ASSUME NEW r \in Replicas, NextWorker(r) PROVE SettleInv'
    <2>s. r \in Sessions
      BY DEF Sessions
    <2>0. sess[r] \in SessionType /\ sess[r].pc = "next" /\ sess[r].pay.status = "none"
      BY <1>8, <2>s, Acting DEF NextWorker, Prepared
    <2> DEFINE x(w) == [sess[r] EXCEPT !.worker = w, !.todo = @ \ {w},
                                       !.pc = IF claims[<<w, sess[r].trig>>] = "none"
                                                THEN "insert" ELSE "rescore"]
    <2>1. PICK w \in sess[r].todo : Become(r, x(w))
      BY <1>8 DEF NextWorker
    <2>2. x(w) \in SessionType
      BY <2>0 DEF SessionType
    <2>3. /\ x(w).pay.status = "none"
          /\ x(w).pc \in {"insert", "rescore"}
          /\ KeyOf(x(w)) = <<w, sess[r].trig>>
          /\ x(w).pc = "rescore" => claims[<<w, sess[r].trig>>] # "none"
      BY <2>0 DEF SessionType, KeyOf
    <2> QED
      BY <1>8, <1>0, <2>s, <2>0, <2>1, <2>2, <2>3, QuietStep
      DEF NextWorker, database, Prepared, Holding
  <1>9. ASSUME NEW r \in Replicas, FinishDelivery(r) PROVE SettleInv'
    <2>s. r \in Sessions
      BY DEF Sessions
    <2>1. sess[r].pay.status = "none"
      BY <1>9, <2>s, Acting DEF FinishDelivery, Prepared
    <2> QED
      BY <1>9, <1>0, <2>s, <2>1, IdleTyped, QuietStep
      DEF FinishDelivery, database, Prepared, Holding, Idle, NoPayout
  <1>10. ASSUME NEW r \in Replicas, Crash(r) PROVE SettleInv'
    BY <1>10, <1>0, FaultStep DEF Crash, Abandon, Sessions, database
  <1>11. ASSUME NEW s \in Sessions, Fail(s) PROVE SettleInv'
    BY <1>11, <1>0, FaultStep DEF Fail, Abandon, database
  <1>12. ASSUME NEW q \in Requests, NEW w \in Workers, NEW t \in Triggers, Apply(q, w, t)
         PROVE SettleInv'
    <2>s. q \in Sessions
      BY DEF Sessions
    <2> DEFINE x == [Idle EXCEPT !.pc = "insert", !.trig = t, !.worker = w]
    <2>1. sess[q].pay.status = "none"
      BY <1>12, <2>s, Acting DEF Apply, Prepared
    <2>2. x \in SessionType
      BY IdleTyped DEF SessionType
    <2>3. x.pc = "insert" /\ x.pay.status = "none"
      BY DEF Idle, NoPayout
    <2> QED
      BY <1>12, <1>0, <2>s, <2>1, <2>2, <2>3, QuietStep
      DEF Apply, database, Prepared, Holding
  <1>13. ASSUME NEW q \in Requests, Republish(q) PROVE SettleInv'
    <2>s. q \in Sessions
      BY DEF Sessions
    <2> DEFINE x == [sess[q] EXCEPT !.pc = "commit"]
    <2>0. sess[q] \in SessionType /\ sess[q].pc = "publish" /\ Prepared(sess[q])
      BY <1>13, <2>s, Acting DEF Republish
    <2>1. claims[Key(q)] = "none" /\ \A o \in Sessions \ {q} : ~Holds(o, Key(q))
      BY <2>0, <2>s, Acting DEF Holding
    <2>2. x \in SessionType /\ Prepared(x)
      BY <2>0 DEF SessionType, Prepared
    <2>3. x.pc = "commit" /\ KeyOf(x) = Key(q) /\ x.pay = sess[q].pay
      BY <2>0 DEF SessionType, KeyOf, Key
    <2>4. Become(q, x) /\ UNCHANGED <<database, transfers, faults>>
      BY <1>13 DEF Republish
    <2>5. sess[q].pc \in Holding /\ x.pc \in Holding /\ x.pc # "rescore"
      BY <2>0, <2>3 DEF Holding
    <2> HIDE DEF x
    <2> QED
      BY <1>0, <2>s, <2>1, <2>2, <2>3, <2>4, <2>5, QuietStep
  <1>14. ASSUME NEW s \in Sessions, InsertClaim(s) PROVE SettleInv'
    <2> DEFINE x == [sess[s] EXCEPT !.pc = "score"]
    <2>0. /\ sess[s] \in SessionType /\ sess[s].pc = "insert" /\ Prepared(sess[s])
          /\ sess[s].pay.status = "none"
      BY <1>14, Acting DEF InsertClaim, Prepared
    <2>1. CASE claims[Key(s)] = "none"
      <3>1. Become(s, x) /\ UNCHANGED <<database, transfers, faults>>
        BY <1>14, <2>1 DEF InsertClaim
      <3>2. x \in SessionType /\ Prepared(x) /\ x.pc = "score" /\ KeyOf(x) = Key(s)
        BY <2>0 DEF SessionType, Prepared, KeyOf, Key
      <3>3. \A o \in Sessions \ {s} : ~Holds(o, Key(s))
        BY <1>14 DEF InsertClaim
      <3> HIDE DEF x
      <3> QED
        BY <1>0, <2>0, <2>1, <3>1, <3>2, <3>3, QuietStep
    <2>2. CASE claims[Key(s)] # "none"
      BY <1>14, <1>0, <2>0, <2>2, IdleTyped, QuietStep
      DEF InsertClaim, Abandon, database, Prepared, Holding, Idle, NoPayout
    <2> QED
      BY <2>1, <2>2
  <1>15. ASSUME NEW s \in Sessions, Score(s) PROVE SettleInv'
    <2>0. /\ sess[s] \in SessionType /\ sess[s].pc \in {"score", "rescore"}
          /\ sess[s].pay.status = "none" /\ Shape(sess[s])
      BY <1>15, Acting DEF Score, Prepared
    <2>1. CASE assessments[Key(s)] # "none"
      BY <1>15, <1>0, <2>0, <2>1, IdleTyped, QuietStep
      DEF Score, Abandon, database, Prepared, Holding, Idle, NoPayout
    <2>2. CASE assessments[Key(s)] = "none"
      <3> DEFINE x(d) == [sess[s] EXCEPT !.decision = d, !.to = RoutedTo(d),
                            !.pc = IF d = "auto_approve" THEN "pay" ELSE AfterRouting(s)]
      <3>1. PICK d \in Decisions : Become(s, x(d))
        BY <1>15, <2>2 DEF Score
      <3>2. Key(s) \in Keys
        BY <2>0 DEF Shape, Working, Key, Keys
      <3>3. sess[s].pc = "score"
        BY <2>0, <2>2, <3>2, Acting DEF SettleInv, AtomicSettlement
      <3>4. claims[Key(s)] = "none" /\ \A o \in Sessions \ {s} : ~Holds(o, Key(s))
        BY <3>3, Acting DEF Holding
      <3>5. RoutedTo(d) \in ClaimStatus /\ (d # "auto_approve" => RoutedTo(d) \in {"in_review", "blocked"})
        BY DEF RoutedTo, Decisions, ClaimStatus
      <3>6. x(d) \in SessionType
        BY <2>0, <3>5 DEF SessionType, AfterRouting
      <3>7. x(d).pay.status = "none" /\ KeyOf(x(d)) = Key(s)
        BY <2>0 DEF SessionType, KeyOf, Key
      <3>8. x(d).pc \in {"pay", "publish", "commit"}
        BY <2>0 DEF SessionType, AfterRouting
      <3>9. Prepared(x(d))
        BY <2>0, <3>5, <3>7 DEF SessionType, Prepared, AfterRouting
      <3>10. UNCHANGED <<database, transfers, faults>>
        BY <1>15 DEF Score
      <3> HIDE DEF x
      <3> QED
        BY <1>0, <2>0, <3>1, <3>4, <3>6, <3>7, <3>8, <3>9, <3>10, QuietStep
    <2> QED
      BY <2>1, <2>2
  <1>16. ASSUME NEW s \in Sessions, CreatePayout(s) PROVE SettleInv'
    <2>0. /\ sess[s] \in SessionType /\ sess[s].pc = "pay" /\ Prepared(sess[s])
          /\ sess[s].pay.status = "none"
          /\ claims[Key(s)] = "none" /\ payouts[Key(s)].status = "none"
          /\ \A o \in Sessions \ {s} : ~Holds(o, Key(s))
      BY <1>16, Acting DEF CreatePayout, Prepared, Holding
    <2> DEFINE x(a) == [sess[s] EXCEPT !.pay.amount = a, !.pc = "gateway"]
    <2>1. PICK a \in 0..BasePayout : Become(s, x(a))
      BY <1>16, <2>0 DEF CreatePayout
    <2>2. x(a) \in SessionType
      BY <2>0 DEF SessionType, Payouts
    <2>3. x(a).pc = "gateway" /\ KeyOf(x(a)) = Key(s) /\ Prepared(x(a))
      BY <2>0 DEF SessionType, Payouts, KeyOf, Key, Prepared
    <2>4. UNCHANGED <<database, transfers, faults>>
      BY <1>16 DEF CreatePayout
    <2> HIDE DEF x
    <2> QED
      BY <1>0, <2>0, <2>1, <2>2, <2>3, <2>4, QuietStep
  <1>17. ASSUME NEW s \in Sessions, CallGateway(s) PROVE SettleInv'
    <2>0. /\ sess[s] \in SessionType /\ sess[s].pc = "gateway" /\ Prepared(sess[s])
          /\ sess[s].pay.status = "none" /\ sess[s].decision = "auto_approve"
          /\ claims[Key(s)] = "none" /\ payouts[Key(s)].status = "none"
          /\ Key(s) \in Keys
          /\ \A o \in Sessions \ {s} : ~Holds(o, Key(s))
      BY <1>17, Acting DEF CallGateway, Prepared, Holding
    <2> DEFINE x(o) == [sess[s] EXCEPT !.pay.status = o, !.to = "paid", !.pc = AfterRouting(s)]
    <2>1. PICK o \in GatewayOutcomes :
            /\ Become(s, x(o))
            /\ transfers' = IF o = "failed" THEN transfers
                            ELSE [transfers EXCEPT ![Key(s)] = @ + 1]
      BY <1>17 DEF CallGateway
    <2>2. x(o) \in SessionType
      BY <2>0 DEF SessionType, Payouts, AfterRouting, ClaimStatus
    <2>3. /\ x(o).pc \in {"publish", "commit"} /\ KeyOf(x(o)) = Key(s)
          /\ x(o).pay.status = o /\ x(o).to = "paid" /\ x(o).decision = "auto_approve"
      BY <2>0 DEF SessionType, Payouts, KeyOf, Key, AfterRouting
    <2>4. o \in {"confirmed", "processing", "failed"}
      BY PipelineAssumption
    <2>5. Prepared(x(o))
      BY <2>3, <2>4 DEF Prepared
    <2>6. UNCHANGED database /\ faults' = faults
      BY <1>17 DEF CallGateway
    <2> HIDE DEF x
    <2>7. /\ \A p \in Sessions : Prepared(sess'[p])
          /\ Rescoring' /\ AtomicSettlement' /\ ExclusiveClaim'
      BY <2>0, <2>1, <2>2, <2>3, <2>5, <2>6, SessionStep
    <2>8. \A k \in Keys : OnRecord(k) => OnRecord(k)'
      BY <2>0, <2>1, <2>2, <2>6, SameRecord DEF database
    <2>9. TransferAccounted'
      <3>1. CASE o = "failed"
        BY <1>f, <2>1, <2>6, <2>8, <3>1, NoTransfer
      <3>2. CASE o # "failed"
        <4>0. PICK mine \in Keys : mine = Key(s)
          BY <2>0
        <4>1. ~OnRecord(mine)
          BY <2>0, <2>4, <4>0 DEF OnRecord, Unsettled
        <4>2. sess'[s] = x(o)
          BY <2>1 DEF Become, SettleInv, TypeInv, TypeOK
        <4>3. Unsettled(s, mine)'
          BY <2>3, <2>4, <3>2, <4>0, <4>2 DEF Unsettled, Holds, Key, KeyOf
        <4>4. OnRecord(mine)'
          BY <4>3 DEF OnRecord
        <4>5. transfers[mine] <= faults /\ transfers \in [Keys -> Nat]
          BY <4>1 DEF SettleInv, TransferAccounted, TypeInv, TypeOK
        <4>6. transfers'[mine] <= faults' + 1
          BY <1>f, <2>1, <2>6, <3>2, <4>0, <4>5
        <4>7. ASSUME NEW k \in Keys, k # mine
              PROVE  transfers'[k] <= IF OnRecord(k)' THEN faults' + 1 ELSE faults'
          <5>1. transfers'[k] = transfers[k] /\ transfers[k] \in Nat
            BY <2>1, <3>2, <4>0, <4>5, <4>7
          <5>2. transfers[k] <= IF OnRecord(k) THEN faults + 1 ELSE faults
            BY <4>7 DEF SettleInv, TransferAccounted
          <5> QED
            BY <1>f, <2>6, <2>8, <5>1, <5>2
        <4> QED
          BY <4>4, <4>6, <4>7 DEF TransferAccounted
      <3> QED
        BY <3>1, <3>2
    <2> QED
      BY <1>0, <2>7, <2>9 DEF SettleInv
  <1>18. ASSUME NEW s \in Sessions, Commit(s) PROVE SettleInv'
    <2>0. /\ sess[s] \in SessionType /\ sess[s].pc = "commit" /\ Prepared(sess[s])
          /\ Shape(sess[s]) /\ Key(s) \in Keys
          /\ \A o \in Sessions \ {s} : ~Holds(o, Key(s))
      BY <1>18, Acting DEF Commit, Holding
    <2> DEFINE y == IF s \in Requests THEN Idle
                    ELSE [Idle EXCEPT !.pc = "next", !.trig = sess[s].trig, !.todo = sess[s].todo]
    <2>1. y.pc \in {"idle", "next"} /\ y.pay.status = "none"
      BY DEF Idle, NoPayout
    <2>2. /\ sess'[s] = y
          /\ \A o \in Sessions \ {s} : sess'[o] = sess[o]
      BY <1>18 DEF Commit, Become, SettleInv, TypeInv, TypeOK
    <2> HIDE DEF y
    <2>3. PICK mine \in Keys : mine = Key(s)
      BY <2>0
    <2>4. /\ claims'[mine] = sess[s].to
          /\ assessments'[mine] = sess[s].decision
          /\ payouts'[mine].status = IF sess[s].pay.status = "none"
                                       THEN payouts[mine].status ELSE sess[s].pay.status
          /\ \A k \in Keys \ {mine} : /\ claims'[k] = claims[k]
                                      /\ assessments'[k] = assessments[k]
                                      /\ payouts'[k] = payouts[k]
      BY <1>18, <2>3 DEF Commit, SettleInv, TypeInv, TypeOK
    <2>5. \A o \in Sessions : Prepared(sess'[o])
      BY <2>1, <2>2 DEF SettleInv, Prepared
    <2>6. sess[s].to # "none" /\ sess[s].decision # "none"
      BY <2>0 DEF Prepared, Shape
    <2>7. Rescoring'
      <3> SUFFICES ASSUME NEW o \in Sessions, sess'[o].pc = "rescore"
                   PROVE  claims'[<<sess'[o].worker, sess'[o].trig>>] # "none"
        BY DEF Rescoring, Key
      <3>1. o # s /\ sess'[o] = sess[o]
        BY <2>1, <2>2
      <3>2. <<sess[o].worker, sess[o].trig>> \in Keys
        BY <3>1, Acting DEF Shape, Working, Keys
      <3>3. claims[<<sess[o].worker, sess[o].trig>>] # "none"
        BY <3>1 DEF SettleInv, Rescoring, Key
      <3> QED
        BY <2>4, <2>6, <3>1, <3>2, <3>3
    <2>8. AtomicSettlement'
      <3>1. payouts[mine].status = "none"
        BY <2>0, <2>3, Acting DEF Holding
      <3>2. /\ claims'[mine] # "none" /\ assessments'[mine] # "none"
            /\ claims'[mine] = "paid" <=> payouts'[mine].status # "none"
            /\ payouts'[mine].status # "none" => assessments'[mine] = "auto_approve"
        BY <2>0, <2>4, <2>6, <3>1 DEF Prepared
      <3> QED
        BY <2>4, <3>2 DEF SettleInv, AtomicSettlement
    <2>9. /\ \A k \in Keys, o \in Sessions \ {s} : Holds(o, k)' <=> Holds(o, k)
          /\ \A k \in Keys : ~Holds(s, k)'
      BY <2>1, <2>2 DEF Holds, Key
    <2>10. \A o \in Sessions : ~Holds(o, mine)'
      BY <2>0, <2>3, <2>9
    <2>11. ExclusiveClaim'
      BY <2>4, <2>9, <2>10 DEF SettleInv, ExclusiveClaim
    <2>12. \A k \in Keys : OnRecord(k) => OnRecord(k)'
      <3> SUFFICES ASSUME NEW k \in Keys, OnRecord(k) PROVE OnRecord(k)'
        OBVIOUS
      <3>1. ASSUME payouts[k].status # "none" PROVE payouts'[k].status # "none"
        BY <2>4, <3>1
      <3>2. ASSUME Unsettled(s, k) PROVE payouts'[k].status # "none"
        BY <2>3, <2>4, <3>2 DEF Unsettled, Holds
      <3>3. ASSUME NEW o \in Sessions \ {s}, Unsettled(o, k) PROVE Unsettled(o, k)'
        BY <2>2, <3>3 DEF Unsettled, Holds, Key
      <3> QED
        BY <3>1, <3>2, <3>3 DEF OnRecord
    <2>13. UNCHANGED transfers /\ faults' = faults
      BY <1>18 DEF Commit
    <2>14. TransferAccounted'
      BY <1>f, <2>12, <2>13, NoTransfer
    <2> QED
      BY <1>0, <2>5, <2>7, <2>8, <2>11, <2>14 DEF SettleInv
  <1>19. ASSUME NEW k \in Keys, Appeal(k) PROVE SettleInv'
    <2>1. /\ claims[k] \notin {"none", "paid"}
          /\ claims'[k] \notin {"none", "paid"}
          /\ \A j \in Keys \ {k} : claims'[j] = claims[j]
          /\ UNCHANGED <<assessments, payouts, sess, transfers, faults>>
      BY <1>19 DEF Appeal, SettleInv, TypeInv, TypeOK
    <2>2. \A s \in Sessions : Prepared(sess'[s])
      BY <2>1 DEF SettleInv
    <2>3. Rescoring'
      <3> SUFFICES ASSUME NEW s \in Sessions, sess[s].pc = "rescore"
                   PROVE  claims'[<<sess[s].worker, sess[s].trig>>] # "none"
        BY <2>1 DEF Rescoring, Key
      <3>1. <<sess[s].worker, sess[s].trig>> \in Keys
        BY Acting DEF Shape, Working, Keys
      <3>2. claims[<<sess[s].worker, sess[s].trig>>] # "none"
        BY DEF SettleInv, Rescoring, Key
      <3> QED
        BY <2>1, <3>1, <3>2
    <2>4. AtomicSettlement'
      BY <2>1 DEF SettleInv, AtomicSettlement
    <2>5. \A j \in Keys, s \in Sessions : Holds(s, j)' <=> Holds(s, j)
      BY <2>1 DEF Holds, Key
    <2>6. ExclusiveClaim'
      BY <2>1, <2>5 DEF SettleInv, ExclusiveClaim
    <2>7. \A j \in Keys : OnRecord(j)' <=> OnRecord(j)
      BY <2>1, <2>5 DEF OnRecord, Unsettled
    <2>8. TransferAccounted'
      BY <1>f, <2>1, <2>7, NoTransfer
    <2> QED
      BY <1>0, <2>2, <2>3, <2>4, <2>6, <2>8 DEF SettleInv
  <1>20. ASSUME UNCHANGED vars PROVE SettleInv'
    BY <1>20, <1>0, <1>f, AnnounceStep DEF vars, database
  <1> QED
    BY <1>1, <1>2, <1>3, <1>4, <1>5, <1>6, <1>7, <1>8, <1>9, <1>10, <1>11, <1>12, <1>13,
       <1>14, <1>15, <1>16, <1>17, <1>18, <1>19, <1>20 DEF Next, Listener, Transaction

LEMMA SettleInvariant == Spec => []SettleInv
  BY InitSettleInv, NextSettleInv, PTL DEF Spec

(* The claim, its assessment and its payout appear together, for any       *)
(* number of replicas and applying workers that race for the pair.         *)
THEOREM SettlementAtomic == Spec => []AtomicSettlement
  <1>1. SettleInv => AtomicSettlement
    BY DEF SettleInv
  <1> QED
    BY <1>1, SettleInvariant, PTL

(* No two open transactions hold one claim, and none holds a settled one.  *)
THEOREM ClaimExclusive == Spec => []ExclusiveClaim
  <1>1. SettleInv => ExclusiveClaim
    BY DEF SettleInv
  <1> QED
    BY <1>1, SettleInvariant, PTL

(* Every transfer beyond the first for a pair is paid for by a fault.      *)
THEOREM TransfersAccounted == Spec => []TransferAccounted
  <1>1. SettleInv => TransferAccounted
    BY DEF SettleInv
  <1> QED
    BY <1>1, SettleInvariant, PTL

(* A step of the pipeline is a step of the ledger or leaves it alone.      *)
LEMMA LedgerStep == SettleInv /\ [Next]_vars => [Ledger!Next]_(Ledger!ledger)
  <1> SUFFICES ASSUME SettleInv, [Next]_vars
               PROVE  [Ledger!Next]_(Ledger!ledger)
    OBVIOUS
  <1> DEFINE paid == [k \in Keys |-> payouts[k].status]
  <1>1. ASSUME UNCHANGED <<claims, payouts>> PROVE [Ledger!Next]_(Ledger!ledger)
    BY <1>1 DEF Ledger!ledger
  <1>2. ASSUME NEW s \in Sessions, Commit(s) PROVE [Ledger!Next]_(Ledger!ledger)
    <2>0. /\ Prepared(sess[s]) /\ sess[s] \in SessionType /\ sess[s].pc = "commit"
          /\ Key(s) \in Keys
          /\ claims[Key(s)] = "none" /\ payouts[Key(s)].status = "none"
      BY <1>2, Acting DEF Commit, Holding
    <2>1. PICK mine \in Keys : mine = Key(s)
      BY <2>0
    <2>2. claims' = [claims EXCEPT ![mine] = sess[s].to]
      BY <1>2, <2>1 DEF Commit
    <2>3. CASE sess[s].pay.status = "none"
      <3>1. sess[s].to \in {"in_review", "blocked"} /\ payouts' = payouts
        BY <1>2, <2>0, <2>3 DEF Commit, Prepared
      <3>2. Ledger!Withhold(mine)
        BY <2>0, <2>1, <2>2, <3>1 DEF Ledger!Withhold
      <3> QED
        BY <3>2 DEF Ledger!Next
    <2>4. CASE sess[s].pay.status # "none"
      <3>1. sess[s].to = "paid" /\ sess[s].pay.status \in GatewayOutcomes
        BY <2>0, <2>4 DEF Prepared, SessionType, Payouts
      <3>2. payouts' = [payouts EXCEPT ![mine] = sess[s].pay] /\ payouts \in [Keys -> Payouts]
        BY <1>2, <2>1, <2>4 DEF Commit, SettleInv, TypeInv, TypeOK
      <3>3. paid' = [paid EXCEPT ![mine] = sess[s].pay.status]
        BY <3>2
      <3>4. Ledger!Pay(mine)
        BY <2>0, <2>1, <2>2, <3>1, <3>3 DEF Ledger!Pay
      <3> QED
        BY <3>4 DEF Ledger!Next
    <2> QED
      BY <2>3, <2>4
  <1>3. ASSUME NEW k \in Keys, Appeal(k) PROVE [Ledger!Next]_(Ledger!ledger)
    <2>1. Ledger!Appeal(k)
      BY <1>3 DEF Appeal, Ledger!Appeal
    <2> QED
      BY <2>1 DEF Ledger!Next
  <1>4. ASSUME NEW t \in Triggers,
               PollWrite(t) \/ PollPublish(t) \/ PollCrash(t)
                 \/ SimulatePublish(t) \/ SimulateCommit(t) \/ SimulateAbort(t)
        PROVE  UNCHANGED <<claims, payouts>>
    BY <1>4 DEF PollWrite, PollPublish, PollCrash, SimulatePublish, SimulateCommit,
                SimulateAbort, database
  <1>5. ASSUME NEW r \in Replicas, Listener(r) \/ Crash(r) PROVE UNCHANGED <<claims, payouts>>
    BY <1>5 DEF Listener, Receive, NextWorker, FinishDelivery, Crash, database
  <1>6. ASSUME NEW q \in Requests,
               Republish(q) \/ \E w \in Workers, t \in Triggers : Apply(q, w, t)
        PROVE  UNCHANGED <<claims, payouts>>
    BY <1>6 DEF Republish, Apply, database
  <1>7. ASSUME NEW s \in Sessions,
               InsertClaim(s) \/ Score(s) \/ CreatePayout(s) \/ CallGateway(s) \/ Fail(s)
        PROVE  UNCHANGED <<claims, payouts>>
    BY <1>7 DEF InsertClaim, Score, CreatePayout, CallGateway, Fail, database
  <1>8. CASE UNCHANGED vars
    BY <1>1, <1>8 DEF vars
  <1> QED
    BY <1>1, <1>2, <1>3, <1>4, <1>5, <1>6, <1>7, <1>8 DEF Next, Transaction

(* For any configuration the pipeline implements ClaimLedger: a pair is    *)
(* settled in one step and at most once, and "paid" is final.              *)
THEOREM PipelineImplementsLedger == Spec => LedgerSpec
  <1>1. Init => Ledger!Init
    BY DEF Init, Ledger!Init, NoPayout
  <1> QED
    BY <1>1, LedgerStep, SettleInvariant, PTL DEF Spec, LedgerSpec, Ledger!Spec
-----------------------------------------------------------------------------
(* Sums over finite sets.                                                  *)

Pick(s) == CHOOSE x \in s : TRUE

(* it is the function MapThenFoldSet defines to add up p[x].amount. *)
Adds(it, S, p) ==
  it = [s \in SUBSET S |-> IF s = {} THEN 0 ELSE p[Pick(s)].amount + it[s \ {Pick(s)}]]

Adder(S, p) == CHOOSE it : Adds(it, S, p)

Total(S, p) == MapThenSumSet(LAMBDA k : p[k].amount, S)

LEMMA TotalAdds == \A S, p : Total(S, p) = Adder(S, p)[S]
  BY Zenon DEF Total, MapThenSumSet, MapThenFoldSet, Adder, Adds, Pick

(* A family of subsets of a finite set has one that contains no other. *)
LEMMA SmallestSet ==
  ASSUME NEW S, IsFiniteSet(S), NEW T \in SUBSET (SUBSET S), T # {}
  PROVE  \E m \in T : \A u \in T : u \subseteq m => u = m
<1>1. IsWellFoundedOn(StrictSubsetOrdering(S), SUBSET S)
  BY FS_StrictSubsetOrderingWellFounded, FS_FiniteSubsetsOfFinite
<1>2. PICK m \in T : \A u \in T : ~(<<u, m>> \in StrictSubsetOrdering(S))
  BY <1>1, WFMin
<1> QED
  BY <1>2 DEF StrictSubsetOrdering

LEMMA SmallestIn ==
  ASSUME NEW S, IsFiniteSet(S)
  PROVE  \A T \in SUBSET (SUBSET S) : T # {} => \E m \in T : \A u \in T : u \subseteq m => u = m
  BY SmallestSet

LEMMA PickIn == \A s : s # {} => Pick(s) \in s
  BY DEF Pick

LEMMA AddsOne ==
  ASSUME NEW S, NEW p, NEW i, NEW j, IsFiniteSet(S), Adds(i, S, p), Adds(j, S, p)
  PROVE  i = j
<1> DEFINE T == {s \in SUBSET S : i[s] # j[s]}
<1>1. ASSUME T # {} PROVE FALSE
  <2> HIDE DEF T
  <2>0. T \in SUBSET (SUBSET S)
    BY DEF T
  <2>1. PICK m \in T : \A u \in T : u \subseteq m => u = m
    BY <2>0, <1>1, SmallestIn
  <2> USE DEF T
  <2>2. CASE m = {}
    <3>1. {} \in SUBSET S
      OBVIOUS
    <3>2. i[{}] = 0 /\ j[{}] = 0
      BY <3>1 DEF Adds
    <3> QED
      BY <2>1, <2>2, <3>2
  <2>3. CASE m # {}
    <3>1. Pick(m) \in m
      BY <2>3, PickIn
    <3> DEFINE u == m \ {Pick(m)}
    <3>2. u \in SUBSET S /\ u \subseteq m /\ u # m
      BY <3>1
    <3>3. i[u] = j[u]
      BY <3>2, <2>1
    <3>4. i[m] = p[Pick(m)].amount + i[u] /\ j[m] = p[Pick(m)].amount + j[u]
      BY <2>3 DEF Adds
    <3> QED
      BY <3>3, <3>4
  <2> QED
    BY <2>2, <2>3
<1>2. \A s \in SUBSET S : i[s] = j[s]
  BY <1>1
<1>3. i = [s \in SUBSET S |-> i[s]] /\ j = [s \in SUBSET S |-> j[s]]
  BY DEF Adds
<1> QED
  BY <1>2, <1>3

LEMMA AddsPart ==
  ASSUME NEW S, NEW p, NEW i, Adds(i, S, p), NEW u \in SUBSET S
  PROVE  Adds([s \in SUBSET u |-> i[s]], u, p)
<1> DEFINE j == [s \in SUBSET u |-> i[s]]
<1>1. ASSUME NEW s \in SUBSET u
      PROVE  i[s] = IF s = {} THEN 0 ELSE p[Pick(s)].amount + j[s \ {Pick(s)}]
  <2>1. s \in SUBSET S /\ s \ {Pick(s)} \in SUBSET u
    OBVIOUS
  <2>2. i[s] = IF s = {} THEN 0 ELSE p[Pick(s)].amount + i[s \ {Pick(s)}]
    BY <2>1 DEF Adds
  <2> QED
    BY <2>1, <2>2
<1>2. j = [s \in SUBSET u |-> IF s = {} THEN 0 ELSE p[Pick(s)].amount + j[s \ {Pick(s)}]]
  BY <1>1
<1> QED
  BY <1>2 DEF Adds

(* What the adder of a set makes of its subsets is their total. *)
LEMMA AdderPart ==
  ASSUME NEW S, NEW p, NEW i, IsFiniteSet(S), Adds(i, S, p), NEW u \in SUBSET S
  PROVE  Total(u, p) = i[u]
<1> DEFINE j == [s \in SUBSET u |-> i[s]]
<1>1. Adds(j, u, p)
  BY AddsPart
<1>2. Adds(Adder(u, p), u, p)
  BY <1>1 DEF Adder
<1>3. IsFiniteSet(u)
  BY FS_Subset
<1>4. Adder(u, p) = j
  BY <1>1, <1>2, <1>3, AddsOne
<1> QED
  BY <1>4, TotalAdds

LEMMA AdderExists ==
  ASSUME NEW S, NEW p, IsFiniteSet(S)
  PROVE  \E i : Adds(i, S, p)
<1> DEFINE T == {s \in SUBSET S : ~\E i : Adds(i, s, p)}
<1>1. ASSUME T # {} PROVE FALSE
  <2> HIDE DEF T
  <2>0. T \in SUBSET (SUBSET S)
    BY DEF T
  <2>1. PICK m \in T : \A u \in T : u \subseteq m => u = m
    BY <2>0, <1>1, SmallestIn
  <2> USE DEF T
  <2> DEFINE i == [s \in SUBSET m |-> IF s = {} THEN 0 ELSE p[Pick(s)].amount + Total(s \ {Pick(s)}, p)]
  <2>2. ASSUME NEW v \in SUBSET m, v # m PROVE i[v] = Total(v, p)
    <3>1. PICK j : Adds(j, v, p)
      BY <2>1, <2>2
    <3>2. IsFiniteSet(v)
      <4>1. v \in SUBSET S
        BY <2>1
      <4> QED
        BY <4>1, FS_Subset
    <3>3. Total(v, p) = j[v] /\ Total(v \ {Pick(v)}, p) = j[v \ {Pick(v)}]
      BY <3>1, <3>2, AdderPart
    <3>4. j[v] = IF v = {} THEN 0 ELSE p[Pick(v)].amount + j[v \ {Pick(v)}]
      BY <3>1 DEF Adds
    <3> QED
      BY <3>3, <3>4
  <2>3. ASSUME NEW s \in SUBSET m, s # {} PROVE i[s \ {Pick(s)}] = Total(s \ {Pick(s)}, p)
    <3>1. Pick(s) \in s
      BY <2>3, PickIn
    <3> DEFINE v == s \ {Pick(s)}
    <3>2. v \in SUBSET m /\ v # m
      BY <3>1
    <3> HIDE DEF i
    <3> QED
      BY <2>2, <3>2
  <2>4. i = [s \in SUBSET m |-> IF s = {} THEN 0 ELSE p[Pick(s)].amount + i[s \ {Pick(s)}]]
    BY <2>3
  <2>5. Adds(i, m, p)
    BY <2>4 DEF Adds
  <2> QED
    BY <2>1, <2>5
<1> QED
  BY <1>1

LEMMA TotalPick ==
  ASSUME NEW S, NEW p, IsFiniteSet(S)
  PROVE  Total(S, p) = IF S = {} THEN 0 ELSE p[Pick(S)].amount + Total(S \ {Pick(S)}, p)
<1>1. PICK i : Adds(i, S, p)
  BY AdderExists
<1>2. Total(S, p) = i[S] /\ Total(S \ {Pick(S)}, p) = i[S \ {Pick(S)}]
  BY <1>1, AdderPart
<1> QED
  BY <1>1, <1>2 DEF Adds

LEMMA TotalEmpty == \A p : Total({}, p) = 0
  BY FS_EmptySet, TotalPick

LEMMA TotalNat ==
  ASSUME NEW S, NEW p, IsFiniteSet(S), \A x \in S : p[x].amount \in Nat
  PROVE  Total(S, p) \in Nat
<1> DEFINE T == {s \in SUBSET S : Total(s, p) \notin Nat}
<1>1. ASSUME T # {} PROVE FALSE
  <2> HIDE DEF T
  <2>0. T \in SUBSET (SUBSET S)
    BY DEF T
  <2>1. PICK m \in T : \A u \in T : u \subseteq m => u = m
    BY <2>0, <1>1, SmallestIn
  <2> USE DEF T
  <2>2. IsFiniteSet(m)
    BY FS_Subset
  <2>3. m # {}
    <3>1. Total(m, p) \notin Nat
      BY <2>1
    <3>2. Total({}, p) \in Nat
      BY TotalEmpty
    <3> QED
      BY <3>1, <3>2
  <2>4. Pick(m) \in m
    BY <2>3, PickIn
  <2> DEFINE u == m \ {Pick(m)}
  <2>5. Total(u, p) \in Nat
    BY <2>1, <2>4
  <2>6. Total(m, p) = p[Pick(m)].amount + Total(u, p)
    BY <2>2, <2>3, TotalPick
  <2>7. p[Pick(m)].amount \in Nat
    BY <2>4
  <2> QED
    BY <2>1, <2>5, <2>6, <2>7
<1> QED
  BY <1>1

(* Any element can be taken first. *)
LEMMA TotalTake ==
  ASSUME NEW S, NEW p, IsFiniteSet(S), \A x \in S : p[x].amount \in Nat, NEW x \in S
  PROVE  Total(S, p) = p[x].amount + Total(S \ {x}, p)
<1> DEFINE T == {s \in SUBSET S : \E y \in s : Total(s, p) # p[y].amount + Total(s \ {y}, p)}
<1>1. ASSUME T # {} PROVE FALSE
  <2> HIDE DEF T
  <2>0. T \in SUBSET (SUBSET S)
    BY DEF T
  <2>1. PICK m \in T : \A u \in T : u \subseteq m => u = m
    BY <2>0, <1>1, SmallestIn
  <2> USE DEF T
  <2>2. PICK y \in m : Total(m, p) # p[y].amount + Total(m \ {y}, p)
    BY <2>1
  <2> DEFINE c == Pick(m)
             u == m \ {c}
             v == m \ {y}
             w == m \ {c, y}
  <2>3. c \in m
    BY PickIn
  <2>4. IsFiniteSet(m) /\ IsFiniteSet(v) /\ IsFiniteSet(w)
    BY FS_Subset
  <2>5. Total(m, p) = p[c].amount + Total(u, p)
    BY <2>4, TotalPick
  <2>6. y # c
    BY <2>5, <2>2
  <2>7. Total(u, p) = p[y].amount + Total(w, p)
    <3>1. u \in SUBSET S /\ u # m /\ u \subseteq m /\ y \in u /\ u \ {y} = w
      BY <2>3, <2>6
    <3> QED
      BY <3>1, <2>1
  <2>8. Total(v, p) = p[c].amount + Total(w, p)
    <3>1. v \in SUBSET S /\ v # m /\ v \subseteq m /\ c \in v /\ v \ {c} = w
      BY <2>3, <2>6
    <3> QED
      BY <3>1, <2>1
  <2>9. Total(w, p) \in Nat
    BY <2>4, TotalNat
  <2>10. p[c].amount \in Nat /\ p[y].amount \in Nat
    BY <2>3
  <2> HIDE DEF c, u, v, w
  <2>11. Total(m, p) = p[y].amount + Total(v, p)
    BY <2>5, <2>7, <2>8, <2>9, <2>10
  <2> QED
    BY <2>2, <2>11 DEF v
<1> QED
  BY <1>1

(* Only the amounts of the members count. *)
LEMMA TotalSame ==
  ASSUME NEW S, NEW p, NEW q, IsFiniteSet(S), \A x \in S : p[x] = q[x]
  PROVE  Total(S, p) = Total(S, q)
<1> DEFINE T == {s \in SUBSET S : Total(s, p) # Total(s, q)}
<1>1. ASSUME T # {} PROVE FALSE
  <2> HIDE DEF T
  <2>0. T \in SUBSET (SUBSET S)
    BY DEF T
  <2>1. PICK m \in T : \A u \in T : u \subseteq m => u = m
    BY <2>0, <1>1, SmallestIn
  <2> USE DEF T
  <2>2. IsFiniteSet(m)
    BY FS_Subset
  <2>3. m # {}
    BY <2>1, TotalEmpty
  <2>4. Pick(m) \in m
    BY <2>3, PickIn
  <2> DEFINE u == m \ {Pick(m)}
  <2>5. Total(u, p) = Total(u, q)
    BY <2>1, <2>4
  <2>6. /\ Total(m, p) = p[Pick(m)].amount + Total(u, p)
        /\ Total(m, q) = q[Pick(m)].amount + Total(u, q)
    BY <2>2, <2>3, TotalPick
  <2>7. p[Pick(m)] = q[Pick(m)]
    BY <2>4
  <2> QED
    BY <2>1, <2>5, <2>6, <2>7
<1> QED
  BY <1>1

(* One amount changes. *)
LEMMA TotalChange ==
  ASSUME NEW S, NEW p, NEW q, IsFiniteSet(S), NEW x \in S,
         \A y \in S : p[y].amount \in Nat /\ q[y].amount \in Nat,
         \A y \in S \ {x} : p[y] = q[y]
  PROVE  \E rest \in Nat : /\ Total(S, p) = p[x].amount + rest
                           /\ Total(S, q) = q[x].amount + rest
                           /\ rest = Total(S \ {x}, p)
<1>1. IsFiniteSet(S \ {x})
  BY FS_RemoveElement
<1>2. Total(S, p) = p[x].amount + Total(S \ {x}, p)
  BY TotalTake
<1>3. Total(S, q) = q[x].amount + Total(S \ {x}, q)
  BY TotalTake
<1>4. Total(S \ {x}, p) = Total(S \ {x}, q)
  BY <1>1, TotalSame
<1>5. Total(S \ {x}, p) \in Nat
  BY <1>1, TotalNat
<1> QED
  BY <1>2, <1>3, <1>4, <1>5

LEMMA TotalBound ==
  ASSUME NEW S, NEW p, NEW b \in Nat, IsFiniteSet(S),
         \A x \in S : p[x].amount \in Nat /\ p[x].amount <= b
  PROVE  Total(S, p) <= b * Cardinality(S)
<1> DEFINE T == {s \in SUBSET S : ~(Total(s, p) <= b * Cardinality(s))}
<1>1. ASSUME T # {} PROVE FALSE
  <2> HIDE DEF T
  <2>0. T \in SUBSET (SUBSET S)
    BY DEF T
  <2>1. PICK m \in T : \A u \in T : u \subseteq m => u = m
    BY <2>0, <1>1, SmallestIn
  <2> USE DEF T
  <2>2. IsFiniteSet(m)
    BY FS_Subset
  <2>3. m # {}
    <3>1. Total({}, p) <= b * Cardinality({})
      BY TotalEmpty, FS_EmptySet
    <3> QED
      BY <3>1, <2>1
  <2>4. Pick(m) \in m
    BY <2>3, PickIn
  <2> DEFINE u == m \ {Pick(m)}
  <2>5. Total(u, p) <= b * Cardinality(u)
    BY <2>1, <2>4
  <2>6. Total(m, p) = p[Pick(m)].amount + Total(u, p)
    BY <2>2, <2>3, TotalPick
  <2>7. p[Pick(m)].amount \in Nat /\ p[Pick(m)].amount <= b
    BY <2>4
  <2>8. IsFiniteSet(u) /\ Cardinality(u) = Cardinality(m) - 1
    BY <2>2, <2>4, FS_RemoveElement
  <2>9. Total(u, p) \in Nat /\ Cardinality(m) \in Nat
    BY <2>2, <2>8, TotalNat, FS_CardinalityType
  <2>10. b * (Cardinality(m) - 1) + b = b * Cardinality(m)
    BY <2>9
  <2>11. Total(m, p) <= b * Cardinality(m)
    <3> DEFINE a == p[Pick(m)].amount
               r == Total(u, p)
               t == b * (Cardinality(m) - 1)
               z == b * Cardinality(m)
    <3>1. r <= t /\ a <= b /\ t + b = z /\ r \in Nat /\ a \in Nat /\ t \in Int /\ z \in Int
      BY <2>5, <2>7, <2>8, <2>9, <2>10
    <3> HIDE DEF a, r, t, z
    <3>2. a + r <= z
      BY <3>1
    <3> QED
      BY <3>2, <2>6 DEF a, r, z
  <2> QED
    BY <2>1, <2>11
<1> QED
  BY <1>1

-----------------------------------------------------------------------------
(* The weekly cap.                                                         *)

(* What the open transactions are about to pay to w. *)
Owed(w) == [s \in Sessions |-> [amount |-> IF sess[s].worker = w THEN sess[s].pay.amount ELSE 0]]


CapInv ==
  /\ \A s \in Sessions : sess[s].pc = "next" => sess[s].pay.amount = 0
  /\ \A w \in Workers : PaidThisWeek(w) + Total(Sessions, Owed(w)) <= Roof

Few == IsFiniteSet(Triggers) /\ IsFiniteSet(Sessions) /\ Sessions # {}

Counted(w) == {k \in Keys : k[1] = w /\ payouts[k].status \in {"confirmed", "processing"}}

LEMMA PaidTotal ==
  \A w : /\ PaidThisWeek(w) = Total(Counted(w), payouts)
         /\ PaidThisWeek(w)' = Total(Counted(w)', payouts')
<1>1. \A w : PaidThisWeek(w) = Total(Counted(w), payouts)
  BY Zenon DEF PaidThisWeek, Total, Counted
<1>2. \A w : PaidThisWeek(w)' = Total(Counted(w)', payouts')
  BY Zenon DEF PaidThisWeek, Total, Counted, MapThenSumSet, MapThenFoldSet
<1> QED
  BY <1>1, <1>2

LEMMA CountedFinite ==
  ASSUME Few, NEW w \in Workers
  PROVE  IsFiniteSet(Counted(w))
<1>1. IsFiniteSet({w} \X Triggers)
  BY FS_Singleton, FS_Product DEF Few
<1>2. Counted(w) \in SUBSET ({w} \X Triggers)
  BY DEF Counted, Keys
<1> QED
  BY <1>1, <1>2, FS_Subset

LEMMA AmountsTyped ==
  ASSUME TypeInv
  PROVE  /\ \A k \in Keys : payouts[k].amount \in Nat
         /\ \A w : \A s \in Sessions : Owed(w)[s].amount \in Nat /\ Owed(w)[s].amount <= BasePayout
<1>1. \A k \in Keys : payouts[k] \in Payouts
  BY DEF TypeInv, TypeOK
<1>2. \A s \in Sessions : sess[s].pay \in Payouts
  BY DEF TypeInv, TypeOK, SessionType
<1>3. \A y \in Payouts : y.amount \in Nat /\ y.amount <= BasePayout
  BY PipelineAssumption DEF Payouts
<1> QED
  BY <1>1, <1>2, <1>3, PipelineAssumption DEF Owed

LEMMA PaidNat ==
  ASSUME Few, TypeInv, NEW w \in Workers
  PROVE  PaidThisWeek(w) \in Nat /\ Total(Sessions, Owed(w)) \in Nat
<1>1. \A k \in Counted(w) : payouts[k].amount \in Nat
  BY AmountsTyped DEF Counted
<1>2. Total(Counted(w), payouts) \in Nat
  BY <1>1, CountedFinite, TotalNat
<1>3. Total(Sessions, Owed(w)) \in Nat
  BY AmountsTyped, TotalNat DEF Few
<1> QED
  BY <1>2, <1>3, PaidTotal

LEMMA RoofTyped == ASSUME Few PROVE Roof \in Int /\ WeeklyCap <= Roof
<1>1. Cardinality(Sessions) \in Nat /\ Cardinality(Sessions) # 0
  BY FS_CardinalityType, FS_EmptySet DEF Few
<1>2. Cardinality(Sessions) - 1 \in Nat
  BY <1>1
<1>3. \A n \in Nat : BasePayout * n \in Nat
  BY PipelineAssumption
<1> QED
  BY <1>2, <1>3, PipelineAssumption DEF Roof

(* What a step of one session makes of the sums. *)
LEMMA OneOwes ==
  ASSUME Few, TypeInv, TypeInv', NEW s \in Sessions, NEW x, Become(s, x), NEW w \in Workers
  PROVE  \E rest \in Nat :
           /\ Total(Sessions, Owed(w)) = Owed(w)[s].amount + rest
           /\ Total(Sessions, Owed(w)') = (IF x.worker = w THEN x.pay.amount ELSE 0) + rest
           /\ rest = Total(Sessions \ {s}, Owed(w))
<1>1. sess'[s] = x /\ \A o \in Sessions \ {s} : sess'[o] = sess[o]
  BY DEF Become, TypeInv, TypeOK
<1>2. Owed(w)'[s].amount = (IF x.worker = w THEN x.pay.amount ELSE 0)
  BY <1>1 DEF Owed
<1>3. \A o \in Sessions \ {s} : Owed(w)[o] = Owed(w)'[o]
  BY <1>1 DEF Owed
<1>4. \A o \in Sessions : Owed(w)[o].amount \in Nat
  BY AmountsTyped
<1>5. \A o \in Sessions : Owed(w)'[o].amount \in Nat
  <2>1. \A o \in Sessions : sess'[o].pay.amount \in Nat
    BY PipelineAssumption DEF TypeInv, TypeOK, SessionType, Payouts
  <2> QED
    BY <2>1 DEF Owed
<1> QED
  BY <1>2, <1>3, <1>4, <1>5, TotalChange DEF Few

LEMMA SamePaid ==
  ASSUME UNCHANGED payouts
  PROVE  \A w : PaidThisWeek(w)' = PaidThisWeek(w)
<1>1. \A w : Counted(w)' = Counted(w)
  BY DEF Counted
<1> QED
  BY <1>1, PaidTotal, Zenon

(* A step that does not make its session owe more. *)
LEMMA OwesNoMore ==
  ASSUME Few, TypeInv, TypeInv', CapInv, NEW s \in Sessions, NEW x, Become(s, x), UNCHANGED payouts,
         x.pc = "next" => x.pay.amount = 0,
         \/ x.pay.amount = 0
         \/ x.worker = sess[s].worker /\ x.pay.amount = sess[s].pay.amount
  PROVE  CapInv'
<1>1. sess'[s] = x /\ \A o \in Sessions \ {s} : sess'[o] = sess[o]
  BY DEF Become, TypeInv, TypeOK
<1>2. \A o \in Sessions : sess'[o].pc = "next" => sess'[o].pay.amount = 0
  BY <1>1 DEF CapInv
<1>3. ASSUME NEW w \in Workers PROVE PaidThisWeek(w)' + Total(Sessions, Owed(w)') <= Roof
  <2>1. PICK rest \in Nat :
           /\ Total(Sessions, Owed(w)) = Owed(w)[s].amount + rest
           /\ Total(Sessions, Owed(w)') = (IF x.worker = w THEN x.pay.amount ELSE 0) + rest
           /\ rest = Total(Sessions \ {s}, Owed(w))
    BY OneOwes
  <2>2. (IF x.worker = w THEN x.pay.amount ELSE 0) <= Owed(w)[s].amount
    <3>1. Owed(w)[s].amount \in Nat
      BY AmountsTyped
    <3> QED
      BY <3>1 DEF Owed
  <2>3. Owed(w)[s].amount \in Nat /\ (IF x.worker = w THEN x.pay.amount ELSE 0) \in Nat
    <3>1. x.pay.amount \in Nat
      BY <1>1, PipelineAssumption DEF TypeInv, TypeOK, SessionType, Payouts
    <3> QED
      BY <3>1, AmountsTyped
  <2>4. PaidThisWeek(w)' = PaidThisWeek(w) /\ PaidThisWeek(w) \in Nat
    BY SamePaid, PaidNat
  <2>5. PaidThisWeek(w) + Total(Sessions, Owed(w)) <= Roof /\ Roof \in Int
    BY RoofTyped DEF CapInv
  <2> DEFINE a == IF x.worker = w THEN x.pay.amount ELSE 0
             b == Owed(w)[s].amount
  <2> HIDE DEF a, b
  <2>6. \A A, B, R, P \in Nat : A <= B /\ P + (B + rest) <= Roof => P + (A + rest) <= Roof
    BY <2>5
  <2> QED
    BY <2>1, <2>2, <2>3, <2>4, <2>5, <2>6 DEF a, b
<1> QED
  BY <1>2, <1>3 DEF CapInv, Roof

LEMMA NobodyOwes ==
  ASSUME Few, TypeInv, TypeInv', CapInv, UNCHANGED <<sess, payouts>>
  PROVE  CapInv'
<1>1. \A w \in Workers : Owed(w)' = Owed(w)
  BY DEF Owed
<1>2. \A w \in Workers : PaidThisWeek(w)' = PaidThisWeek(w)
  BY SamePaid
<1>3. \A w \in Workers : PaidThisWeek(w)' + Total(Sessions, Owed(w)') <= Roof
  BY <1>1, <1>2 DEF CapInv
<1> QED
  BY <1>3 DEF CapInv, Roof

LEMMA RestBounded ==
  ASSUME Few, TypeInv, NEW s \in Sessions, NEW w \in Workers
  PROVE  Total(Sessions \ {s}, Owed(w)) <= BasePayout * (Cardinality(Sessions) - 1)
<1>1. IsFiniteSet(Sessions \ {s}) /\ Cardinality(Sessions \ {s}) = Cardinality(Sessions) - 1
  BY FS_RemoveElement DEF Few
<1>2. \A o \in Sessions \ {s} : Owed(w)[o].amount \in Nat /\ Owed(w)[o].amount <= BasePayout
  BY AmountsTyped
<1>3. Total(Sessions \ {s}, Owed(w)) <= BasePayout * Cardinality(Sessions \ {s})
  BY <1>1, <1>2, TotalBound, PipelineAssumption
<1> QED
  BY <1>1, <1>3

(* What is read of the week leaves room for the payout, if there is one. *)
LEMMA RoomLeft ==
  ASSUME Few, TypeInv, NEW w \in Workers, NEW a, a = PayoutAmount(w)
  PROVE  a \in Nat /\ (a = 0 \/ PaidThisWeek(w) + a <= WeeklyCap)
<1>1. PaidThisWeek(w) \in Nat
  BY PaidNat
<1> DEFINE p == PaidThisWeek(w)
<1> HIDE DEF p
<1>2. a = LET available == IF p < WeeklyCap THEN WeeklyCap - p ELSE 0
          IN  IF BasePayout <= available THEN BasePayout ELSE available
  BY Zenon DEF PayoutAmount, p
<1>3. p \in Nat
  BY <1>1 DEF p
<1>4. a \in Nat /\ (a = 0 \/ p + a <= WeeklyCap)
  BY <1>2, <1>3, PipelineAssumption
<1> QED
  BY <1>4 DEF p

LEMMA CreateCap ==
  ASSUME Few, SettleInv, TypeInv', CapInv, NEW s \in Sessions, CreatePayout(s)
  PROVE  CapInv'
<1>1. TypeInv /\ sess[s] \in SessionType /\ sess[s].worker \in Workers /\ sess[s].pc = "pay"
  BY Acting DEF SettleInv, Shape, Working, CreatePayout
<1>2. UNCHANGED payouts
  BY DEF CreatePayout, database
<1>3. CASE Become(s, [sess[s] EXCEPT !.pc = AfterRouting(s)])
  <2> DEFINE x == [sess[s] EXCEPT !.pc = AfterRouting(s)]
  <2>1. x.pc # "next" /\ x.worker = sess[s].worker /\ x.pay.amount = sess[s].pay.amount
    BY <1>1 DEF SessionType, AfterRouting
  <2> HIDE DEF x
  <2> QED
    BY <1>1, <1>2, <1>3, <2>1, OwesNoMore DEF x
<1>4. ASSUME NEW a \in 0..BasePayout, a = PayoutAmount(sess[s].worker),
             Become(s, [sess[s] EXCEPT !.pay.amount = a, !.pc = "gateway"])
      PROVE  CapInv'
  <2> DEFINE x == [sess[s] EXCEPT !.pay.amount = a, !.pc = "gateway"]
  <2>1. x.pc = "gateway" /\ x.worker = sess[s].worker /\ x.pay.amount = a
    BY <1>1 DEF SessionType, Payouts
  <2>2. Become(s, x)
    BY <1>4
  <2> HIDE DEF x
  <2>3. CASE a = 0
    BY <1>1, <1>2, <2>1, <2>2, <2>3, OwesNoMore
  <2>4. CASE a # 0
    <3>1. sess'[s] = x /\ \A o \in Sessions \ {s} : sess'[o] = sess[o]
      BY <1>1, <2>2 DEF Become, TypeInv, TypeOK
    <3>2. \A o \in Sessions : sess'[o].pc = "next" => sess'[o].pay.amount = 0
      BY <2>1, <3>1 DEF CapInv
    <3>3. ASSUME NEW w \in Workers PROVE PaidThisWeek(w)' + Total(Sessions, Owed(w)') <= Roof
      <4>1. PICK rest \in Nat :
              /\ Total(Sessions, Owed(w)) = Owed(w)[s].amount + rest
              /\ Total(Sessions, Owed(w)') = (IF x.worker = w THEN x.pay.amount ELSE 0) + rest
              /\ rest = Total(Sessions \ {s}, Owed(w))
        BY <1>1, <2>2, OneOwes
      <4>2. PaidThisWeek(w)' = PaidThisWeek(w) /\ PaidThisWeek(w) \in Nat /\ Roof \in Int
        BY <1>1, <1>2, SamePaid, PaidNat, RoofTyped
      <4>3. CASE w = sess[s].worker
        <5>1. PaidThisWeek(w) + a <= WeeklyCap /\ a \in Nat
          BY <1>1, <1>4, <2>4, <4>3, RoomLeft
        <5>2. rest <= BasePayout * (Cardinality(Sessions) - 1)
          BY <1>1, <4>1, RestBounded
        <5>3. Total(Sessions, Owed(w)') = a + rest
          BY <2>1, <4>1, <4>3
        <5>4. BasePayout * (Cardinality(Sessions) - 1) \in Int /\ WeeklyCap \in Int
          BY RoofTyped, FS_CardinalityType, PipelineAssumption DEF Few
        <5> DEFINE t == BasePayout * (Cardinality(Sessions) - 1)
                   p == PaidThisWeek(w)
        <5> HIDE DEF t, p
        <5>5. p + (a + rest) <= WeeklyCap + t
          BY <4>2, <5>1, <5>2, <5>4 DEF t, p
        <5> QED
          BY <4>2, <5>3, <5>5 DEF t, p, Roof
      <4>4. CASE w # sess[s].worker
        <5>1. Owed(w)[s].amount = 0 /\ x.worker # w
          BY <2>1, <4>4 DEF Owed
        <5>2. Total(Sessions, Owed(w)') = Total(Sessions, Owed(w))
          BY <4>1, <5>1
        <5> QED
          BY <4>2, <5>2 DEF CapInv
      <4> QED
        BY <4>3, <4>4
    <3> QED
      BY <3>2, <3>3 DEF CapInv, Roof
  <2> QED
    BY <2>3, <2>4
<1> QED
  BY <1>3, <1>4 DEF CreatePayout

(* A commit moves what its session owed to what is paid, or drops it. *)
LEMMA PaidGrows ==
  ASSUME Few, SettleInv, TypeInv', NEW s \in Sessions, Commit(s), NEW w \in Workers
  PROVE  PaidThisWeek(w)' \in {PaidThisWeek(w), PaidThisWeek(w) + Owed(w)[s].amount}
<1>1. TypeInv /\ sess[s].pc = "commit" /\ Key(s) \in Keys /\ payouts[Key(s)].status = "none"
  BY Acting DEF SettleInv, Commit, Holding
<1> DEFINE k == Key(s)
<1>2. k[1] = sess[s].worker
  BY DEF Key
<1> HIDE DEF k
<1>3. /\ \A j \in Keys \ {k} : payouts'[j] = payouts[j]
      /\ payouts'[k] = IF sess[s].pay.status = "none" THEN payouts[k] ELSE sess[s].pay
  BY <1>1 DEF Commit, TypeInv, TypeOK, k
<1>4. k \notin Counted(w) /\ Counted(w) \subseteq Keys
  BY <1>1 DEF Counted, k
<1>5. \A j \in Counted(w) : payouts'[j] = payouts[j]
  BY <1>3, <1>4
<1>6. IsFiniteSet(Counted(w))
  BY CountedFinite
<1>7. Total(Counted(w), payouts') = Total(Counted(w), payouts)
  BY <1>5, <1>6, TotalSame
<1>8. CASE sess[s].pay.status \in {"confirmed", "processing"} /\ sess[s].worker = w
  <2>1. Counted(w)' = Counted(w) \cup {k}
    <3>1. payouts'[k] = sess[s].pay
      BY <1>3, <1>8
    <3>2. \A j \in Keys : j \in Counted(w)' <=> j \in Counted(w) \/ j = k
      BY <1>2, <1>3, <1>8, <3>1 DEF Counted
    <3>3. Counted(w)' \subseteq Keys /\ k \in Keys
      BY <1>1 DEF Counted, k
    <3> QED
      BY <1>4, <3>2, <3>3
  <2>2. payouts'[k].amount = Owed(w)[s].amount
    BY <1>3, <1>8 DEF Owed
  <2>3. IsFiniteSet(Counted(w) \cup {k})
    BY <1>6, FS_AddElement
  <2>4. \A j \in Counted(w) \cup {k} : payouts'[j].amount \in Nat
    BY <1>1, <1>4, <1>5, <2>2, AmountsTyped
  <2>5. Total(Counted(w) \cup {k}, payouts')
          = payouts'[k].amount + Total((Counted(w) \cup {k}) \ {k}, payouts')
    BY <2>3, <2>4, TotalTake
  <2>6. (Counted(w) \cup {k}) \ {k} = Counted(w)
    BY <1>4
  <2>7. PaidThisWeek(w)' = Owed(w)[s].amount + PaidThisWeek(w)
    BY <1>7, <2>1, <2>2, <2>5, <2>6, PaidTotal, Zenon
  <2>8. Owed(w)[s].amount \in Nat /\ PaidThisWeek(w) \in Nat
    BY <1>1, AmountsTyped, PaidNat
  <2> QED
    BY <2>7, <2>8
<1>9. CASE ~(sess[s].pay.status \in {"confirmed", "processing"} /\ sess[s].worker = w)
  <2>1. Counted(w)' = Counted(w)
    <3>1. \A j \in Keys \ {k} : j \in Counted(w)' <=> j \in Counted(w)
      BY <1>3 DEF Counted
    <3>2. k \notin Counted(w)'
      BY <1>1, <1>2, <1>3, <1>9 DEF Counted, k
    <3>3. Counted(w)' \subseteq Keys
      BY DEF Counted
    <3> QED
      BY <1>4, <3>1, <3>2, <3>3
  <2>2. PaidThisWeek(w)' = PaidThisWeek(w)
    BY <1>7, <2>1, PaidTotal, Zenon
  <2> QED
    BY <2>2
<1> QED
  BY <1>8, <1>9

LEMMA CommitCap ==
  ASSUME Few, SettleInv, TypeInv', CapInv, NEW s \in Sessions, Commit(s)
  PROVE  CapInv'
<1> DEFINE y == IF s \in Requests THEN Idle
                ELSE [Idle EXCEPT !.pc = "next", !.trig = sess[s].trig, !.todo = sess[s].todo]
<1>1. TypeInv /\ Become(s, y) /\ y.pay.amount = 0
  BY DEF SettleInv, Commit, Idle, NoPayout
<1> HIDE DEF y
<1>2. sess'[s] = y /\ \A o \in Sessions \ {s} : sess'[o] = sess[o]
  BY <1>1 DEF Become, TypeInv, TypeOK
<1>3. \A o \in Sessions : sess'[o].pc = "next" => sess'[o].pay.amount = 0
  BY <1>1, <1>2 DEF CapInv
<1>4. ASSUME NEW w \in Workers PROVE PaidThisWeek(w)' + Total(Sessions, Owed(w)') <= Roof
  <2>1. PICK rest \in Nat :
          /\ Total(Sessions, Owed(w)) = Owed(w)[s].amount + rest
          /\ Total(Sessions, Owed(w)') = (IF y.worker = w THEN y.pay.amount ELSE 0) + rest
          /\ rest = Total(Sessions \ {s}, Owed(w))
    BY <1>1, OneOwes
  <2>2. Total(Sessions, Owed(w)') = rest
    BY <1>1, <2>1
  <2>3. PaidThisWeek(w)' \in {PaidThisWeek(w), PaidThisWeek(w) + Owed(w)[s].amount}
    BY PaidGrows
  <2>4. Owed(w)[s].amount \in Nat /\ PaidThisWeek(w) \in Nat /\ Roof \in Int
    BY <1>1, AmountsTyped, PaidNat, RoofTyped
  <2>5. PaidThisWeek(w) + (Owed(w)[s].amount + rest) <= Roof
    BY <2>1 DEF CapInv
  <2> DEFINE p == PaidThisWeek(w)
             q == PaidThisWeek(w)'
             b == Owed(w)[s].amount
  <2> HIDE DEF p, q, b
  <2>6. q + rest <= Roof
    BY <2>3, <2>4, <2>5 DEF p, q, b
  <2> QED
    BY <2>2, <2>6 DEF q
<1> QED
  BY <1>3, <1>4 DEF CapInv, Roof

LEMMA NextCapInv == Few => (CapInv /\ SettleInv /\ [Next]_vars => CapInv')
<1> SUFFICES ASSUME Few, CapInv, SettleInv, [Next]_vars PROVE CapInv'
  OBVIOUS
<1>0. TypeInv /\ TypeInv'
  BY NextTypeInv DEF SettleInv
<1>i. Idle.pc # "next" /\ Idle.pay.amount = 0
  BY DEF Idle, NoPayout
<1>1. ASSUME NEW t \in Triggers,
             PollWrite(t) \/ PollPublish(t) \/ PollCrash(t)
               \/ SimulatePublish(t) \/ SimulateCommit(t) \/ SimulateAbort(t)
      PROVE  CapInv'
  <2>1. UNCHANGED <<sess, payouts>>
    BY <1>1 DEF PollWrite, PollPublish, PollCrash, SimulatePublish, SimulateCommit, SimulateAbort, database
  <2> QED
    BY <1>0, <2>1, NobodyOwes
<1>2. ASSUME NEW r \in Replicas, Receive(r) PROVE CapInv'
  <2>1. r \in Sessions /\ UNCHANGED payouts
    BY <1>2 DEF Sessions, Receive, database
  <2>2. CASE UNCHANGED sess
    BY <1>0, <2>1, <2>2, NobodyOwes
  <2>3. ASSUME NEW t, Become(r, [Idle EXCEPT !.pc = "next", !.trig = t, !.todo = Eligible[t]])
        PROVE  CapInv'
    <3> DEFINE x == [Idle EXCEPT !.pc = "next", !.trig = t, !.todo = Eligible[t]]
    <3>1. x.pay.amount = 0
      BY DEF Idle, NoPayout
    <3> HIDE DEF x
    <3> QED
      BY <1>0, <2>1, <2>3, <3>1, OwesNoMore DEF x
  <2> QED
    BY <1>2, <2>2, <2>3 DEF Receive
<1>3. ASSUME NEW r \in Replicas, NextWorker(r) PROVE CapInv'
  <2>1. /\ r \in Sessions /\ UNCHANGED payouts /\ sess[r] \in SessionType
        /\ sess[r].pay.amount = 0
    BY <1>0, <1>3 DEF Sessions, NextWorker, database, TypeInv, TypeOK, CapInv
  <2> DEFINE x(w) == [sess[r] EXCEPT !.worker = w, !.todo = @ \ {w},
                                     !.pc = IF claims[<<w, sess[r].trig>>] = "none"
                                              THEN "insert" ELSE "rescore"]
  <2>2. PICK w \in sess[r].todo : Become(r, x(w))
    BY <1>3 DEF NextWorker
  <2>3. x(w).pay.amount = 0
    BY <2>1 DEF SessionType
  <2> HIDE DEF x
  <2> QED
    BY <1>0, <2>1, <2>2, <2>3, OwesNoMore
<1>4. ASSUME NEW s \in Sessions, Become(s, Idle), UNCHANGED payouts PROVE CapInv'
  BY <1>0, <1>i, <1>4, OwesNoMore
<1>5. ASSUME NEW q \in Requests, NEW w \in Workers, NEW t \in Triggers, Apply(q, w, t) PROVE CapInv'
  <2> DEFINE x == [Idle EXCEPT !.pc = "insert", !.trig = t, !.worker = w]
  <2>1. q \in Sessions /\ UNCHANGED payouts /\ Become(q, x) /\ x.pay.amount = 0
    BY <1>5 DEF Sessions, Apply, database, Idle, NoPayout
  <2> HIDE DEF x
  <2> QED
    BY <1>0, <2>1, OwesNoMore
<1>6. ASSUME NEW q \in Requests, Republish(q) PROVE CapInv'
  <2> DEFINE x == [sess[q] EXCEPT !.pc = "commit"]
  <2>1. q \in Sessions /\ UNCHANGED payouts /\ Become(q, x) /\ sess[q] \in SessionType
    BY <1>0, <1>6 DEF Sessions, Republish, database, TypeInv, TypeOK
  <2>2. x.pc # "next" /\ x.worker = sess[q].worker /\ x.pay.amount = sess[q].pay.amount
    BY <2>1 DEF SessionType
  <2> HIDE DEF x
  <2> QED
    BY <1>0, <2>1, <2>2, OwesNoMore
<1>7. ASSUME NEW s \in Sessions, InsertClaim(s) PROVE CapInv'
  <2> DEFINE x == [sess[s] EXCEPT !.pc = "score"]
  <2>1. UNCHANGED payouts /\ sess[s] \in SessionType
    BY <1>0, <1>7 DEF InsertClaim, database, TypeInv, TypeOK
  <2>2. x.pc # "next" /\ x.worker = sess[s].worker /\ x.pay.amount = sess[s].pay.amount
    BY <2>1 DEF SessionType
  <2>3. Become(s, x) \/ Become(s, Idle)
    BY <1>7 DEF InsertClaim, Abandon
  <2> HIDE DEF x
  <2> QED
    BY <1>0, <1>4, <2>1, <2>2, <2>3, OwesNoMore
<1>8. ASSUME NEW s \in Sessions, Score(s) PROVE CapInv'
  <2> DEFINE x(d) == [sess[s] EXCEPT !.decision = d, !.to = RoutedTo(d),
                                     !.pc = IF d = "auto_approve" THEN "pay" ELSE AfterRouting(s)]
  <2>1. UNCHANGED payouts /\ sess[s] \in SessionType
    BY <1>0, <1>8 DEF Score, database, TypeInv, TypeOK
  <2>2. \A d \in Decisions :
          x(d).pc # "next" /\ x(d).worker = sess[s].worker /\ x(d).pay.amount = sess[s].pay.amount
    BY <2>1 DEF SessionType, AfterRouting
  <2>3. Become(s, Idle) \/ \E d \in Decisions : Become(s, x(d))
    BY <1>8 DEF Score, Abandon
  <2> HIDE DEF x
  <2> QED
    BY <1>0, <1>4, <2>1, <2>2, <2>3, OwesNoMore
<1>9. ASSUME NEW s \in Sessions, CallGateway(s) PROVE CapInv'
  <2> DEFINE x(o) == [sess[s] EXCEPT !.pay.status = o, !.to = "paid", !.pc = AfterRouting(s)]
  <2>1. UNCHANGED payouts /\ sess[s] \in SessionType
    BY <1>0, <1>9 DEF CallGateway, database, TypeInv, TypeOK
  <2>2. \A o \in GatewayOutcomes :
          x(o).pc # "next" /\ x(o).worker = sess[s].worker /\ x(o).pay.amount = sess[s].pay.amount
    BY <2>1 DEF SessionType, Payouts, AfterRouting
  <2>3. \E o \in GatewayOutcomes : Become(s, x(o))
    BY <1>9 DEF CallGateway
  <2> HIDE DEF x
  <2> QED
    BY <1>0, <2>1, <2>2, <2>3, OwesNoMore
<1>10. ASSUME NEW s \in Sessions, Fail(s) PROVE CapInv'
  BY <1>4, <1>10 DEF Fail, Abandon, database
<1>11. ASSUME NEW r \in Replicas, FinishDelivery(r) \/ Crash(r) PROVE CapInv'
  <2>1. r \in Sessions /\ Become(r, Idle) /\ UNCHANGED payouts
    BY <1>11 DEF Sessions, FinishDelivery, Crash, Abandon, database
  <2> QED
    BY <1>4, <2>1
<1>12. ASSUME (\E k \in Keys : Appeal(k)) \/ UNCHANGED vars PROVE CapInv'
  <2>1. UNCHANGED <<sess, payouts>>
    BY <1>12 DEF Appeal, vars, database
  <2> QED
    BY <1>0, <2>1, NobodyOwes
<1>13. ASSUME NEW s \in Sessions, CreatePayout(s) \/ Commit(s) PROVE CapInv'
  BY <1>0, <1>13, CreateCap, CommitCap
<1> QED
  BY <1>1, <1>2, <1>3, <1>5, <1>6, <1>7, <1>8, <1>9, <1>10, <1>11, <1>12, <1>13
  DEF Next, Listener, Transaction

LEMMA InitCapInv == Few /\ Init => CapInv
<1> SUFFICES ASSUME Few, Init PROVE CapInv
  OBVIOUS
<1>1. \A s \in Sessions : sess[s] = Idle
  BY DEF Init
<1>2. \A s \in Sessions : sess[s].pc = "next" => sess[s].pay.amount = 0
  BY <1>1 DEF Idle, NoPayout
<1>3. ASSUME NEW w \in Workers PROVE PaidThisWeek(w) + Total(Sessions, Owed(w)) <= Roof
  <2>1. Counted(w) = {}
    BY DEF Counted, Init, NoPayout
  <2>2. PaidThisWeek(w) = 0
    BY <2>1, PaidTotal, TotalEmpty, Zenon
  <2>3. \A s \in Sessions : Owed(w)[s].amount = 0
    BY <1>1 DEF Owed, Idle, NoPayout
  <2>4. Total(Sessions, Owed(w)) <= 0 * Cardinality(Sessions)
    BY <2>3, TotalBound DEF Few
  <2>5. Cardinality(Sessions) \in Nat
    BY FS_CardinalityType DEF Few
  <2>6. Total(Sessions, Owed(w)) \in Nat /\ Roof \in Int /\ WeeklyCap <= Roof /\ WeeklyCap \in Nat
    BY <2>3, TotalNat, RoofTyped, PipelineAssumption DEF Few
  <2> QED
    BY <2>2, <2>4, <2>5, <2>6
<1> QED
  BY <1>2, <1>3 DEF CapInv

LEMMA CapInvariant ==
  ASSUME Few
  PROVE  Spec => [](CapInv /\ TypeInv)
<1>1. Init => CapInv
  BY InitCapInv
<1>2. CapInv /\ SettleInv /\ [Next]_vars => CapInv'
  BY NextCapInv
<1>3. SettleInv => TypeInv
  BY DEF SettleInv
<1> QED
  BY <1>1, <1>2, <1>3, SettleInvariant, PTL DEF Spec

(* Whatever overlaps, a worker is paid in a week at most the cap and one    *)
(* base payout for every further transaction that can be open: two          *)
(* replicas can overrun the cap by one payout, not by more.                 *)
THEOREM OverrunStaysBounded ==
  ASSUME IsFiniteSet(Triggers), IsFiniteSet(Sessions), Sessions # {}
  PROVE  Spec => []OverrunBounded
<1>1. Few
  BY DEF Few
<1>2. CapInv /\ TypeInv => OverrunBounded
  <2> SUFFICES ASSUME CapInv, TypeInv, NEW w \in Workers PROVE PaidThisWeek(w) <= Roof
    BY DEF OverrunBounded
  <2>1. PaidThisWeek(w) \in Nat /\ Total(Sessions, Owed(w)) \in Nat /\ Roof \in Int
    BY <1>1, PaidNat, RoofTyped
  <2>2. PaidThisWeek(w) + Total(Sessions, Owed(w)) <= Roof
    BY DEF CapInv
  <2> QED
    BY <2>1, <2>2
<1>3. Spec => [](CapInv /\ TypeInv)
  BY <1>1, CapInvariant
<1> QED
  BY <1>2, <1>3, PTL

=============================================================================
