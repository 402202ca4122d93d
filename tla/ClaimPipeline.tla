---------------------------- MODULE ClaimPipeline ----------------------------
(***************************************************************************)
(* From a trigger event to settled claims: the Redis listener of every API *)
(* replica running orchestrate_claims, workers calling POST /claims/apply, *)
(* the transactions both use, the unique constraints that serialise them,  *)
(* and the payout gateway they call before they commit.                    *)
(*                                                                         *)
(* The database is PostgreSQL at READ COMMITTED: claims, assessments and   *)
(* payouts hold the committed rows, a session record holds what its open   *)
(* transaction has written.  A flush that inserts a key another open       *)
(* transaction has inserted waits for that transaction.                    *)
(*                                                                         *)
(* Every worker has one active policy, so the idempotency key              *)
(* worker:policy:trigger is the pair <<worker, trigger>>.  The fraud score *)
(* is abstracted to the decision it leads to.                              *)
(***************************************************************************)
EXTENDS Naturals, Sequences, FiniteSets, FiniteSetsExt

CONSTANTS Workers, Triggers,
          Replicas,         \* API processes, each with one trigger listener
          Requests,         \* concurrent POST /claims/apply requests
          Eligible,         \* Eligible[t]: the workers _find_eligible_policies returns
          GatewayOutcomes,  \* payout statuses a gateway call can leave
          BasePayout,       \* payout of a claim before the weekly cap
          WeeklyCap,        \* 80% of the worker's weekly earnings
          MaxFaults,        \* bound on crashes and failures in a behaviour
          None

ASSUME PipelineAssumption ==
  /\ Replicas \cap Requests = {}
  /\ Eligible \in [Triggers -> SUBSET Workers]
  /\ GatewayOutcomes \subseteq {"confirmed", "processing", "failed"}
  /\ BasePayout \in Nat
  /\ WeeklyCap \in Nat
  /\ MaxFaults \in Nat
  /\ None \notin Workers \cup Triggers

Keys == Workers \X Triggers
Sessions == Replicas \cup Requests

(* "hold" and "manual_review" route alike; "hold" stands for both. *)
Decisions == {"auto_approve", "hold", "auto_block"}
ClaimStatus == {"in_review", "blocked", "approved", "rejected", "paid"}
Payouts == [status : GatewayOutcomes \cup {"none"}, amount : 0..BasePayout]
NoPayout == [status |-> "none", amount |-> 0]

VARIABLES row,          \* row[t]: how far the trigger row and its message have come
          inbox,        \* inbox[r]: trigger ids delivered to listener r, not yet read
          claims,       \* committed claim status, or "none"
          assessments,  \* committed fraud decision, or "none"
          payouts,      \* committed payout row, or NoPayout
          sess,         \* the open transaction of every session
          transfers,    \* transfers[k]: payouts the gateway accepted for k
          faults        \* crashes and failures so far

database == <<claims, assessments, payouts>>
vars == <<row, inbox, claims, assessments, payouts, sess, transfers, faults>>

Idle == [pc |-> "idle", trig |-> None, worker |-> None, todo |-> {},
         decision |-> "none", to |-> "initiated", pay |-> NoPayout]

Become(s, x) == sess' = [sess EXCEPT ![s] = x]

Key(s) == <<sess[s].worker, sess[s].trig>>

(* The session has inserted the claim of k and not yet committed. *)
Holds(s, k) ==
  /\ sess[s].pc \in {"score", "pay", "gateway", "publish", "commit"}
  /\ Key(s) = k

Visible(t) == row[t] \in {"written", "live"}

Init ==
  /\ row = [t \in Triggers |-> "absent"]
  /\ inbox = [r \in Replicas |-> << >>]
  /\ claims = [k \in Keys |-> "none"]
  /\ assessments = [k \in Keys |-> "none"]
  /\ payouts = [k \in Keys |-> NoPayout]
  /\ sess = [s \in Sessions |-> Idle]
  /\ transfers = [k \in Keys |-> 0]
  /\ faults = 0

-----------------------------------------------------------------------------
(* Announcing a trigger.  Redis pub/sub hands the id to every listener. *)

Deliver(t) == inbox' = [r \in Replicas |-> Append(inbox[r], t)]

PollWrite(t) ==
  /\ row[t] = "absent"
  /\ row' = [row EXCEPT ![t] = "written"]
  /\ UNCHANGED <<inbox, database, sess, transfers, faults>>

PollPublish(t) ==
  /\ row[t] = "written"
  /\ row' = [row EXCEPT ![t] = "live"]
  /\ Deliver(t)
  /\ UNCHANGED <<database, sess, transfers, faults>>

(* The poller dies, or its publish raises: the id is never sent. *)
PollCrash(t) ==
  /\ row[t] = "written"
  /\ faults < MaxFaults
  /\ row' = [row EXCEPT ![t] = "live"]
  /\ faults' = faults + 1
  /\ UNCHANGED <<inbox, database, sess, transfers>>

(* simulate_trigger flushes and publishes; its caller commits afterwards. *)
SimulatePublish(t) ==
  /\ row[t] = "absent"
  /\ row' = [row EXCEPT ![t] = "flushed"]
  /\ Deliver(t)
  /\ UNCHANGED <<database, sess, transfers, faults>>

SimulateCommit(t) ==
  /\ row[t] = "flushed"
  /\ row' = [row EXCEPT ![t] = "live"]
  /\ UNCHANGED <<inbox, database, sess, transfers, faults>>

SimulateAbort(t) ==
  /\ row[t] = "flushed"
  /\ faults < MaxFaults
  /\ row' = [row EXCEPT ![t] = "void"]
  /\ faults' = faults + 1
  /\ UNCHANGED <<inbox, database, sess, transfers>>

-----------------------------------------------------------------------------
(* The listener takes a message and walks the eligible workers. *)

(* A trigger row that is not visible yet ends the delivery. *)
Receive(r) ==
  /\ sess[r].pc = "idle"
  /\ inbox[r] # << >>
  /\ inbox' = [inbox EXCEPT ![r] = Tail(@)]
  /\ LET t == Head(inbox[r]) IN
       IF Visible(t)
         THEN Become(r, [Idle EXCEPT !.pc = "next", !.trig = t, !.todo = Eligible[t]])
         ELSE UNCHANGED sess
  /\ UNCHANGED <<row, database, transfers, faults>>

(* The query has no ORDER BY: any remaining worker can come next.  A claim *)
(* that exists is handed on to scoring as it is, whatever its status.      *)
NextWorker(r) ==
  /\ sess[r].pc = "next"
  /\ \E w \in sess[r].todo :
       Become(r, [sess[r] EXCEPT !.worker = w,
                                 !.todo = @ \ {w},
                                 !.pc = IF claims[<<w, sess[r].trig>>] = "none"
                                          THEN "insert" ELSE "rescore"])
  /\ UNCHANGED <<row, inbox, database, transfers, faults>>

FinishDelivery(r) ==
  /\ sess[r].pc = "next"
  /\ sess[r].todo = {}
  /\ Become(r, Idle)
  /\ UNCHANGED <<row, inbox, database, transfers, faults>>

(* A worker applies for a visible trigger; an existing claim is returned   *)
(* unchanged, which is no step.                                            *)
Apply(q, w, t) ==
  /\ sess[q].pc = "idle"
  /\ Visible(t)
  /\ w \in Eligible[t]
  /\ claims[<<w, t>>] = "none"
  /\ Become(q, [Idle EXCEPT !.pc = "insert", !.trig = t, !.worker = w])
  /\ UNCHANGED <<row, inbox, database, transfers, faults>>

-----------------------------------------------------------------------------
(* The transaction of one claim. *)

(* Rollback.  In orchestrate_claims the except block then logs policy.id   *)
(* of an expired instance, which raises: the loop over the workers ends.   *)
Abandon(s) == Become(s, Idle)

(* Faulty variant: the unique key is gone. *)
InsertUnlocked(s) ==
  /\ sess[s].pc = "insert"
  /\ Become(s, [sess[s] EXCEPT !.pc = "score"])
  /\ UNCHANGED <<row, inbox, database, transfers, faults>>

(* Faulty variant: a conflict is retried instead of raised. *)
InsertRetrying(s) ==
  /\ sess[s].pc = "insert"
  /\ claims[Key(s)] = "none"
  /\ \A o \in Sessions \ {s} : ~Holds(o, Key(s))
  /\ Become(s, [sess[s] EXCEPT !.pc = "score"])
  /\ UNCHANGED <<row, inbox, database, transfers, faults>>

InsertClaim(s) ==
  /\ sess[s].pc = "insert"
  /\ \A o \in Sessions \ {s} : ~Holds(o, Key(s))
  /\ IF claims[Key(s)] = "none"
       THEN Become(s, [sess[s] EXCEPT !.pc = "score"])
       ELSE Abandon(s)
  /\ UNCHANGED <<row, inbox, database, transfers, faults>>

AfterRouting(s) == IF s \in Requests THEN "publish" ELSE "commit"

RoutedTo(d) == CASE d = "auto_approve" -> "approved"
                 [] d = "hold"         -> "in_review"
                 [] d = "auto_block"   -> "blocked"

(* Faulty variant: a second assessment replaces the first. *)
ScoreAgain(s) ==
  /\ sess[s].pc \in {"score", "rescore"}
  /\ \E d \in Decisions :
       Become(s, [sess[s] EXCEPT !.decision = d,
                                 !.to = RoutedTo(d),
                                 !.pc = IF d = "auto_approve" THEN "pay" ELSE AfterRouting(s)])
  /\ UNCHANGED <<row, inbox, database, transfers, faults>>

(* score_claim inserts an assessment; a second one for the claim violates  *)
(* the unique constraint when it is flushed, before the payout.            *)
Score(s) ==
  /\ sess[s].pc \in {"score", "rescore"}
  /\ IF assessments[Key(s)] # "none"
       THEN Abandon(s)
       ELSE \E d \in Decisions :
              Become(s, [sess[s] EXCEPT !.decision = d,
                                        !.to = RoutedTo(d),
                                        !.pc = IF d = "auto_approve"
                                                 THEN "pay" ELSE AfterRouting(s)])
  /\ UNCHANGED <<row, inbox, database, transfers, faults>>

(* Committed payouts of the last seven days that count against the cap. *)
PaidThisWeek(w) ==
  MapThenSumSet(LAMBDA k : payouts[k].amount,
                {k \in Keys : k[1] = w /\ payouts[k].status \in {"confirmed", "processing"}})

(* Faulty variant: earlier payouts are not deducted. *)
PayoutAmountAlone(w) == IF BasePayout <= WeeklyCap THEN BasePayout ELSE WeeklyCap

PayoutAmount(w) ==
  LET available == IF PaidThisWeek(w) < WeeklyCap THEN WeeklyCap - PaidThisWeek(w) ELSE 0
  IN  IF BasePayout <= available THEN BasePayout ELSE available

(* initiate_payout up to the flushed pending row; an existing row is returned. *)
CreatePayout(s) ==
  /\ sess[s].pc = "pay"
  /\ IF payouts[Key(s)].status # "none"
       THEN Become(s, [sess[s] EXCEPT !.pc = AfterRouting(s)])
       ELSE \E a \in 0..BasePayout :
              /\ a = PayoutAmount(sess[s].worker)
              /\ Become(s, [sess[s] EXCEPT !.pay.amount = a, !.pc = "gateway"])
  /\ UNCHANGED <<row, inbox, database, transfers, faults>>

(* The gateway answers while the transaction is open; the claim becomes    *)
(* "paid" whatever the answer.                                             *)
CallGateway(s) ==
  /\ sess[s].pc = "gateway"
  /\ \E o \in GatewayOutcomes :
       /\ Become(s, [sess[s] EXCEPT !.pay.status = o, !.to = "paid", !.pc = AfterRouting(s)])
       /\ transfers' = IF o = "failed" THEN transfers
                       ELSE [transfers EXCEPT ![Key(s)] = @ + 1]
  /\ UNCHANGED <<row, inbox, database, faults>>

(* apply_for_claim announces the trigger again before it commits. *)
Republish(q) ==
  /\ sess[q].pc = "publish"
  /\ Become(q, [sess[q] EXCEPT !.pc = "commit"])
  /\ Deliver(sess[q].trig)
  /\ UNCHANGED <<row, database, transfers, faults>>

(* Faulty variant: the loop over the workers ends with the first commit. *)
CommitAndReturn(s) ==
  /\ sess[s].pc = "commit"
  /\ claims' = [claims EXCEPT ![Key(s)] = sess[s].to]
  /\ assessments' = [assessments EXCEPT ![Key(s)] = sess[s].decision]
  /\ payouts' = IF sess[s].pay.status = "none" THEN payouts
                ELSE [payouts EXCEPT ![Key(s)] = sess[s].pay]
  /\ Become(s, Idle)
  /\ UNCHANGED <<row, inbox, transfers, faults>>

Commit(s) ==
  /\ sess[s].pc = "commit"
  /\ claims' = [claims EXCEPT ![Key(s)] = sess[s].to]
  /\ assessments' = [assessments EXCEPT ![Key(s)] = sess[s].decision]
  /\ payouts' = IF sess[s].pay.status = "none" THEN payouts
                ELSE [payouts EXCEPT ![Key(s)] = sess[s].pay]
  /\ Become(s, IF s \in Requests THEN Idle
               ELSE [Idle EXCEPT !.pc = "next", !.trig = sess[s].trig, !.todo = sess[s].todo])
  /\ UNCHANGED <<row, inbox, transfers, faults>>

-----------------------------------------------------------------------------
(* Failures. *)

(* An exception between two statements of the transaction. *)
Fail(s) ==
  /\ sess[s].pc # "idle"
  /\ faults < MaxFaults
  /\ faults' = faults + 1
  /\ Abandon(s)
  /\ UNCHANGED <<row, inbox, database, transfers>>

(* The process dies: its transaction rolls back, its messages are lost. *)
Crash(r) ==
  /\ faults < MaxFaults
  /\ faults' = faults + 1
  /\ Abandon(r)
  /\ inbox' = [inbox EXCEPT ![r] = << >>]
  /\ UNCHANGED <<row, database, transfers>>

(* A worker appeals.  Nobody else writes a claim that is blocked or         *)
(* rejected, so reading its status and committing are one step.            *)
Appeal(k) ==
  /\ claims[k] \in {"rejected", "blocked"}
  /\ claims' = [claims EXCEPT ![k] = "in_review"]
  /\ UNCHANGED <<row, inbox, assessments, payouts, sess, transfers, faults>>

Transaction(s) ==
  InsertClaim(s) \/ Score(s) \/ CreatePayout(s) \/ CallGateway(s) \/ Commit(s)

Listener(r) == Receive(r) \/ NextWorker(r) \/ FinishDelivery(r)

Next ==
  \/ \E t \in Triggers : \/ PollWrite(t) \/ PollPublish(t) \/ PollCrash(t)
                         \/ SimulatePublish(t) \/ SimulateCommit(t) \/ SimulateAbort(t)
  \/ \E r \in Replicas : Listener(r) \/ Crash(r)
  \/ \E q \in Requests : \/ \E w \in Workers, t \in Triggers : Apply(q, w, t)
                         \/ Republish(q)
  \/ \E s \in Sessions : Transaction(s) \/ Fail(s)
  \/ \E k \in Keys : Appeal(k)

Spec == Init /\ [][Next]_vars

(* What the scheduler owes: a running task is resumed, a caller that wrote *)
(* or flushed a row goes on to publish or commit it.  Workers need not     *)
(* apply or appeal.                                                        *)
Fairness ==
  /\ \A t \in Triggers : WF_vars(PollPublish(t)) /\ WF_vars(SimulateCommit(t))
  /\ \A r \in Replicas : WF_vars(Listener(r))
  /\ \A q \in Requests : WF_vars(Republish(q))
  /\ \A s \in Sessions : WF_vars(Transaction(s))

FairSpec == Spec /\ Fairness
-----------------------------------------------------------------------------
(* Properties. *)

SessionType ==
  [pc : {"idle", "next", "insert", "score", "rescore", "pay", "gateway", "publish", "commit"},
   trig : Triggers \cup {None}, worker : Workers \cup {None}, todo : SUBSET Workers,
   decision : Decisions \cup {"none"}, to : ClaimStatus \cup {"initiated"}, pay : Payouts]

TypeOK ==
  /\ row \in [Triggers -> {"absent", "written", "flushed", "live", "void"}]
  /\ inbox \in [Replicas -> Seq(Triggers)]
  /\ claims \in [Keys -> ClaimStatus \cup {"none"}]
  /\ assessments \in [Keys -> Decisions \cup {"none"}]
  /\ payouts \in [Keys -> Payouts]
  /\ sess \in [Sessions -> SessionType]
  /\ transfers \in [Keys -> Nat]
  /\ faults \in 0..MaxFaults

(* The three rows of a claim appear together: no claim without its fraud   *)
(* assessment, no payout without a paid claim that was approved            *)
(* automatically.  One commit per claim gives this only because the unique *)
(* keys keep two sessions from settling the same pair.                     *)
AtomicSettlement ==
  \A k \in Keys :
    /\ claims[k] = "none" <=> assessments[k] = "none"
    /\ claims[k] = "paid" <=> payouts[k].status # "none"
    /\ payouts[k].status # "none" => assessments[k] = "auto_approve"

(* Two open transactions never both hold the claim of one pair, and nobody *)
(* holds a pair that is already settled: what keeps concurrent replicas    *)
(* and an applying worker from both reaching the gateway.                  *)
ExclusiveClaim ==
  \A k \in Keys, s \in Sessions :
    Holds(s, k) => /\ claims[k] = "none"
                   /\ \A o \in Sessions : Holds(o, k) => o = s

(* The session's gateway call was accepted and has not been committed. *)
Unsettled(s, k) ==
  /\ Holds(s, k)
  /\ sess[s].pay.status \in {"confirmed", "processing"}

(* Money accepted for k is on record: a payout row, or the open transaction *)
(* that will write it.                                                      *)
OnRecord(k) ==
  \/ payouts[k].status # "none"
  \/ \E s \in Sessions : Unsettled(s, k)

(* Money leaves for a pair at most once, plus once for every crash or      *)
(* failure that came between a gateway call and its commit.  Redelivered   *)
(* messages, second replicas and applying workers never cause a second     *)
(* transfer by themselves.                                                 *)
TransferAccounted ==
  \A k \in Keys : transfers[k] <= IF OnRecord(k) THEN faults + 1 ELSE faults

(* The pipeline implements the ledger: a pair is settled in one step, once, *)
(* and a message delivered again never moves a settled claim.               *)
Ledger == INSTANCE ClaimLedger WITH paidOut <- [k \in Keys |-> payouts[k].status]
LedgerSpec == Ledger!Spec

(* What a worker is paid in a week exceeds the cap by at most one payout    *)
(* for every session that may settle beside the one that reads the sum:     *)
(* a stale sum is used for one payout and read again for the next, by a     *)
(* replica that walks on to other triggers and by one that starts again.    *)
Roof == WeeklyCap + BasePayout * (Cardinality(Sessions) - 1)
OverrunBounded == \A w \in Workers : PaidThisWeek(w) <= Roof

(* Every worker eligible for a trigger the poller has written gets a claim. *)
PolledTriggerSettled ==
  \A t \in Triggers :
    row[t] = "written" ~> \A w \in Eligible[t] : claims[<<w, t>>] # "none"

(* Every transaction ends: no session waits forever for a claim that      *)
(* another session has inserted, whatever fails in between.                *)
TransactionsEnd ==
  \A s \in Sessions : sess[s].pc # "idle" ~> sess[s].pc = "idle"
=============================================================================
