-------------------------- MODULE SettlementProofs --------------------------
(* Proofs about Settlement, for every set of claims, deliveries, jobs,        *)
(* retries and gateways.                                                      *)
EXTENDS Settlement, ReviewQueueProofs

-----------------------------------------------------------------------------
(* Claims and decisions change by steps of the review queue only.             *)

LEMMA QueueStep == [Next]_vars => [ReviewNext]_reviewVars
  <1> SUFFICES ASSUME [Next]_vars PROVE [ReviewNext]_reviewVars
    OBVIOUS
  <1>1. ASSUME NEW d \in Deliveries, Process(d) \/ DeliveryFails(d) PROVE UNCHANGED reviewVars
    BY <1>1 DEF Process, Receive, Look, Insert, Resume, CallGateway, Record, Emit, DeliveryFails
  <1>2. ASSUME NEW j \in Jobs, Reconcile(j) \/ ReconciliationFails(j) PROVE UNCHANGED reviewVars
    BY <1>2 DEF Reconcile, LoadUncertain, CheckGateway, CheckWith, CommitReconciliation,
       ReconciliationFails
  <1>3. ASSUME NEW a \in Retries, Retry(a) PROVE UNCHANGED reviewVars
    BY <1>3 DEF Retry, ReadForRetry, CallForRetry, CommitRetry, RetryFails
  <1>4. CASE Tick
    BY <1>4 DEF Tick
  <1>5. CASE UNCHANGED vars
    BY <1>5 DEF vars
  <1> QED
    BY <1>1, <1>2, <1>3, <1>4, <1>5 DEF Next

(* The settlement implements the queue: paying and reconciling never touches  *)
(* a decision.                                                                *)
THEOREM SettlementImplementsQueue == Spec => ReviewSpec
  <1>1. Init => ReviewInit
    BY DEF Init
  <1> QED
    BY <1>1, QueueStep, PTL DEF Spec, ReviewSpec

-----------------------------------------------------------------------------
(* Types of the payouts' side.                                                *)

LEMMA Constant ==
  /\ ReviewAge \in Nat
  /\ NoRow \in Rows /\ NoRow.status = "none" /\ NoRow.ref = None
  /\ NoAnswer \in Answers
  /\ Idle \in Runs /\ Idle.at = "idle"
  /\ None \notin Results
  BY AgesOrdered, SettlementConstants DEF NoRow, Rows, NoAnswer, Answers, Idle, Runs, Results

LEMMA InitiationTypes ==
  ASSUME NEW i \in Initiations
  PROVE  /\ i.status \in Results /\ i.ref \in Results \cup {None}
         /\ i.status = "SUCCESS" \/ i.ref = "SUCCESS" => i.paid = TRUE
  <1> None # "SUCCESS"
    BY SettlementConstants
  <1>1. CASE i \in [status: {"UNCERTAIN", "FAILED"}, ref: {None}, paid: BOOLEAN]
    BY <1>1 DEF Results
  <1>2. CASE \E t \in Results : i = [status |-> t, ref |-> t, paid |-> t = "SUCCESS"]
    <2>1. PICK t \in Results : i = [status |-> t, ref |-> t, paid |-> t = "SUCCESS"]
      BY <1>2
    <2>2. i.status = t /\ i.ref = t
      BY <2>1
    <2>3. t = "SUCCESS" => i.paid = TRUE
      BY <2>1, Zenon
    <2> QED
      BY <2>2, <2>3
  <1>3. CASE i = [status |-> "SUCCESS", ref |-> "SUCCESS", paid |-> TRUE]
    BY <1>3 DEF Results
  <1>4. CASE i = [status |-> "FAILED", ref |-> "FAILED", paid |-> FALSE]
    BY <1>4 DEF Results
  <1>5. CASE i \in [status: {"UNCERTAIN"}, ref: {"UNCERTAIN"}, paid: BOOLEAN]
    BY <1>5 DEF Results
  <1> QED
    BY <1>1, <1>2, <1>3, <1>4, <1>5 DEF Initiations

LEMMA InitTypes == Init => PayoutTypeOK
  BY Constant DEF Init, PayoutTypeOK, Rows, Runs, Checks, Results

(* A delivery that ends keeps its claim.                                      *)
LEMMA Finished ==
  ASSUME PayoutTypeOK, NEW d \in Deliveries, Finish(d)
  PROVE  /\ runs' \in [Deliveries -> Runs]
         /\ runs'[d].at = "done" /\ runs'[d].claim = runs[d].claim
         /\ \A e \in Deliveries \ {d} : runs'[e] = runs[e]
  BY Constant DEF PayoutTypeOK, Finish, Runs, Idle

LEMMA WrittenType ==
  ASSUME NEW S, NEW old, NEW new \in S, NEW current \in S
  PROVE  Written(old, new, current) \in S
  BY DEF Written

-----------------------------------------------------------------------------
(* What is recorded as paid was paid.                                         *)

(* A row says paid, or has a reference that will be looked up as paid, only   *)
(* after a transfer; the processor's statuses are for announced claims.       *)
RowSound(c) ==
  /\ \/ rows[c].status \in {"SUCCESS", "confirmed", "processing"}
     \/ rows[c].ref = "SUCCESS"
     => transfers[c] > 0
  /\ rows[c].status \notin {"none", "failed", "confirmed", "processing"} => c \in announced

RunSound(d) ==
  /\ runs[d].at # "idle" => runs[d].claim \in announced
  /\ /\ runs[d].at \in {"record", "emit"}
     /\ runs[d].answer.status = "SUCCESS" \/ runs[d].answer.ref = "SUCCESS"
     => transfers[runs[d].claim] > 0
  /\ runs[d].at \in {"resume", "call", "record"} => runs[d].copy.status # "SUCCESS"
  /\ runs[d].at = "emit" /\ runs[d].answer.status = "SUCCESS" => runs[d].claim \in succeeded

JobSound(j) ==
  \A c \in Claims :
    /\ jobs[j].copy[c].status = "UNCERTAIN" => c \in announced
    /\ jobs[j].copy[c].ref = "SUCCESS" => transfers[c] > 0
    /\ jobs[j].answer[c] = "SUCCESS" => transfers[c] > 0 /\ c \in announced

RetrySound(a) ==
  /\ retries[a].at \in {"read", "called"} => retries[a].claim \in Claims
  /\ retries[a].at = "called" => transfers[retries[a].claim] > 0

PayoutInv ==
  /\ PayoutTypeOK
  /\ announced \subseteq Claims
  /\ \A c \in Claims : RowSound(c)
  /\ \A d \in Deliveries : RunSound(d)
  /\ \A j \in Jobs : JobSound(j)
  /\ \A a \in Retries : RetrySound(a)
  /\ completed \subseteq succeeded /\ succeeded \subseteq announced

(* Transfers, announcements and recorded successes only ever grow.            *)
Grows ==
  /\ transfers' \in [Claims -> Nat]
  /\ \A c \in Claims : transfers'[c] >= transfers[c]
  /\ announced \subseteq announced' /\ announced' \subseteq Claims
  /\ succeeded \subseteq succeeded'

LEMMA SoundStays ==
  ASSUME PayoutInv, Grows
  PROVE  /\ \A c \in Claims : rows'[c] = rows[c] => RowSound(c)'
         /\ \A c \in Claims : rows'[c].status = rows[c].status /\ rows'[c].ref = rows[c].ref => RowSound(c)'
         /\ \A d \in Deliveries : runs'[d] = runs[d] => RunSound(d)'
         /\ \A j \in Jobs : jobs'[j] = jobs[j] => JobSound(j)'
         /\ \A a \in Retries : retries'[a] = retries[a] => RetrySound(a)'
  <1>1. \A c \in Claims : transfers[c] > 0 => transfers'[c] > 0
    BY DEF PayoutInv, PayoutTypeOK, Grows
  <1>2. \A c \in Claims : rows'[c].status = rows[c].status /\ rows'[c].ref = rows[c].ref => RowSound(c)'
    BY <1>1 DEF PayoutInv, Grows, RowSound
  <1>3. ASSUME NEW d \in Deliveries, runs'[d] = runs[d] PROVE RunSound(d)'
    <2>1. RunSound(d) /\ (runs[d].at # "idle" => runs[d].claim \in Claims)
      BY DEF PayoutInv, RunSound
    <2> QED
      BY <1>1, <1>3, <2>1 DEF Grows, RunSound
  <1>4. ASSUME NEW j \in Jobs, jobs'[j] = jobs[j] PROVE JobSound(j)'
    BY <1>1, <1>4 DEF PayoutInv, Grows, JobSound
  <1>5. ASSUME NEW a \in Retries, retries'[a] = retries[a] PROVE RetrySound(a)'
    BY <1>1, <1>5 DEF PayoutInv, Grows, RetrySound
  <1> QED
    BY <1>2, <1>3, <1>4, <1>5

(* A step of one delivery, about its claim.                                   *)
LEMMA DeliveryStep ==
  ASSUME PayoutInv, NEW d \in Deliveries, NEW c \in announced,
         runs' \in [Deliveries -> Runs], runs'[d].claim = c,
         \A e \in Deliveries \ {d} : runs'[e] = runs[e],
         rows' \in [Claims -> Rows], \A x \in Claims \ {c} : rows'[x] = rows[x],
         transfers' \in [Claims -> Nat], \A x \in Claims : transfers'[x] >= transfers[x],
         RowSound(c)', RunSound(d)',
         completed' \subseteq succeeded', succeeded \subseteq succeeded', succeeded' \subseteq announced,
         contested' \subseteq Claims,
         UNCHANGED <<announced, adapter, jobs, retries, exposed>>
  PROVE  PayoutInv'
  <1>1. Grows
    BY DEF Grows, PayoutInv
  <1>2. \A e \in Deliveries : RunSound(e)'
    BY <1>1, SoundStays
  <1>3. \A x \in Claims : RowSound(x)'
    BY <1>1, SoundStays
  <1>4. (\A j \in Jobs : JobSound(j)') /\ (\A a \in Retries : RetrySound(a)')
    BY <1>1, SoundStays
  <1>5. PayoutTypeOK'
    BY DEF PayoutTypeOK, PayoutInv
  <1>6. announced' \subseteq Claims
    BY DEF PayoutInv
  <1> QED
    BY <1>2, <1>3, <1>4, <1>5, <1>6 DEF PayoutInv

LEMMA InitPayoutInv == Init => PayoutInv
  <1> SUFFICES ASSUME Init PROVE PayoutInv
    OBVIOUS
  <1>1. PayoutTypeOK
    BY InitTypes
  <1>2. announced = {} /\ completed = {} /\ succeeded = {}
    BY DEF Init, ReviewInit
  <1>3. \A c \in Claims : RowSound(c)
    <2> SUFFICES ASSUME NEW c \in Claims PROVE RowSound(c)
      OBVIOUS
    <2>1. rows[c].status \in {"failed", "none"} /\ rows[c].ref = None
      BY DEF Init, NoRow
    <2> QED
      BY <2>1, Constant DEF RowSound, Results
  <1>4. \A d \in Deliveries : RunSound(d)
    BY Constant DEF Init, RunSound
  <1>5. \A j \in Jobs : JobSound(j)
    BY Constant DEF Init, JobSound, Results
  <1>6. \A a \in Retries : RetrySound(a)
    BY DEF Init, RetrySound
  <1> QED
    BY <1>1, <1>2, <1>3, <1>4, <1>5, <1>6 DEF PayoutInv

(* Where a delivery stands, for the steps below.                              *)
LEMMA Standing ==
  ASSUME PayoutInv, NEW d \in Deliveries
  PROVE  /\ rows \in [Claims -> Rows] /\ runs \in [Deliveries -> Runs]
         /\ transfers \in [Claims -> Nat]
         /\ RunSound(d)
         /\ runs[d].at # "idle" => /\ runs[d].claim \in Claims /\ runs[d].claim \in announced
                                   /\ RowSound(runs[d].claim)
         /\ \A c \in Claims : rows[c] \in Rows /\ transfers[c] \in Nat /\ transfers[c] >= transfers[c]
         /\ contested \subseteq Claims
         /\ completed \subseteq succeeded /\ succeeded \subseteq announced
  BY DEF PayoutInv, PayoutTypeOK, RunSound

LEMMA ReceiveStep ==
  ASSUME PayoutInv, NEW d \in Deliveries, NEW c \in Claims, Receive(d, c)
  PROVE  PayoutInv'
  <1>1. /\ c \in announced
        /\ runs' = [runs EXCEPT ![d].at = "look", ![d].claim = c]
        /\ UNCHANGED <<announced, adapter, rows, transfers, jobs, retries, history>>
    BY DEF Receive, reviewVars
  <1>2. /\ runs' \in [Deliveries -> Runs]
        /\ runs'[d].at = "look" /\ runs'[d].claim = c
        /\ \A e \in Deliveries \ {d} : runs'[e] = runs[e]
    BY <1>1, Standing DEF Runs
  <1>3. RowSound(c)' /\ RunSound(d)'
    BY <1>1, <1>2 DEF RowSound, RunSound, PayoutInv
  <1> QED
    BY <1>1, <1>2, <1>3, Standing, DeliveryStep DEF history

(* A delivery ends and leaves the payout as it is.                            *)
LEMMA EndStep ==
  ASSUME PayoutInv, NEW d \in Deliveries, NEW c, c = runs[d].claim, runs[d].at # "idle", Finish(d),
         contested' \subseteq Claims, completed' \subseteq succeeded,
         UNCHANGED <<announced, adapter, rows, transfers, jobs, retries, succeeded, exposed>>
  PROVE  PayoutInv'
  <1>1. c \in Claims /\ c \in announced
    BY Standing
  <1>2. /\ runs' \in [Deliveries -> Runs]
        /\ runs'[d].at = "done" /\ runs'[d].claim = c
        /\ \A e \in Deliveries \ {d} : runs'[e] = runs[e]
    BY Finished DEF PayoutInv
  <1>3. RowSound(c)' /\ RunSound(d)'
    BY <1>1, <1>2, Standing DEF RowSound, RunSound
  <1> QED
    BY <1>1, <1>2, <1>3, Standing, DeliveryStep

LEMMA LookStep ==
  ASSUME PayoutInv, NEW d \in Deliveries, NEW c, c = runs[d].claim, Look(d)
  PROVE  PayoutInv'
  <1>1. /\ runs[d].at = "look"
        /\ UNCHANGED <<announced, adapter, transfers, jobs, retries, completed, succeeded, exposed>>
    BY DEF Look, At, reviewVars
  <1>2. c \in Claims /\ c \in announced /\ rows[c] \in Rows
    BY <1>1, Standing
  <1>3. contested' \subseteq Claims
    BY <1>2, Standing DEF Look, NoteContested
  <1>4. \/ Finish(d) /\ UNCHANGED rows
        \/ /\ rows' = [rows EXCEPT ![c].status = "UNCERTAIN"]
           /\ runs' = [runs EXCEPT ![d].at = "resume", ![d].copy = [rows[c] EXCEPT !.status = "UNCERTAIN"]]
        \/ /\ ~Handled(rows[c])
           /\ runs' = [runs EXCEPT ![d].at = "resume", ![d].copy = rows[c]]
           /\ UNCHANGED rows
        \/ Move(d, "insert") /\ UNCHANGED rows
    BY DEF Look
  <1>5. CASE Finish(d) /\ UNCHANGED rows
    BY <1>1, <1>3, <1>5, Standing, EndStep
  <1>6. CASE /\ rows' = [rows EXCEPT ![c].status = "UNCERTAIN"]
             /\ runs' = [runs EXCEPT ![d].at = "resume",
                                     ![d].copy = [rows[c] EXCEPT !.status = "UNCERTAIN"]]
    <2>1. /\ rows' \in [Claims -> Rows]
          /\ rows'[c].status = "UNCERTAIN" /\ rows'[c].ref = rows[c].ref
          /\ \A x \in Claims \ {c} : rows'[x] = rows[x]
      BY <1>2, <1>6, Standing DEF Rows, Results
    <2> DEFINE row == [rows[c] EXCEPT !.status = "UNCERTAIN"]
    <2>3. row \in Rows /\ row.status = "UNCERTAIN"
      BY <1>2 DEF Rows, Results
    <2>4. runs' = [runs EXCEPT ![d].at = "resume", ![d].copy = row]
      BY <1>6
    <2> HIDE DEF row
    <2>5. /\ runs' \in [Deliveries -> Runs]
          /\ runs'[d].at = "resume" /\ runs'[d].claim = c /\ runs'[d].copy = row
          /\ \A e \in Deliveries \ {d} : runs'[e] = runs[e]
      BY <2>3, <2>4, Standing DEF Runs
    <2>6. RowSound(c)' /\ RunSound(d)'
      BY <1>1, <1>2, <2>1, <2>3, <2>5, Standing DEF RowSound, RunSound, PayoutInv
    <2> QED
      BY <1>1, <1>2, <1>3, <2>1, <2>5, <2>6, Standing, DeliveryStep
  <1>7. CASE /\ ~Handled(rows[c])
             /\ runs' = [runs EXCEPT ![d].at = "resume", ![d].copy = rows[c]]
             /\ UNCHANGED rows
    <2>1. /\ runs' \in [Deliveries -> Runs]
          /\ runs'[d].at = "resume" /\ runs'[d].claim = c /\ runs'[d].copy = rows[c]
          /\ \A e \in Deliveries \ {d} : runs'[e] = runs[e]
      BY <1>2, <1>7, Standing DEF Runs
    <2>2. rows[c].status # "SUCCESS"
      BY <1>7 DEF Handled
    <2>3. RowSound(c)' /\ RunSound(d)'
      BY <1>1, <1>2, <1>7, <2>1, <2>2, Standing DEF RowSound, RunSound, PayoutInv
    <2> QED
      BY <1>1, <1>2, <1>3, <1>7, <2>1, <2>3, Standing, DeliveryStep
  <1>8. CASE Move(d, "insert") /\ UNCHANGED rows
    <2>1. /\ runs' \in [Deliveries -> Runs]
          /\ runs'[d].at = "insert" /\ runs'[d].claim = c
          /\ \A e \in Deliveries \ {d} : runs'[e] = runs[e]
      BY <1>8, Standing DEF Runs, Move
    <2>2. RowSound(c)' /\ RunSound(d)'
      BY <1>1, <1>2, <1>8, <2>1, Standing DEF RowSound, RunSound, PayoutInv
    <2> QED
      BY <1>1, <1>2, <1>3, <1>8, <2>1, <2>2, Standing, DeliveryStep
  <1> QED
    BY <1>4, <1>5, <1>6, <1>7, <1>8

LEMMA InsertStep ==
  ASSUME PayoutInv, NEW d \in Deliveries, NEW c, c = runs[d].claim, Insert(d)
  PROVE  PayoutInv'
  <1>1. /\ runs[d].at = "insert"
        /\ UNCHANGED <<announced, adapter, transfers, jobs, retries, completed, succeeded, exposed>>
    BY DEF Insert, At, reviewVars
  <1>2. c \in Claims /\ c \in announced /\ rows[c] \in Rows
    BY <1>1, Standing
  <1>3. contested' \subseteq Claims
    BY <1>2, Standing DEF Insert, NoteContested
  <1> DEFINE fresh == [NoRow EXCEPT !.status = "PENDING"]
  <1>4. fresh \in Rows /\ fresh.status = "PENDING" /\ fresh.ref = None
    BY Constant DEF Rows, NoRow
  <1>5. \/ /\ rows' = [rows EXCEPT ![c] = fresh]
           /\ runs' = [runs EXCEPT ![d].at = "call", ![d].copy = fresh]
        \/ Finish(d) /\ UNCHANGED rows
        \/ /\ rows[c].status # "SUCCESS"
           /\ runs' = [runs EXCEPT ![d].at = "call", ![d].copy = rows[c], ![d].silent = TRUE]
           /\ UNCHANGED rows
    BY DEF Insert
  <1> HIDE DEF fresh
  <1>6. CASE /\ rows' = [rows EXCEPT ![c] = fresh]
             /\ runs' = [runs EXCEPT ![d].at = "call", ![d].copy = fresh]
    <2>1. /\ rows' \in [Claims -> Rows]
          /\ rows'[c] = fresh
          /\ \A x \in Claims \ {c} : rows'[x] = rows[x]
      BY <1>2, <1>4, <1>6, Standing
    <2>2. /\ runs' \in [Deliveries -> Runs]
          /\ runs'[d].at = "call" /\ runs'[d].claim = c /\ runs'[d].copy = fresh
          /\ \A e \in Deliveries \ {d} : runs'[e] = runs[e]
      BY <1>4, <1>6, Standing DEF Runs
    <2>3. RowSound(c)' /\ RunSound(d)'
      BY <1>1, <1>2, <1>4, <2>1, <2>2, Constant DEF RowSound, RunSound, Results
    <2> QED
      BY <1>1, <1>2, <1>3, <2>1, <2>2, <2>3, Standing, DeliveryStep
  <1>7. CASE Finish(d) /\ UNCHANGED rows
    BY <1>1, <1>3, <1>7, Standing, EndStep
  <1>8. CASE /\ rows[c].status # "SUCCESS"
             /\ runs' = [runs EXCEPT ![d].at = "call", ![d].copy = rows[c], ![d].silent = TRUE]
             /\ UNCHANGED rows
    <2>1. /\ runs' \in [Deliveries -> Runs]
          /\ runs'[d].at = "call" /\ runs'[d].claim = c /\ runs'[d].copy = rows[c]
          /\ \A e \in Deliveries \ {d} : runs'[e] = runs[e]
      <3> DEFINE run == [runs[d] EXCEPT !.at = "call", !.copy = rows[c], !.silent = TRUE]
      <3>1. run \in Runs
        BY <1>2, Standing DEF Runs
      <3>2. run.at = "call" /\ run.claim = c /\ run.copy = rows[c]
        BY <1>2, Standing DEF Runs
      <3>3. runs' = [runs EXCEPT ![d] = run]
        BY <1>8, Standing
      <3> HIDE DEF run
      <3> QED
        BY <3>1, <3>2, <3>3, Standing
    <2>2. RowSound(c)' /\ RunSound(d)'
      BY <1>1, <1>2, <1>8, <2>1, Standing DEF RowSound, RunSound, PayoutInv
    <2> QED
      BY <1>1, <1>2, <1>3, <1>8, <2>1, <2>2, Standing, DeliveryStep
  <1> QED
    BY <1>5, <1>6, <1>7, <1>8

LEMMA ResumeStep ==
  ASSUME PayoutInv, NEW d \in Deliveries, NEW c, c = runs[d].claim, Resume(d)
  PROVE  PayoutInv'
  <1>1. /\ runs[d].at = "resume"
        /\ rows' = [rows EXCEPT ![c].status = "PENDING"]
        /\ runs' = [runs EXCEPT ![d].at = "call", ![d].copy.status = "PENDING"]
        /\ UNCHANGED <<announced, adapter, transfers, jobs, retries, history>>
    BY DEF Resume, At, reviewVars
  <1>2. c \in Claims /\ c \in announced /\ rows[c] \in Rows /\ runs[d].copy \in Rows
    BY <1>1, Standing DEF Runs
  <1>3. /\ rows' \in [Claims -> Rows]
        /\ rows'[c].status = "PENDING" /\ rows'[c].ref = rows[c].ref
        /\ \A x \in Claims \ {c} : rows'[x] = rows[x]
    BY <1>1, <1>2, Standing DEF Rows
  <1>4. /\ runs' \in [Deliveries -> Runs]
        /\ runs'[d].at = "call" /\ runs'[d].claim = c /\ runs'[d].copy.status = "PENDING"
        /\ \A e \in Deliveries \ {d} : runs'[e] = runs[e]
    <2> DEFINE copy == [runs[d].copy EXCEPT !.status = "PENDING"]
               run == [runs[d] EXCEPT !.at = "call", !.copy = copy]
    <2>1. copy \in Rows /\ copy.status = "PENDING"
      BY <1>2 DEF Rows
    <2>2. runs[d] \in Runs
      BY Standing
    <2>3. runs' = [runs EXCEPT ![d] = run]
      BY <1>1, Standing DEF Runs
    <2> HIDE DEF copy
    <2>4. run \in Runs /\ run.at = "call" /\ run.claim = c /\ run.copy.status = "PENDING"
      BY <2>1, <2>2 DEF Runs
    <2> HIDE DEF run
    <2> QED
      BY <2>3, <2>4, Standing
  <1>5. RowSound(c)' /\ RunSound(d)'
    BY <1>1, <1>2, <1>3, <1>4, Standing DEF RowSound, RunSound, PayoutInv
  <1> QED
    BY <1>1, <1>2, <1>3, <1>4, <1>5, Standing, DeliveryStep DEF history

LEMMA CallGatewayStep ==
  ASSUME PayoutInv, NEW d \in Deliveries, NEW c, c = runs[d].claim, CallGateway(d)
  PROVE  PayoutInv'
  <1>1. PICK i \in Initiations :
           /\ runs' = [runs EXCEPT ![d].at = "record", ![d].answer = [status |-> i.status, ref |-> i.ref]]
           /\ transfers' = [transfers EXCEPT ![c] = IF i.paid /\ @ = 0 THEN 1 ELSE @]
    BY DEF CallGateway
  <1>2. /\ runs[d].at = "call"
        /\ UNCHANGED <<announced, adapter, rows, jobs, retries, history>>
    BY DEF CallGateway, At, reviewVars
  <1>3. c \in Claims /\ c \in announced /\ rows[c] \in Rows /\ transfers[c] \in Nat
    BY <1>2, Standing
  <1>4. [status |-> i.status, ref |-> i.ref] \in Answers
    BY InitiationTypes DEF Answers
  <1>5. /\ runs' \in [Deliveries -> Runs]
        /\ runs'[d].at = "record" /\ runs'[d].claim = c /\ runs'[d].copy = runs[d].copy
        /\ runs'[d].answer.status = i.status /\ runs'[d].answer.ref = i.ref
        /\ \A e \in Deliveries \ {d} : runs'[e] = runs[e]
    BY <1>1, <1>3, <1>4, Standing DEF Runs
  <1>6. /\ transfers' \in [Claims -> Nat]
        /\ \A x \in Claims : transfers'[x] >= transfers[x]
        /\ i.paid = TRUE => transfers'[c] > 0
        /\ transfers[c] > 0 => transfers'[c] > 0
    BY <1>1, <1>3, Standing
  <1>7. RowSound(c)'
    BY <1>2, <1>3, <1>6, Standing DEF RowSound, PayoutInv
  <1>8. RunSound(d)'
    BY <1>2, <1>3, <1>5, <1>6, InitiationTypes, Standing DEF RunSound
  <1> QED
    BY <1>2, <1>3, <1>5, <1>6, <1>7, <1>8, Standing, DeliveryStep DEF history

LEMMA RecordStep ==
  ASSUME PayoutInv, NEW d \in Deliveries, NEW c, c = runs[d].claim, Record(d)
  PROVE  PayoutInv'
  <1> DEFINE copy == runs[d].copy
             answer == runs[d].answer
             status == Written(copy.status, answer.status, rows[c].status)
             ref == Written(copy.ref, answer.ref, rows[c].ref)
  <1>1. /\ runs[d].at = "record"
        /\ rows' = [rows EXCEPT ![c].status = status, ![c].ref = ref]
        /\ succeeded' = IF status = "SUCCESS" THEN succeeded \cup {c} ELSE succeeded
        /\ IF runs[d].silent THEN Finish(d) ELSE Move(d, "emit")
        /\ UNCHANGED <<announced, adapter, transfers, jobs, retries, completed, contested, exposed>>
    BY DEF Record, At, reviewVars
  <1>2. c \in Claims /\ c \in announced /\ rows[c] \in Rows /\ answer \in Answers /\ RowSound(c)
    BY <1>1, Standing DEF Runs
  <1>3. status \in Results \cup {"none", "PENDING", "failed", "confirmed", "processing"}
    BY <1>2 DEF Written, Rows, Answers
  <1>4. ref \in Results \cup {None}
    BY <1>2 DEF Written, Rows, Answers
  <1>5. /\ status \in {"SUCCESS", "confirmed", "processing"} \/ ref = "SUCCESS" => transfers[c] > 0
        /\ answer.status = "SUCCESS" => status = "SUCCESS"
        /\ status \notin {"none", "failed", "confirmed", "processing"} => c \in announced
    <2>1. /\ answer.status = "SUCCESS" \/ answer.ref = "SUCCESS" => transfers[c] > 0
          /\ copy.status # "SUCCESS"
      BY <1>1, Standing DEF RunSound
    <2>2. answer.status \in Results
      BY <1>2 DEF Answers
    <2> QED
      BY <1>2, <2>1, <2>2 DEF Written, RowSound, Results
  <1> HIDE DEF status, ref
  <1>6. /\ rows' \in [Claims -> Rows]
        /\ rows'[c].status = status /\ rows'[c].ref = ref
        /\ \A x \in Claims \ {c} : rows'[x] = rows[x]
    BY <1>1, <1>2, <1>3, <1>4, Standing DEF Rows
  <1>7. /\ runs' \in [Deliveries -> Runs]
        /\ runs'[d].claim = c
        /\ runs'[d].at = "done" \/ (runs'[d].at = "emit" /\ runs'[d].answer = answer)
        /\ \A e \in Deliveries \ {d} : runs'[e] = runs[e]
    <2>1. CASE Finish(d)
      BY <2>1, Finished DEF PayoutInv
    <2>2. CASE Move(d, "emit")
      BY <2>2, Standing DEF Move, Runs
    <2> QED
      BY <1>1, <2>1, <2>2
  <1>8. /\ succeeded \subseteq succeeded' /\ succeeded' \subseteq announced
        /\ completed' \subseteq succeeded'
        /\ status = "SUCCESS" => c \in succeeded'
    BY <1>1, <1>2, Standing
  <1>9. RowSound(c)'
    BY <1>1, <1>2, <1>5, <1>6 DEF RowSound
  <1>10. RunSound(d)'
    BY <1>1, <1>2, <1>5, <1>7, <1>8, Standing DEF RunSound
  <1> QED
    BY <1>1, <1>2, <1>6, <1>7, <1>8, <1>9, <1>10, Standing, DeliveryStep

LEMMA ProcessStep ==
  ASSUME PayoutInv, NEW d \in Deliveries, Process(d) \/ DeliveryFails(d)
  PROVE  PayoutInv'
  <1>1. CASE Emit(d)
    <2>1. completed' \subseteq succeeded
      BY <1>1, Standing DEF Emit, At, RunSound
    <2> QED
      BY <1>1, <2>1, Standing, EndStep DEF Emit, At, reviewVars
  <1>2. CASE DeliveryFails(d)
    BY <1>2, Standing, EndStep DEF DeliveryFails, reviewVars, history
  <1> QED
    BY <1>1, <1>2, ReceiveStep, LookStep, InsertStep, ResumeStep, CallGatewayStep, RecordStep
    DEF Process

(* What the gateway says it made, it made.                                    *)
LEMMA LookupTruthful ==
  ASSUME NEW c, NEW ref, "SUCCESS" \in Lookup(c, ref), ref = "SUCCESS" => transfers[c] > 0
  PROVE  transfers[c] > 0
  BY DEF Lookup

(* A step of one reconciliation that commits nothing.                         *)
LEMMA JobStep ==
  ASSUME PayoutInv, NEW j \in Jobs, jobs' \in [Jobs -> Checks],
         \A k \in Jobs \ {j} : jobs'[k] = jobs[k], JobSound(j)', contested' \subseteq Claims,
         UNCHANGED <<announced, adapter, rows, transfers, runs, retries, completed, succeeded, exposed>>
  PROVE  PayoutInv'
  <1>1. Grows
    BY DEF Grows, PayoutInv, PayoutTypeOK
  <1>2. \A k \in Jobs : JobSound(k)'
    BY <1>1, SoundStays
  <1>3. PayoutTypeOK'
    BY DEF PayoutTypeOK, PayoutInv
  <1> QED
    BY <1>1, <1>2, <1>3, SoundStays DEF PayoutInv

IdleJob == [at |-> "idle", copy |-> [c \in Claims |-> NoRow],
            answer |-> [c \in Claims |-> "UNCERTAIN"], verified |-> {}]

LEMMA IdleJobSound ==
  /\ IdleJob \in Checks /\ IdleJob.at = "idle"
  /\ \A c \in Claims : /\ IdleJob.copy[c].status = "none" /\ IdleJob.copy[c].ref = None
                       /\ IdleJob.answer[c] = "UNCERTAIN"
  /\ None # "SUCCESS"
  BY Constant DEF IdleJob, Checks, Results

LEMMA LoadUncertainStep ==
  ASSUME PayoutInv, NEW j \in Jobs, LoadUncertain(j)
  PROVE  PayoutInv'
  <1> DEFINE copy == [c \in Claims |-> IF c \in Due(rows) THEN rows[c] ELSE NoRow]
  <1>1. /\ jobs' = [jobs EXCEPT ![j].at = "loaded", ![j].copy = copy]
        /\ contested' = contested \cup {c \in Due(rows) : InFlight(c)}
        /\ UNCHANGED <<announced, adapter, rows, transfers, runs, retries, completed, succeeded, exposed>>
    BY DEF LoadUncertain, NoteContested, reviewVars
  <1>2. jobs \in [Jobs -> Checks] /\ rows \in [Claims -> Rows] /\ contested \subseteq Claims
    BY DEF PayoutInv, PayoutTypeOK
  <1>3. copy \in [Claims -> Rows]
    BY <1>2, Constant
  <1>4. \A c \in Claims : /\ copy[c].status = "UNCERTAIN" => c \in announced
                          /\ copy[c].ref = "SUCCESS" => transfers[c] > 0
    BY Constant, <1>2 DEF Due, PayoutInv, RowSound, Results
  <1> HIDE DEF copy
  <1>5. /\ jobs' \in [Jobs -> Checks]
        /\ jobs'[j].copy = copy /\ jobs'[j].answer = jobs[j].answer
        /\ \A k \in Jobs \ {j} : jobs'[k] = jobs[k]
    <2> DEFINE loaded == [jobs[j] EXCEPT !.at = "loaded", !.copy = copy]
    <2>1. jobs' = [jobs EXCEPT ![j] = loaded]
      BY <1>1, <1>2 DEF Checks
    <2>2. loaded \in Checks /\ loaded.copy = copy /\ loaded.answer = jobs[j].answer
      BY <1>2, <1>3 DEF Checks
    <2> HIDE DEF loaded
    <2> QED
      BY <1>2, <2>1, <2>2
  <1>6. JobSound(j)'
    BY <1>1, <1>4, <1>5 DEF JobSound, PayoutInv
  <1>7. contested' \subseteq Claims
    BY <1>1, <1>2 DEF Due
  <1> QED
    BY <1>1, <1>5, <1>6, <1>7, JobStep

LEMMA CheckGatewayStep ==
  ASSUME PayoutInv, NEW j \in Jobs, CheckGateway(j)
  PROVE  PayoutInv'
  <1>1. PICK answer \in [Claims -> Results], verified \in SUBSET Reviewable :
            CheckWith(j, answer, verified)
    BY DEF CheckGateway
  <1>2. /\ jobs' = [jobs EXCEPT ![j].at = "checked", ![j].answer = answer, ![j].verified = verified]
        /\ UNCHANGED <<announced, adapter, rows, transfers, runs, retries, history>>
    BY <1>1 DEF CheckWith, reviewVars
  <1>3. jobs \in [Jobs -> Checks] /\ contested \subseteq Claims /\ JobSound(j)
    BY DEF PayoutInv, PayoutTypeOK
  <1>4. /\ jobs' \in [Jobs -> Checks]
        /\ jobs'[j].copy = jobs[j].copy /\ jobs'[j].answer = answer
        /\ \A k \in Jobs \ {j} : jobs'[k] = jobs[k]
    <2>1. verified \in SUBSET Claims
      BY DEF Reviewable
    <2>2. [jobs[j] EXCEPT !.at = "checked", !.answer = answer, !.verified = verified] \in Checks
      BY <1>3, <2>1 DEF Checks
    <2> QED
      BY <1>2, <1>3, <2>2 DEF Checks
  <1>5. ASSUME NEW c \in Claims, answer[c] = "SUCCESS"
        PROVE  transfers[c] > 0 /\ c \in announced
    <2>1. c \in Due(jobs[j].copy) /\ "SUCCESS" \in Lookup(c, jobs[j].copy[c].ref)
      BY <1>1, <1>5 DEF CheckWith
    <2> QED
      BY <1>3, <2>1, LookupTruthful DEF Due, JobSound
  <1>6. JobSound(j)'
    BY <1>2, <1>3, <1>4, <1>5 DEF JobSound
  <1> QED
    BY <1>2, <1>3, <1>4, <1>6, JobStep DEF history

LEMMA CommitReconciliationStep ==
  ASSUME PayoutInv, NEW j \in Jobs, CommitReconciliation(j)
  PROVE  PayoutInv'
  <1>1. /\ rows' = [c \in Claims |-> Reconciled(j, c)]
        /\ succeeded' = succeeded \cup {c \in Due(jobs[j].copy) : jobs[j].answer[c] = "SUCCESS"}
        /\ jobs' = [jobs EXCEPT ![j] = IdleJob]
        /\ UNCHANGED <<announced, adapter, transfers, runs, retries, completed, contested, exposed>>
    BY DEF CommitReconciliation, IdleJob, reviewVars
  <1>2. /\ jobs \in [Jobs -> Checks] /\ rows \in [Claims -> Rows] /\ transfers \in [Claims -> Nat]
        /\ JobSound(j) /\ jobs[j].answer \in [Claims -> Results]
        /\ completed \subseteq succeeded /\ succeeded \subseteq announced /\ announced \subseteq Claims
    BY DEF PayoutInv, PayoutTypeOK, Checks
  <1>3. /\ succeeded \subseteq succeeded' /\ succeeded' \subseteq announced
        /\ completed' \subseteq succeeded' /\ succeeded' \subseteq Claims
    BY <1>1, <1>2 DEF Due, JobSound
  <1>4. Grows
    BY <1>1, <1>2, <1>3 DEF Grows
  <1>5. ASSUME NEW c \in Claims
        PROVE  /\ Reconciled(j, c) \in Rows
               /\ Reconciled(j, c).ref = rows[c].ref
               /\ \/ Reconciled(j, c).status = rows[c].status
                  \/ /\ c \in announced
                     /\ Reconciled(j, c).status \in Results
                     /\ Reconciled(j, c).status = "SUCCESS" => transfers[c] > 0
    <2> DEFINE due == c \in Due(jobs[j].copy)
               status == IF due THEN Written("UNCERTAIN", jobs[j].answer[c], rows[c].status)
                                ELSE rows[c].status
               mark == (IF due /\ (\/ jobs[j].answer[c] # "UNCERTAIN"
                                   \/ jobs[j].copy[c].age >= EscalateAge)
                        THEN Written(jobs[j].copy[c].reconciled, jobs[j].answer[c] # "UNCERTAIN",
                                     rows[c].reconciled)
                        ELSE rows[c].reconciled) \/ c \in jobs[j].verified
    <2>1. Reconciled(j, c) = [rows[c] EXCEPT !.status = status, !.reconciled = mark]
      BY <1>2 DEF Reconciled, Rows
    <2>2. mark \in BOOLEAN
      OBVIOUS
    <2>3. \/ status = rows[c].status
          \/ /\ c \in announced /\ status \in Results
             /\ status = "SUCCESS" => transfers[c] > 0
      BY <1>2 DEF Due, JobSound, Written
    <2> HIDE DEF status, mark
    <2>4. rows[c] \in Rows /\ status \in Results \cup {"none", "PENDING", "failed", "confirmed", "processing"}
      BY <1>2, <2>3 DEF Rows
    <2> QED
      BY <2>1, <2>2, <2>3, <2>4 DEF Rows
  <1>6. \A c \in Claims : RowSound(c)'
    <2> SUFFICES ASSUME NEW c \in Claims PROVE RowSound(c)'
      OBVIOUS
    <2>1. rows'[c] = Reconciled(j, c) /\ RowSound(c)
      BY <1>1 DEF PayoutInv
    <2> QED
      BY <1>1, <1>5, <2>1 DEF RowSound, Results
  <1>7. rows' \in [Claims -> Rows]
    BY <1>1, <1>5
  <1>8. /\ jobs' \in [Jobs -> Checks] /\ jobs'[j] = IdleJob
        /\ \A k \in Jobs \ {j} : jobs'[k] = jobs[k]
    BY <1>1, <1>2, IdleJobSound
  <1>9. JobSound(j)'
    BY <1>8, IdleJobSound DEF JobSound
  <1>10. /\ \A k \in Jobs : JobSound(k)'
         /\ \A d \in Deliveries : RunSound(d)'
         /\ \A a \in Retries : RetrySound(a)'
    BY <1>1, <1>4, <1>8, <1>9, SoundStays
  <1>11. PayoutTypeOK'
    BY <1>1, <1>3, <1>7, <1>8 DEF PayoutTypeOK, PayoutInv
  <1> QED
    BY <1>1, <1>2, <1>3, <1>6, <1>10, <1>11 DEF PayoutInv

LEMMA ReconcileStep ==
  ASSUME PayoutInv, NEW j \in Jobs, Reconcile(j) \/ ReconciliationFails(j)
  PROVE  PayoutInv'
  <1>1. CASE ReconciliationFails(j)
    <2>1. /\ jobs' = [jobs EXCEPT ![j] = IdleJob]
          /\ UNCHANGED <<announced, adapter, rows, transfers, runs, retries, history>>
      BY <1>1 DEF ReconciliationFails, IdleJob, reviewVars
    <2>2. jobs \in [Jobs -> Checks] /\ contested \subseteq Claims
      BY DEF PayoutInv, PayoutTypeOK
    <2>3. /\ jobs' \in [Jobs -> Checks] /\ jobs'[j] = IdleJob
          /\ \A k \in Jobs \ {j} : jobs'[k] = jobs[k]
      BY <2>1, <2>2, IdleJobSound
    <2>4. JobSound(j)'
      BY <2>3, IdleJobSound DEF JobSound
    <2> QED
      BY <2>1, <2>2, <2>3, <2>4, JobStep DEF history
  <1> QED
    BY <1>1, LoadUncertainStep, CheckGatewayStep, CommitReconciliationStep DEF Reconcile

RetryStates == [at: {"idle", "read", "called", "done"}, claim: Claims \cup {None},
                result: {"confirmed", "processing"}]

(* A step of one retry, about its claim.                                      *)
LEMMA RetryStep ==
  ASSUME PayoutInv, NEW a \in Retries, NEW c \in Claims,
         retries' \in [Retries -> RetryStates],
         \A b \in Retries \ {a} : retries'[b] = retries[b], RetrySound(a)',
         rows' \in [Claims -> Rows], \A x \in Claims \ {c} : rows'[x] = rows[x], RowSound(c)',
         transfers' \in [Claims -> Nat], \A x \in Claims : transfers'[x] >= transfers[x],
         exposed' \subseteq Claims,
         UNCHANGED <<announced, adapter, runs, jobs, completed, succeeded, contested>>
  PROVE  PayoutInv'
  <1>1. Grows
    BY DEF Grows, PayoutInv
  <1>2. (\A b \in Retries : RetrySound(b)') /\ (\A x \in Claims : RowSound(x)')
    BY <1>1, SoundStays
  <1>3. PayoutTypeOK'
    BY DEF PayoutTypeOK, PayoutInv, RetryStates
  <1> QED
    BY <1>1, <1>2, <1>3, SoundStays DEF PayoutInv

LEMMA RetriesStep ==
  ASSUME PayoutInv, NEW a \in Retries, Retry(a)
  PROVE  PayoutInv'
  <1>1. /\ retries \in [Retries -> RetryStates] /\ rows \in [Claims -> Rows]
        /\ transfers \in [Claims -> Nat] /\ exposed \subseteq Claims
        /\ RetrySound(a) /\ \A c \in Claims : RowSound(c)
    BY DEF PayoutInv, PayoutTypeOK, RetryStates
  <1>2. ASSUME NEW c \in Claims, ReadForRetry(a, c) PROVE PayoutInv'
    <2>1. /\ retries' = [retries EXCEPT ![a].at = "read", ![a].claim = c]
          /\ exposed' \subseteq Claims
          /\ UNCHANGED <<announced, adapter, rows, transfers, runs, jobs, completed, succeeded, contested>>
      BY <1>1, <1>2 DEF ReadForRetry, reviewVars
    <2>2. /\ retries' \in [Retries -> RetryStates]
          /\ retries'[a].at = "read" /\ retries'[a].claim = c
          /\ \A b \in Retries \ {a} : retries'[b] = retries[b]
      BY <1>1, <2>1 DEF RetryStates
    <2>3. RetrySound(a)' /\ RowSound(c)'
      BY <1>1, <2>1, <2>2 DEF RetrySound, RowSound
    <2> QED
      BY <1>1, <2>1, <2>2, <2>3, RetryStep
  <1>3. CASE CallForRetry(a)
    <2>1. PICK result \in {"confirmed", "processing"} :
             retries' = [retries EXCEPT ![a].at = "called", ![a].result = result]
      BY <1>3 DEF CallForRetry
    <2>2. PICK c \in Claims : c = retries[a].claim
      BY <1>1, <1>3 DEF CallForRetry, RetrySound
    <2>3. /\ transfers' = [transfers EXCEPT ![c] = @ + 1]
          /\ UNCHANGED <<announced, adapter, rows, runs, jobs, history>>
      BY <1>3, <2>2 DEF CallForRetry, reviewVars
    <2>4. /\ retries' \in [Retries -> RetryStates]
          /\ retries'[a].at = "called" /\ retries'[a].claim = c
          /\ \A b \in Retries \ {a} : retries'[b] = retries[b]
      BY <1>1, <2>1, <2>2 DEF RetryStates
    <2>5. /\ transfers' \in [Claims -> Nat] /\ transfers'[c] > 0
          /\ \A x \in Claims : transfers'[x] >= transfers[x]
      BY <1>1, <2>3
    <2>6. RetrySound(a)' /\ RowSound(c)'
      BY <1>1, <2>3, <2>4, <2>5 DEF RetrySound, RowSound
    <2> QED
      BY <1>1, <2>3, <2>4, <2>5, <2>6, RetryStep DEF history
  <1>4. CASE CommitRetry(a)
    <2>1. PICK c \in Claims : c = retries[a].claim
      BY <1>1, <1>4 DEF CommitRetry, RetrySound
    <2>2. /\ retries[a].at = "called"
          /\ rows' = [rows EXCEPT ![c].status = retries[a].result]
          /\ retries' = [retries EXCEPT ![a].at = "done"]
          /\ UNCHANGED <<announced, adapter, transfers, runs, jobs, history>>
      BY <1>4, <2>1 DEF CommitRetry, reviewVars
    <2>3. /\ retries' \in [Retries -> RetryStates] /\ retries'[a].at = "done"
          /\ \A b \in Retries \ {a} : retries'[b] = retries[b]
      BY <1>1, <2>2 DEF RetryStates
    <2>4. retries[a].result \in {"confirmed", "processing"} /\ transfers[c] > 0
      BY <1>1, <2>1, <2>2 DEF RetryStates, RetrySound
    <2>5. /\ rows' \in [Claims -> Rows]
          /\ rows'[c].status \in {"confirmed", "processing"}
          /\ \A x \in Claims \ {c} : rows'[x] = rows[x]
      BY <1>1, <2>2, <2>4 DEF Rows
    <2>6. RetrySound(a)' /\ RowSound(c)'
      BY <2>2, <2>3, <2>4, <2>5 DEF RetrySound, RowSound
    <2> QED
      BY <1>1, <2>2, <2>3, <2>5, <2>6, RetryStep DEF history
  <1>5. CASE RetryFails(a)
    <2>1. PICK c \in Claims : c = retries[a].claim
      BY <1>1, <1>5 DEF RetryFails, RetrySound
    <2>2. /\ retries' = [retries EXCEPT ![a].at = "done"]
          /\ exposed' \subseteq Claims
          /\ UNCHANGED <<announced, adapter, rows, transfers, runs, jobs, completed, succeeded, contested>>
      BY <1>1, <1>5, <2>1 DEF RetryFails, reviewVars
    <2>3. /\ retries' \in [Retries -> RetryStates] /\ retries'[a].at = "done"
          /\ \A b \in Retries \ {a} : retries'[b] = retries[b]
      BY <1>1, <2>2 DEF RetryStates
    <2>4. RetrySound(a)' /\ RowSound(c)'
      BY <1>1, <2>2, <2>3 DEF RetrySound, RowSound
    <2> QED
      BY <1>1, <2>2, <2>3, <2>4, RetryStep
  <1> QED
    BY <1>2, <1>3, <1>4, <1>5 DEF Retry

LEMMA TickStep ==
  ASSUME PayoutInv, Tick
  PROVE  PayoutInv'
  <1>1. /\ rows' = [c \in Claims |-> IF rows[c].status # "none" /\ rows[c].age < ReviewAge
                                     THEN [rows[c] EXCEPT !.age = @ + 1] ELSE rows[c]]
        /\ UNCHANGED <<announced, adapter, transfers, runs, jobs, retries, history>>
    BY DEF Tick, reviewVars
  <1>2. rows \in [Claims -> Rows]
    BY DEF PayoutInv, PayoutTypeOK
  <1>3. ASSUME NEW c \in Claims
        PROVE  rows'[c] \in Rows /\ rows'[c].status = rows[c].status /\ rows'[c].ref = rows[c].ref
    BY <1>1, <1>2, Constant DEF Rows
  <1>4. rows' \in [Claims -> Rows]
    BY <1>1, <1>3
  <1>5. Grows
    BY <1>1 DEF Grows, history, PayoutInv, PayoutTypeOK
  <1>6. PayoutTypeOK'
    BY <1>1, <1>4 DEF PayoutTypeOK, PayoutInv, history
  <1>7. \A c \in Claims : RowSound(c)'
    BY <1>3, <1>5, SoundStays
  <1>8. (\A d \in Deliveries : RunSound(d)') /\ (\A j \in Jobs : JobSound(j)')
        /\ (\A a \in Retries : RetrySound(a)')
    BY <1>1, <1>5, SoundStays
  <1> QED
    BY <1>1, <1>6, <1>7, <1>8 DEF PayoutInv, history

(* Announcements are only ever added.                                         *)
LEMMA AnnouncedGrows ==
  ASSUME QueueInv, [ReviewNext]_reviewVars
  PROVE  announced \subseteq announced' /\ announced' \subseteq Claims
  <1>1. announced \subseteq announced'
    BY DEF ReviewNext, Decide, Appeal, ReadForDecision, DecisionRaises, AdminReviewRaises,
       CommitDecision, AnnounceApproval, DecisionFails, SendAgain, ReadForAppeal, CommitAppeal,
       reviewVars
  <1>2. QueueInv'
    BY NextQueueInv
  <1>3. announced' \subseteq approved' /\ approved' \subseteq Claims
    BY <1>2 DEF QueueInv, QueueTypes, ApprovalsAnnounced
  <1> QED
    BY <1>1, <1>3

LEMMA ReviewStep ==
  ASSUME PayoutInv, QueueInv, [ReviewNext]_reviewVars, UNCHANGED payoutVars
  PROVE  PayoutInv'
  <1>1. UNCHANGED <<adapter, rows, transfers, runs, jobs, retries, completed, succeeded, contested, exposed>>
    BY DEF payoutVars, history
  <1>2. Grows
    BY <1>1, AnnouncedGrows DEF Grows, PayoutInv, PayoutTypeOK
  <1>3. PayoutTypeOK'
    BY <1>1 DEF PayoutTypeOK, PayoutInv
  <1>4. /\ \A c \in Claims : RowSound(c)'
        /\ \A d \in Deliveries : RunSound(d)'
        /\ \A j \in Jobs : JobSound(j)'
        /\ \A a \in Retries : RetrySound(a)'
    BY <1>1, <1>2, SoundStays
  <1> QED
    BY <1>1, <1>2, <1>3, <1>4, AnnouncedGrows DEF PayoutInv

LEMMA NextPayoutInv == PayoutInv /\ QueueInv /\ [Next]_vars => PayoutInv'
  <1> SUFFICES ASSUME PayoutInv, QueueInv, [Next]_vars PROVE PayoutInv'
    OBVIOUS
  <1>1. CASE (ReviewNext /\ UNCHANGED payoutVars) \/ UNCHANGED vars
    BY <1>1, ReviewStep DEF vars
  <1> QED
    BY <1>1, ProcessStep, ReconcileStep, RetriesStep, TickStep DEF Next

(* The decisions of the queue, under the payouts' specification.              *)
LEMMA QueueKept == Spec => []QueueInv
  BY SettlementImplementsQueue, QueueInvariant, PTL

LEMMA PayoutInvariant == Spec => []PayoutInv
  BY InitPayoutInv, NextPayoutInv, QueueKept, PTL DEF Spec

(* Types: for every number of deliveries, replicas and retries, whatever the  *)
(* order of their steps, a row holds a status that some writer writes.        *)
THEOREM PayoutTypeCorrect == Spec => []PayoutTypeOK
  BY PayoutInvariant, PTL DEF PayoutInv

(* RecordsTruthful: a payout is recorded as made by a delivery, a             *)
(* reconciliation or a retry only after the gateway made it, and for an       *)
(* approval that was announced.                                               *)
THEOREM RecordsAreTruthful == Spec => []RecordsTruthful
  <1>1. PayoutInv /\ QueueInv => RecordsTruthful
    BY DEF PayoutInv, QueueInv, ApprovalsAnnounced, RowSound, RecordsTruthful
  <1> QED
    BY <1>1, QueueKept, PayoutInvariant, PTL

-----------------------------------------------------------------------------
(* One claim is paid once.                                                    *)

(* A claim that the pipeline paid at once never comes to a review.            *)
NeverReviewed == \A c \in Claims : claims[c].status = "paid" => c \notin approved /\ ~Pending(c)

LEMMA NextNeverReviewed ==
  ASSUME QueueInv, NeverReviewed, [ReviewNext]_reviewVars
  PROVE  NeverReviewed' /\ \A c \in Claims : claims[c].status = "paid" => claims'[c].status = "paid"
  <1> claims \in [Claims -> [status: Statuses, fraud: Assessments]]
    BY DEF QueueInv, QueueTypes
  <1> SUFFICES ASSUME NEW c \in Claims
               PROVE  /\ claims'[c].status = "paid" => claims[c].status = "paid"
                      /\ claims[c].status = "paid" =>
                            claims'[c].status = "paid" /\ c \notin approved' /\ ~Pending(c)'
    BY DEF NeverReviewed
  <1>1. claims[c].status = "paid" => c \notin approved /\ ~Pending(c)
    BY DEF NeverReviewed
  <1>2. ASSUME NEW r \in Reviewers, NEW x \in Claims, NEW verdict \in Verdicts, ReadForDecision(r, x, verdict)
        PROVE  /\ claims'[c].status = "paid" => claims[c].status = "paid"
               /\ claims[c].status = "paid" =>
                     claims'[c].status = "paid" /\ c \notin approved' /\ ~Pending(c)'
    <2>1. /\ UNCHANGED <<claims, approved, appeals>> /\ claims[x].status = "in_review"
          /\ reviews' = [reviews EXCEPT ![r] = [at |-> "read", claim |-> x, verdict |-> verdict]]
      BY <1>2 DEF ReadForDecision
    <2>2. reviews'[r].claim = x /\ \A q \in Reviewers \ {r} : reviews'[q] = reviews[q]
      BY <2>1 DEF QueueInv, QueueTypes
    <2> QED
      BY <1>1, <2>1, <2>2 DEF Pending
  <1>3. ASSUME NEW r \in Reviewers, CommitDecision(r)
        PROVE  /\ claims'[c].status = "paid" => claims[c].status = "paid"
               /\ claims[c].status = "paid" =>
                     claims'[c].status = "paid" /\ c \notin approved' /\ ~Pending(c)'
    <2> DEFINE x == reviews[r].claim
    <2>1. /\ reviews[r].at = "read" /\ UNCHANGED appeals
          /\ claims' = [claims EXCEPT ![x].status = Decided(reviews[r].verdict)]
          /\ reviews' = [reviews EXCEPT ![r] = IF @.verdict = "APPROVE"
                                               THEN [@ EXCEPT !.at = "committed"] ELSE Answered]
          /\ approved' \subseteq approved \cup {x}
      BY <1>3 DEF CommitDecision
    <2>2. Pending(x) /\ x \in Claims
      BY <2>1 DEF Pending, QueueInv, QueueTypes
    <2>3. reviews'[r].at # "read" /\ \A q \in Reviewers \ {r} : reviews'[q] = reviews[q]
      BY <2>1, AnswerFields DEF QueueInv, QueueTypes
    <2>4. claims'[x].status # "paid" /\ (c # x => claims'[c] = claims[c])
      BY <2>1, <2>2 DEF Decided
    <2> HIDE DEF x
    <2>5. CASE c = x
      BY <1>1, <2>2, <2>4, <2>5
    <2>6. CASE c # x
      BY <1>1, <2>1, <2>3, <2>4, <2>6 DEF Pending
    <2> QED
      BY <2>5, <2>6
  <1>4. ASSUME NEW r \in Reviewers, NEW ending \in {Answered, Failed},
               reviews' = [reviews EXCEPT ![r] = ending], UNCHANGED <<claims, appeals, approved>>
        PROVE  /\ claims'[c].status = "paid" => claims[c].status = "paid"
               /\ claims[c].status = "paid" =>
                     claims'[c].status = "paid" /\ c \notin approved' /\ ~Pending(c)'
    <2>1. reviews'[r].at # "read" /\ \A q \in Reviewers \ {r} : reviews'[q] = reviews[q]
      BY <1>4, AnswerFields DEF QueueInv, QueueTypes
    <2> QED
      BY <1>1, <1>4, <2>1 DEF Pending
  <1>5. ASSUME NEW a \in Appeals, NEW x \in Claims, ReadForAppeal(a, x)
        PROVE  /\ claims'[c].status = "paid" => claims[c].status = "paid"
               /\ claims[c].status = "paid" =>
                     claims'[c].status = "paid" /\ c \notin approved' /\ ~Pending(c)'
    <2>1. /\ UNCHANGED <<claims, approved, reviews>> /\ claims[x].status \in {"rejected", "blocked"}
          /\ appeals' = [appeals EXCEPT ![a] = [at |-> "read", claim |-> x]]
      BY <1>5 DEF ReadForAppeal
    <2>2. appeals'[a].claim = x /\ \A b \in Appeals \ {a} : appeals'[b] = appeals[b]
      BY <2>1 DEF QueueInv, QueueTypes
    <2> QED
      BY <1>1, <2>1, <2>2 DEF Pending
  <1>6. ASSUME NEW a \in Appeals, CommitAppeal(a)
        PROVE  /\ claims'[c].status = "paid" => claims[c].status = "paid"
               /\ claims[c].status = "paid" =>
                     claims'[c].status = "paid" /\ c \notin approved' /\ ~Pending(c)'
    <2> DEFINE x == appeals[a].claim
    <2>1. /\ appeals[a].at = "read" /\ UNCHANGED <<reviews, approved>>
          /\ claims' = [claims EXCEPT ![x].status = "in_review"]
          /\ appeals' = [appeals EXCEPT ![a].at = "done"]
      BY <1>6 DEF CommitAppeal
    <2>2. Pending(x) /\ x \in Claims
      BY <2>1 DEF Pending, QueueInv, QueueTypes
    <2>3. appeals'[a].at # "read" /\ \A b \in Appeals \ {a} : appeals'[b] = appeals[b]
      BY <2>1 DEF QueueInv, QueueTypes
    <2>4. claims'[x].status # "paid" /\ (c # x => claims'[c] = claims[c])
      BY <2>1, <2>2
    <2> HIDE DEF x
    <2>5. CASE c = x
      BY <1>1, <2>2, <2>4, <2>5
    <2>6. CASE c # x
      BY <1>1, <2>1, <2>3, <2>4, <2>6 DEF Pending
    <2> QED
      BY <2>5, <2>6
  <1>7. CASE UNCHANGED reviewVars
    BY <1>1, <1>7 DEF reviewVars, Pending
  <1> QED
    BY <1>2, <1>3, <1>4, <1>5, <1>6, <1>7 DEF ReviewNext, Decide, Appeal, DecisionRaises,
       AdminReviewRaises, AnnounceApproval, DecisionFails, SendAgain

(* The payouts that initiate_payout made, of claims paid before any review.   *)
Early(c) == rows[c].status \in {"failed", "confirmed", "processing"}

(* A claim whose retries neither overlapped nor were lost: none has called    *)
(* the gateway while the payout still reads failed.                           *)
RetriedInTurn(c) ==
  /\ transfers[c] <= 1
  /\ \A a, b \in Retrying(c) : a = b
  /\ (\E a \in Retrying(c) : retries[a].at = "read") => rows[c].status = "failed"
  /\ rows[c].status = "failed" /\ (\A a \in Retrying(c) : retries[a].at = "read") => transfers[c] = 0

EarlyPaid == \A c \in Claims : Early(c) => claims[c].status = "paid"
RetriesEarly == \A a \in Retries : retries[a].at \in {"read", "called"} => Early(retries[a].claim)

OnceInv ==
  /\ EarlyPaid
  /\ RetriesEarly
  /\ \A c \in Claims \ exposed : RetriedInTurn(c)

LEMMA InitOnceInv == Init => NeverReviewed /\ OnceInv
  <1> SUFFICES ASSUME Init PROVE NeverReviewed /\ OnceInv
    OBVIOUS
  <1>1. NeverReviewed
    BY AnswerFields DEF Init, ReviewInit, NeverReviewed, Pending
  <1>2. \A c \in Claims : rows[c].status = IF claims[c].status = "paid" THEN "failed" ELSE "none"
    BY DEF Init, NoRow
  <1>3. \A a \in Retries : retries[a].at = "idle"
    BY DEF Init
  <1>4. \A c \in Claims : transfers[c] = 0
    BY DEF Init
  <1> QED
    BY <1>1, <1>2, <1>3, <1>4 DEF OnceInv, EarlyPaid, RetriesEarly, Early, RetriedInTurn, Retrying

(* A step that is not a retry's leaves the early payouts alone.               *)
LEMMA EarlyKept ==
  ASSUME OnceInv, UNCHANGED <<retries, exposed>>,
         \A c \in Claims :
            /\ claims[c].status = "paid" => claims'[c].status = "paid"
            /\ Early(c) => rows'[c].status = rows[c].status /\ transfers'[c] = transfers[c]
            /\ ~Early(c) => ~Early(c)' /\ (transfers[c] <= 1 => transfers'[c] <= 1),
         \A a \in Retries : retries[a].at \in {"read", "called"} => retries[a].claim \in Claims
  PROVE  OnceInv'
  <1>1. EarlyPaid'
    BY DEF OnceInv, EarlyPaid
  <1>2. RetriesEarly'
    BY DEF OnceInv, RetriesEarly, Early
  <1>3. ASSUME NEW c \in Claims \ exposed' PROVE RetriedInTurn(c)'
    <2>1. RetriedInTurn(c) /\ Retrying(c)' = Retrying(c)
      BY DEF OnceInv, Retrying
    <2>2. CASE Early(c)
      BY <2>1, <2>2 DEF RetriedInTurn
    <2>3. CASE ~Early(c)
      <3>1. Retrying(c) = {}
        BY <2>3 DEF OnceInv, RetriesEarly, Retrying
      <3>2. rows'[c].status # "failed" /\ transfers'[c] <= 1
        BY <2>1, <2>3 DEF Early, RetriedInTurn
      <3> QED
        BY <2>1, <3>1, <3>2 DEF RetriedInTurn
    <2> QED
      BY <2>2, <2>3
  <1> QED
    BY <1>1, <1>2, <1>3 DEF OnceInv

(* An announced claim has no early payout.                                    *)
LEMMA AnnouncedNotEarly ==
  ASSUME QueueInv, NeverReviewed, OnceInv, NEW c \in Claims, c \in announced
  PROVE  ~Early(c)
  BY DEF QueueInv, ApprovalsAnnounced, NeverReviewed, OnceInv, EarlyPaid

LEMMA DeliveryOnce ==
  ASSUME PayoutInv, QueueInv, NeverReviewed, OnceInv, NEW d \in Deliveries, NEW c,
         c = runs[d].claim, Process(d) \/ DeliveryFails(d)
  PROVE  OnceInv'
  <1>1. /\ UNCHANGED <<claims, retries, exposed>>
        /\ rows \in [Claims -> Rows] /\ transfers \in [Claims -> Nat] /\ runs[d] \in Runs
        /\ \A a \in Retries : retries[a].at \in {"read", "called"} => retries[a].claim \in Claims
    BY DEF Process, Receive, Look, Insert, Resume, CallGateway, Record, Emit, DeliveryFails,
       reviewVars, history, PayoutInv, PayoutTypeOK, RetrySound
  <1>2. CASE UNCHANGED <<rows, transfers>>
    BY <1>1, <1>2, EarlyKept DEF Early
  <1>3. ASSUME c \in announced, c \in Claims, UNCHANGED transfers,
               NEW status \in Results \cup {"PENDING", rows[c].status},
               rows'[c].status = status, \A x \in Claims \ {c} : rows'[x] = rows[x]
        PROVE  OnceInv'
    <2>1. ~Early(c) /\ ~Early(c)'
      BY <1>3, AnnouncedNotEarly DEF Early, Results
    <2> QED
      BY <1>1, <1>3, <2>1, EarlyKept DEF Early
  <1>4. runs[d].at # "idle" => c \in announced /\ c \in Claims
    BY Standing
  <1>5. CASE Look(d)
    <2>1. runs[d].at = "look" /\ UNCHANGED transfers
      BY <1>5 DEF Look, At
    <2>2. UNCHANGED rows \/ rows' = [rows EXCEPT ![c].status = "UNCERTAIN"]
      BY <1>5 DEF Look
    <2>3. CASE rows' = [rows EXCEPT ![c].status = "UNCERTAIN"]
      <3>1. rows'[c].status = "UNCERTAIN" /\ \A x \in Claims \ {c} : rows'[x] = rows[x]
        BY <1>1, <1>4, <2>1, <2>3 DEF Rows
      <3> QED
        BY <1>3, <1>4, <2>1, <3>1 DEF Results
    <2> QED
      BY <1>2, <2>1, <2>2, <2>3
  <1>6. CASE Insert(d)
    <2>1. runs[d].at = "insert" /\ UNCHANGED transfers
      BY <1>6 DEF Insert, At
    <2>2. UNCHANGED rows \/ rows' = [rows EXCEPT ![c] = [NoRow EXCEPT !.status = "PENDING"]]
      BY <1>6 DEF Insert
    <2>3. CASE rows' = [rows EXCEPT ![c] = [NoRow EXCEPT !.status = "PENDING"]]
      <3>1. rows'[c].status = "PENDING" /\ \A x \in Claims \ {c} : rows'[x] = rows[x]
        BY <1>1, <1>4, <2>1, <2>3 DEF Rows, NoRow
      <3> QED
        BY <1>3, <1>4, <2>1, <3>1
    <2> QED
      BY <1>2, <2>1, <2>2, <2>3
  <1>7. CASE Resume(d)
    <2>1. runs[d].at = "resume" /\ UNCHANGED transfers /\ rows' = [rows EXCEPT ![c].status = "PENDING"]
      BY <1>7 DEF Resume, At
    <2>2. rows'[c].status = "PENDING" /\ \A x \in Claims \ {c} : rows'[x] = rows[x]
      BY <1>1, <1>4, <2>1 DEF Rows
    <2> QED
      BY <1>3, <1>4, <2>1, <2>2
  <1>8. CASE CallGateway(d)
    <2>1. /\ runs[d].at = "call" /\ UNCHANGED rows
          /\ \E i \in Initiations : transfers' = [transfers EXCEPT ![c] = IF i.paid /\ @ = 0 THEN 1 ELSE @]
      BY <1>8 DEF CallGateway, At
    <2>2. \/ UNCHANGED transfers
          \/ transfers' = [transfers EXCEPT ![c] = 1]
      BY <1>1, <1>4, <2>1
    <2>3. ~Early(c)
      BY <1>4, <2>1, AnnouncedNotEarly
    <2> QED
      BY <1>1, <1>4, <2>1, <2>2, <2>3, EarlyKept DEF Early
  <1>9. CASE Record(d)
    <2> DEFINE status == Written(runs[d].copy.status, runs[d].answer.status, rows[c].status)
               ref == Written(runs[d].copy.ref, runs[d].answer.ref, rows[c].ref)
    <2>1. /\ runs[d].at = "record" /\ UNCHANGED transfers
          /\ rows' = [rows EXCEPT ![c].status = status, ![c].ref = ref]
      BY <1>9 DEF Record, At
    <2>2. status \in Results \cup {"PENDING", rows[c].status}
      BY <1>1 DEF Written, Runs, Answers
    <2> HIDE DEF status, ref
    <2>3. rows'[c].status = status /\ \A x \in Claims \ {c} : rows'[x] = rows[x]
      BY <1>1, <1>4, <2>1 DEF Rows
    <2> QED
      BY <1>3, <1>4, <2>1, <2>2, <2>3
  <1>10. CASE (\E x \in Claims : Receive(d, x)) \/ Emit(d) \/ DeliveryFails(d)
    BY <1>2, <1>10 DEF Receive, Emit, DeliveryFails
  <1> QED
    BY <1>5, <1>6, <1>7, <1>8, <1>9, <1>10 DEF Process

(* What a reconciliation writes: the answers it got, where it got one.        *)
LEMMA ReconcileRows ==
  ASSUME PayoutInv, NEW j \in Jobs, CommitReconciliation(j), NEW c \in Claims
  PROVE  \/ rows'[c].status = rows[c].status /\ (c \in Due(jobs[j].copy) => jobs[j].answer[c] = "UNCERTAIN")
         \/ c \in Due(jobs[j].copy) /\ c \in announced /\ rows'[c].status = jobs[j].answer[c]
                /\ jobs[j].answer[c] \in Results
  <1>1. /\ jobs[j] \in Checks /\ rows[c] \in Rows /\ JobSound(j)
        /\ rows'[c] = Reconciled(j, c)
    BY DEF PayoutInv, PayoutTypeOK, CommitReconciliation
  <1>2. Reconciled(j, c).status = IF c \in Due(jobs[j].copy)
                                  THEN Written("UNCERTAIN", jobs[j].answer[c], rows[c].status)
                                  ELSE rows[c].status
    BY <1>1 DEF Reconciled, Rows
  <1>3. c \in Due(jobs[j].copy) => c \in announced
    BY <1>1 DEF Due, JobSound
  <1> QED
    BY <1>1, <1>2, <1>3 DEF Written, Checks

LEMMA JobOnce ==
  ASSUME PayoutInv, QueueInv, NeverReviewed, OnceInv, NEW j \in Jobs,
         Reconcile(j) \/ ReconciliationFails(j)
  PROVE  OnceInv'
  <1>1. /\ UNCHANGED <<claims, transfers, retries, exposed>>
        /\ \A a \in Retries : retries[a].at \in {"read", "called"} => retries[a].claim \in Claims
    BY DEF Reconcile, LoadUncertain, CheckGateway, CheckWith, CommitReconciliation, ReconciliationFails,
       reviewVars, history, PayoutInv, RetrySound
  <1>2. CASE UNCHANGED rows
    BY <1>1, <1>2, EarlyKept DEF Early
  <1>3. CASE CommitReconciliation(j)
    <2>1. ASSUME NEW c \in Claims
          PROVE  /\ Early(c) => rows'[c].status = rows[c].status
                 /\ ~Early(c) => ~Early(c)'
      BY <1>3, ReconcileRows, AnnouncedNotEarly DEF Early, Results
    <2> QED
      BY <1>1, <2>1, EarlyKept
  <1> QED
    BY <1>2, <1>3 DEF Reconcile, LoadUncertain, CheckGateway, CheckWith, ReconciliationFails

(* A retry's step, about its claim: the others' payouts and retries stay.     *)
LEMMA RetryOnce ==
  ASSUME PayoutInv, OnceInv, NEW a \in Retries, Retry(a)
  PROVE  OnceInv'
  <1>1. /\ retries \in [Retries -> RetryStates] /\ rows \in [Claims -> Rows]
        /\ transfers \in [Claims -> Nat]
        /\ \A b \in Retries : retries[b].at \in {"read", "called"} => retries[b].claim \in Claims
        /\ UNCHANGED claims
    BY DEF PayoutInv, PayoutTypeOK, RetryStates, RetrySound, Retry, ReadForRetry, CallForRetry,
       CommitRetry, RetryFails, reviewVars
  <1>2. \A c \in Claims \ exposed : RetriedInTurn(c)
    BY DEF OnceInv
  <1>3. ASSUME NEW c \in Claims, ReadForRetry(a, c) PROVE OnceInv'
    <2>1. /\ retries[a].at = "idle" /\ rows[c].status = "failed"
          /\ retries' = [retries EXCEPT ![a].at = "read", ![a].claim = c]
          /\ exposed' = IF Retrying(c) # {} THEN exposed \cup {c} ELSE exposed
          /\ UNCHANGED <<rows, transfers>>
      BY <1>3 DEF ReadForRetry
    <2>2. /\ retries'[a].at = "read" /\ retries'[a].claim = c
          /\ \A b \in Retries \ {a} : retries'[b] = retries[b]
      BY <1>1, <2>1 DEF RetryStates
    <2>3. EarlyPaid' /\ RetriesEarly'
      BY <1>1, <2>1, <2>2 DEF OnceInv, EarlyPaid, RetriesEarly, Early
    <2>4. ASSUME NEW x \in Claims \ exposed', x # c PROVE RetriedInTurn(x)'
      <3>1. RetriedInTurn(x) /\ Retrying(x)' = Retrying(x) /\ a \notin Retrying(x)
        BY <1>2, <2>1, <2>2, <2>4 DEF Retrying
      <3> QED
        BY <2>1, <2>2, <3>1 DEF RetriedInTurn, Retrying
    <2>5. ASSUME c \notin exposed' PROVE RetriedInTurn(c)'
      <3>1. RetriedInTurn(c) /\ Retrying(c) = {}
        BY <1>2, <2>1, <2>5
      <3>2. Retrying(c)' = {a}
        BY <2>2, <3>1 DEF Retrying
      <3> QED
        BY <2>1, <2>2, <3>1, <3>2 DEF RetriedInTurn
    <2> QED
      BY <2>3, <2>4, <2>5 DEF OnceInv
  <1>4. CASE CallForRetry(a)
    <2>1. PICK c \in Claims : c = retries[a].claim
      BY <1>1, <1>4 DEF CallForRetry
    <2>2. /\ retries[a].at = "read"
          /\ transfers' = [transfers EXCEPT ![c] = @ + 1]
          /\ \E result \in {"confirmed", "processing"} :
                retries' = [retries EXCEPT ![a].at = "called", ![a].result = result]
          /\ UNCHANGED <<rows, exposed>>
      BY <1>4, <2>1 DEF CallForRetry, history
    <2>3. /\ retries'[a].at = "called" /\ retries'[a].claim = c
          /\ \A b \in Retries \ {a} : retries'[b] = retries[b]
      BY <1>1, <2>1, <2>2 DEF RetryStates
    <2>4. /\ transfers'[c] = transfers[c] + 1
          /\ \A x \in Claims \ {c} : transfers'[x] = transfers[x]
      BY <1>1, <2>2
    <2>5. EarlyPaid' /\ RetriesEarly'
      BY <1>1, <2>1, <2>2, <2>3 DEF OnceInv, EarlyPaid, RetriesEarly, Early
    <2>6. ASSUME NEW x \in Claims \ exposed', x # c PROVE RetriedInTurn(x)'
      <3>1. RetriedInTurn(x) /\ Retrying(x)' = Retrying(x) /\ a \notin Retrying(x)
        BY <1>2, <2>1, <2>2, <2>3, <2>6 DEF Retrying
      <3> QED
        BY <2>2, <2>3, <2>4, <3>1 DEF RetriedInTurn, Retrying
    <2>7. ASSUME c \notin exposed' PROVE RetriedInTurn(c)'
      <3>1. RetriedInTurn(c) /\ a \in Retrying(c)
        BY <1>2, <2>1, <2>2, <2>7 DEF Retrying
      <3>2. transfers[c] = 0 /\ Retrying(c) = {a}
        BY <2>2, <3>1 DEF RetriedInTurn
      <3>3. Retrying(c)' = {a}
        BY <2>1, <2>3, <3>2 DEF Retrying
      <3> QED
        BY <2>3, <2>4, <3>2, <3>3 DEF RetriedInTurn
    <2> QED
      BY <2>5, <2>6, <2>7 DEF OnceInv
  <1>5. CASE CommitRetry(a)
    <2>1. PICK c \in Claims : c = retries[a].claim
      BY <1>1, <1>5 DEF CommitRetry
    <2>2. /\ retries[a].at = "called"
          /\ rows' = [rows EXCEPT ![c].status = retries[a].result]
          /\ retries' = [retries EXCEPT ![a].at = "done"]
          /\ UNCHANGED <<transfers, exposed>>
      BY <1>5, <2>1 DEF CommitRetry, history
    <2>3. /\ retries'[a].at = "done"
          /\ \A b \in Retries \ {a} : retries'[b] = retries[b]
      BY <1>1, <2>2 DEF RetryStates
    <2>4. retries[a].result \in {"confirmed", "processing"}
      BY <1>1 DEF RetryStates
    <2>5. /\ rows'[c].status = retries[a].result
          /\ \A x \in Claims \ {c} : rows'[x] = rows[x]
      BY <1>1, <2>2 DEF Rows
    <2>6. Early(c) /\ Early(c)'
      BY <2>1, <2>2, <2>4, <2>5 DEF OnceInv, EarlyPaid, RetriesEarly, Early
    <2>7. EarlyPaid' /\ RetriesEarly'
      BY <1>1, <2>3, <2>5, <2>6 DEF OnceInv, EarlyPaid, RetriesEarly, Early
    <2>8. ASSUME NEW x \in Claims \ exposed', x # c PROVE RetriedInTurn(x)'
      <3>1. RetriedInTurn(x) /\ Retrying(x)' = Retrying(x) /\ a \notin Retrying(x)
        BY <1>2, <2>1, <2>2, <2>3, <2>8 DEF Retrying
      <3>2. rows'[x] = rows[x] /\ transfers'[x] = transfers[x]
        BY <2>2, <2>5, <2>8
      <3>3. \A b \in Retrying(x) : retries'[b] = retries[b]
        BY <2>3, <3>1 DEF Retrying
      <3> QED
        BY <3>1, <3>2, <3>3 DEF RetriedInTurn
    <2>9. ASSUME c \notin exposed' PROVE RetriedInTurn(c)'
      <3>1. RetriedInTurn(c) /\ a \in Retrying(c)
        BY <1>2, <2>1, <2>2, <2>9 DEF Retrying
      <3>2. Retrying(c) = {a}
        BY <3>1 DEF RetriedInTurn
      <3>3. Retrying(c)' = {}
        BY <2>3, <3>2 DEF Retrying
      <3> QED
        BY <2>2, <2>4, <2>5, <3>1, <3>3 DEF RetriedInTurn
    <2> QED
      BY <2>7, <2>8, <2>9 DEF OnceInv
  <1>6. CASE RetryFails(a)
    <2>1. PICK c \in Claims : c = retries[a].claim
      BY <1>1, <1>6 DEF RetryFails
    <2>2. /\ retries[a].at \in {"read", "called"}
          /\ retries' = [retries EXCEPT ![a].at = "done"]
          /\ exposed' = IF retries[a].at = "called" THEN exposed \cup {c} ELSE exposed
          /\ UNCHANGED <<rows, transfers>>
      BY <1>6, <2>1 DEF RetryFails
    <2>3. /\ retries'[a].at = "done"
          /\ \A b \in Retries \ {a} : retries'[b] = retries[b]
      BY <1>1, <2>2 DEF RetryStates
    <2>4. EarlyPaid' /\ RetriesEarly'
      BY <1>1, <2>2, <2>3 DEF OnceInv, EarlyPaid, RetriesEarly, Early
    <2>5. ASSUME NEW x \in Claims \ exposed', x # c PROVE RetriedInTurn(x)'
      <3>1. RetriedInTurn(x) /\ Retrying(x)' = Retrying(x) /\ a \notin Retrying(x)
        BY <1>2, <2>1, <2>2, <2>3, <2>5 DEF Retrying
      <3> QED
        BY <2>2, <2>3, <3>1 DEF RetriedInTurn, Retrying
    <2>6. ASSUME c \notin exposed' PROVE RetriedInTurn(c)'
      <3>1. RetriedInTurn(c) /\ a \in Retrying(c) /\ retries[a].at = "read"
        BY <1>2, <2>1, <2>2, <2>6 DEF Retrying
      <3>2. Retrying(c) = {a} /\ transfers[c] = 0
        BY <3>1 DEF RetriedInTurn
      <3>3. Retrying(c)' = {}
        BY <2>3, <3>2 DEF Retrying
      <3> QED
        BY <2>2, <3>1, <3>2, <3>3 DEF RetriedInTurn
    <2> QED
      BY <2>4, <2>5, <2>6 DEF OnceInv
  <1> QED
    BY <1>3, <1>4, <1>5, <1>6 DEF Retry

LEMMA TickStatuses ==
  ASSUME PayoutInv, Tick
  PROVE  /\ UNCHANGED <<reviewVars, adapter, transfers, runs, jobs, retries, history>>
         /\ \A c \in Claims : rows'[c].status = rows[c].status
  BY DEF Tick, PayoutInv, PayoutTypeOK, Rows

LEMMA NextOnceInv ==
  PayoutInv /\ QueueInv /\ NeverReviewed /\ OnceInv /\ [Next]_vars => NeverReviewed' /\ OnceInv'
  <1> SUFFICES ASSUME PayoutInv, QueueInv, NeverReviewed, OnceInv, [Next]_vars
               PROVE  NeverReviewed' /\ OnceInv'
    OBVIOUS
  <1>1. NeverReviewed' /\ \A c \in Claims : claims[c].status = "paid" => claims'[c].status = "paid"
    BY QueueStep, NextNeverReviewed
  <1>2. \A a \in Retries : retries[a].at \in {"read", "called"} => retries[a].claim \in Claims
    BY DEF PayoutInv, RetrySound
  <1>3. CASE UNCHANGED payoutVars
    BY <1>1, <1>2, <1>3, EarlyKept DEF payoutVars, history, Early
  <1>4. CASE Tick
    <2>1. /\ UNCHANGED <<transfers, retries, exposed>>
          /\ \A c \in Claims : rows'[c].status = rows[c].status
      BY <1>4, TickStatuses DEF history
    <2> QED
      BY <1>1, <1>2, <2>1, EarlyKept DEF Early
  <1> QED
    BY <1>1, <1>3, <1>4, DeliveryOnce, JobOnce, RetryOnce DEF Next, vars

LEMMA OnceInvariant == Spec => [](NeverReviewed /\ OnceInv)
  BY InitOnceInv, NextOnceInv, QueueKept, PayoutInvariant, PTL DEF Spec

(* PaidOnce: one claim moves money once, for every number of deliveries, jobs *)
(* and retries, unless two retries overlapped or one was lost after its call. *)
THEOREM ClaimsArePaidOnce == Spec => []PaidOnce
  <1>1. OnceInv => PaidOnce
    BY DEF OnceInv, RetriedInTurn, PaidOnce
  <1> QED
    BY <1>1, OnceInvariant, PTL

-----------------------------------------------------------------------------
(* A recorded success stays.                                                  *)

Writes(d, c) == runs[d].claim = c /\ runs[d].at \in {"resume", "call", "record"}
Rechecks(j, c) == jobs[j].copy[c].status = "UNCERTAIN"

(* A claim that was never contested has one writer at a time, and none after  *)
(* its success.                                                               *)
OneWriter(c) ==
  /\ \A d, e \in Deliveries : Writes(d, c) /\ Writes(e, c) => d = e
  /\ \A j, k \in Jobs : Rechecks(j, c) /\ Rechecks(k, c) => j = k
  /\ \A d \in Deliveries, j \in Jobs : ~(Writes(d, c) /\ Rechecks(j, c))
  /\ c \in succeeded => rows[c].status = "SUCCESS" /\ ~InFlight(c)

StandInv ==
  /\ \A c \in Claims : InFlight(c) => rows[c].status # "none"
  /\ \A c \in Claims \ contested : OneWriter(c)

LEMMA FlightWriters ==
  ASSUME NEW c
  PROVE  InFlight(c) <=> \/ \E d \in Deliveries : Writes(d, c)
                         \/ \E j \in Jobs : Rechecks(j, c)
  BY DEF InFlight, Writes, Rechecks

LEMMA InitStandInv == Init => StandInv
  <1> SUFFICES ASSUME Init PROVE StandInv
    OBVIOUS
  <1>1. \A d \in Deliveries : runs[d].at = "idle"
    BY Constant DEF Init
  <1>2. \A j \in Jobs, c \in Claims : jobs[j].copy[c].status = "none"
    BY Constant DEF Init
  <1>3. succeeded = {}
    BY DEF Init
  <1> QED
    BY <1>1, <1>2, <1>3 DEF StandInv, OneWriter, InFlight, Writes, Rechecks

(* No new writer of c.                                                        *)
NoNewWriter(c) ==
  /\ \A d \in Deliveries : Writes(d, c)' => Writes(d, c)
  /\ \A j \in Jobs : Rechecks(j, c)' => Rechecks(j, c)

LEMMA StandKept ==
  ASSUME StandInv, NEW c \in Claims, NoNewWriter(c), contested \subseteq contested',
         rows[c].status # "none" => rows'[c].status # "none",
         /\ OneWriter(c) /\ c \in succeeded'
         => \/ c \in succeeded /\ rows'[c].status = rows[c].status
            \/ rows'[c].status = "SUCCESS" /\ ~InFlight(c)'
  PROVE  /\ InFlight(c)' => rows'[c].status # "none"
         /\ c \notin contested' => OneWriter(c)'
  <1>1. InFlight(c)' => InFlight(c)
    BY DEF NoNewWriter, InFlight, Writes, Rechecks
  <1>2. InFlight(c)' => rows'[c].status # "none"
    BY <1>1 DEF StandInv
  <1>3. ASSUME c \notin contested' PROVE OneWriter(c)'
    <2>1. OneWriter(c)
      BY <1>3 DEF StandInv
    <2>2. c \in succeeded' => rows'[c].status = "SUCCESS" /\ ~InFlight(c)'
      BY <1>1, <2>1 DEF OneWriter
    <2> QED
      BY <2>1, <2>2 DEF OneWriter, NoNewWriter
  <1> QED
    BY <1>2, <1>3

(* A delivery that becomes a writer of c.                                     *)
LEMMA WriterJoins ==
  ASSUME StandInv, NEW d \in Deliveries, NEW c \in Claims,
         \A e \in Deliveries \ {d} : runs'[e] = runs[e], UNCHANGED <<jobs, succeeded>>,
         contested \subseteq contested', InFlight(c) => c \in contested',
         rows[c].status # "SUCCESS", rows'[c].status # "none"
  PROVE  /\ InFlight(c)' => rows'[c].status # "none"
         /\ c \notin contested' => OneWriter(c)'
  <1> SUFFICES ASSUME c \notin contested' PROVE OneWriter(c)'
    OBVIOUS
  <1>1. OneWriter(c) /\ ~InFlight(c)
    BY DEF StandInv
  <1>2. /\ \A e \in Deliveries \ {d} : ~Writes(e, c)'
        /\ \A j \in Jobs : ~Rechecks(j, c)'
    BY <1>1, FlightWriters DEF Writes, Rechecks
  <1>3. c \notin succeeded'
    BY <1>1 DEF OneWriter
  <1> QED
    BY <1>2, <1>3 DEF OneWriter

(* The step of a delivery concerns the payout of its claim only.              *)
LEMMA OthersStand ==
  ASSUME StandInv, NEW d \in Deliveries, NEW c, runs[d].claim = c \/ runs[d].at = "idle",
         runs'[d].claim = c \/ runs'[d].at = "idle", NEW x \in Claims, x # c,
         \A e \in Deliveries \ {d} : runs'[e] = runs[e], UNCHANGED jobs,
         rows'[x] = rows[x], x \in succeeded' => x \in succeeded, contested \subseteq contested'
  PROVE  /\ InFlight(x)' => rows'[x].status # "none"
         /\ x \notin contested' => OneWriter(x)'
  <1>1. NoNewWriter(x)
    BY DEF NoNewWriter, Writes, Rechecks
  <1> QED
    BY <1>1, StandKept

LEMMA DeliveryStands ==
  ASSUME PayoutInv, StandInv, NEW d \in Deliveries, NEW c, c = runs[d].claim,
         Process(d) \/ DeliveryFails(d)
  PROVE  StandInv'
  <1>1. /\ rows \in [Claims -> Rows] /\ runs \in [Deliveries -> Runs]
        /\ UNCHANGED jobs
    BY DEF PayoutInv, PayoutTypeOK, Process, Receive, Look, Insert, Resume, CallGateway, Record, Emit,
       DeliveryFails
  <1>2. runs[d].at # "idle" => c \in Claims
    BY Standing
  <1>3. contested \subseteq contested' /\ (~Record(d) => succeeded' = succeeded)
    BY DEF Process, Receive, Look, Insert, Resume, CallGateway, Record, Emit, DeliveryFails,
       NoteContested, history
  <1>4. ASSUME Finish(d)
        PROVE  runs'[d].claim = c /\ runs'[d].at = "done" /\ \A e \in Deliveries \ {d} : runs'[e] = runs[e]
    BY <1>4, Finished DEF PayoutInv
  <1>5. ASSUME NEW x \in Claims, NoNewWriter(x), UNCHANGED <<rows, succeeded>>
        PROVE  (InFlight(x)' => rows'[x].status # "none") /\ (x \notin contested' => OneWriter(x)')
    BY <1>3, <1>5, StandKept
  <1>6. ASSUME UNCHANGED <<rows, succeeded>>,
               runs'[d].at \in {"resume", "call", "record"}
                 => Writes(d, c) /\ runs'[d].claim = c,
               \A e \in Deliveries \ {d} : runs'[e] = runs[e]
        PROVE  StandInv'
    <2>1. \A x \in Claims : NoNewWriter(x)
      BY <1>1, <1>6 DEF NoNewWriter, Writes, Rechecks
    <2> QED
      BY <1>5, <1>6, <2>1 DEF StandInv
  <1>7. ASSUME runs[d].at # "idle", runs'[d].claim = c,
               \A e \in Deliveries \ {d} : runs'[e] = runs[e],
               \A x \in Claims \ {c} : rows'[x] = rows[x] /\ (x \in succeeded' => x \in succeeded),
               /\ InFlight(c)' => rows'[c].status # "none"
               /\ c \notin contested' => OneWriter(c)'
        PROVE  StandInv'
    <2>1. ASSUME NEW x \in Claims
          PROVE  (InFlight(x)' => rows'[x].status # "none") /\ (x \notin contested' => OneWriter(x)')
      BY <1>1, <1>3, <1>7, OthersStand
    <2> QED
      BY <2>1 DEF StandInv
  <1>8. CASE \E x \in Claims : Receive(d, x)
    <2>1. PICK x \in Claims : Receive(d, x)
      BY <1>8
    <2>2. UNCHANGED <<rows, succeeded>> /\ runs' = [runs EXCEPT ![d].at = "look", ![d].claim = x]
      BY <2>1 DEF Receive, history
    <2>3. runs'[d].at = "look" /\ \A e \in Deliveries \ {d} : runs'[e] = runs[e]
      BY <1>1, <2>2 DEF Runs
    <2> QED
      BY <1>6, <2>2, <2>3
  <1>9. CASE Emit(d) \/ DeliveryFails(d)
    BY <1>4, <1>6, <1>9 DEF Emit, DeliveryFails, history
  <1>10. CASE Look(d)
    <2>1. runs[d].at = "look" /\ UNCHANGED succeeded
      BY <1>10 DEF Look, At
    <2>2. \/ Finish(d) /\ UNCHANGED rows
          \/ /\ rows[c].status = "PENDING" /\ rows' = [rows EXCEPT ![c].status = "UNCERTAIN"]
             /\ runs' = [runs EXCEPT ![d].at = "resume", ![d].copy = [rows[c] EXCEPT !.status = "UNCERTAIN"]]
             /\ NoteContested({c})
          \/ /\ rows[c].status # "none" /\ ~Handled(rows[c]) /\ UNCHANGED rows
             /\ runs' = [runs EXCEPT ![d].at = "resume", ![d].copy = rows[c]]
             /\ NoteContested({c})
          \/ Move(d, "insert") /\ UNCHANGED rows
      BY <1>10 DEF Look
    <2>3. CASE Finish(d) /\ UNCHANGED rows
      BY <1>4, <1>6, <2>1, <2>3
    <2>4. CASE Move(d, "insert") /\ UNCHANGED rows
      <3>1. runs'[d].at = "insert" /\ \A e \in Deliveries \ {d} : runs'[e] = runs[e]
        BY <1>1, <2>4 DEF Move, Runs
      <3> QED
        BY <1>6, <2>1, <2>4, <3>1
    <2>5. CASE /\ rows[c].status = "PENDING" /\ rows' = [rows EXCEPT ![c].status = "UNCERTAIN"]
               /\ runs' = [runs EXCEPT ![d].at = "resume",
                                       ![d].copy = [rows[c] EXCEPT !.status = "UNCERTAIN"]]
               /\ NoteContested({c})
      <3>1. /\ runs'[d].claim = c
            /\ \A e \in Deliveries \ {d} : runs'[e] = runs[e]
        BY <1>1, <2>5 DEF Runs
      <3>2. rows'[c].status = "UNCERTAIN" /\ \A x \in Claims \ {c} : rows'[x] = rows[x]
        BY <1>1, <1>2, <2>1, <2>5 DEF Rows
      <3>3. InFlight(c) => c \in contested'
        BY <2>5 DEF NoteContested
      <3> QED
        BY <1>1, <1>2, <1>3, <1>7, <2>1, <2>5, <3>1, <3>2, <3>3, WriterJoins
    <2>6. CASE /\ rows[c].status # "none" /\ ~Handled(rows[c]) /\ UNCHANGED rows
               /\ runs' = [runs EXCEPT ![d].at = "resume", ![d].copy = rows[c]]
               /\ NoteContested({c})
      <3>1. /\ runs'[d].claim = c
            /\ \A e \in Deliveries \ {d} : runs'[e] = runs[e]
        BY <1>1, <2>6 DEF Runs
      <3>2. rows[c].status # "SUCCESS"
        BY <2>6 DEF Handled
      <3>3. InFlight(c) => c \in contested'
        BY <2>6 DEF NoteContested
      <3> QED
        BY <1>1, <1>2, <1>3, <1>7, <2>1, <2>6, <3>1, <3>2, <3>3, WriterJoins
    <2> QED
      BY <2>2, <2>3, <2>4, <2>5, <2>6
  <1>11. CASE Insert(d)
    <2> DEFINE fresh == [NoRow EXCEPT !.status = "PENDING"]
    <2>1. runs[d].at = "insert" /\ UNCHANGED succeeded
      BY <1>11 DEF Insert, At
    <2>2. fresh.status = "PENDING"
      BY DEF NoRow
    <2>3. \/ /\ rows[c].status = "none" /\ rows' = [rows EXCEPT ![c] = fresh]
             /\ runs' = [runs EXCEPT ![d].at = "call", ![d].copy = fresh]
          \/ Finish(d) /\ UNCHANGED rows
          \/ /\ rows[c].status \notin {"none", "SUCCESS"} /\ UNCHANGED rows
             /\ runs' = [runs EXCEPT ![d].at = "call", ![d].copy = rows[c], ![d].silent = TRUE]
             /\ NoteContested({c})
      BY <1>11 DEF Insert
    <2> HIDE DEF fresh
    <2>4. CASE Finish(d) /\ UNCHANGED rows
      BY <1>4, <1>6, <2>1, <2>4
    <2>5. CASE /\ rows[c].status = "none" /\ rows' = [rows EXCEPT ![c] = fresh]
               /\ runs' = [runs EXCEPT ![d].at = "call", ![d].copy = fresh]
      <3>1. /\ runs'[d].claim = c
            /\ \A e \in Deliveries \ {d} : runs'[e] = runs[e]
        BY <1>1, <2>5 DEF Runs
      <3>2. rows'[c].status = "PENDING" /\ \A x \in Claims \ {c} : rows'[x] = rows[x]
        BY <1>1, <1>2, <2>1, <2>2, <2>5 DEF Rows
      <3>3. ~InFlight(c)
        BY <1>2, <2>1, <2>5 DEF StandInv
      <3> QED
        BY <1>1, <1>2, <1>3, <1>7, <2>1, <2>5, <3>1, <3>2, <3>3, WriterJoins
    <2>6. CASE /\ rows[c].status \notin {"none", "SUCCESS"} /\ UNCHANGED rows
               /\ runs' = [runs EXCEPT ![d].at = "call", ![d].copy = rows[c], ![d].silent = TRUE]
               /\ NoteContested({c})
      <3>1. /\ runs'[d].claim = c
            /\ \A e \in Deliveries \ {d} : runs'[e] = runs[e]
        BY <1>1, <2>6 DEF Runs
      <3>2. InFlight(c) => c \in contested'
        BY <2>6 DEF NoteContested
      <3> QED
        BY <1>1, <1>2, <1>3, <1>7, <2>1, <2>6, <3>1, <3>2, WriterJoins
    <2> QED
      BY <2>3, <2>4, <2>5, <2>6
  <1>12. CASE Resume(d)
    <2>1. /\ runs[d].at = "resume" /\ UNCHANGED succeeded
          /\ rows' = [rows EXCEPT ![c].status = "PENDING"]
          /\ runs' = [runs EXCEPT ![d].at = "call", ![d].copy.status = "PENDING"]
      BY <1>12 DEF Resume, At, history
    <2>2. /\ runs'[d].claim = c
          /\ \A e \in Deliveries \ {d} : runs'[e] = runs[e]
      BY <1>1, <2>1 DEF Runs
    <2>3. rows'[c].status = "PENDING" /\ \A x \in Claims \ {c} : rows'[x] = rows[x]
      BY <1>1, <1>2, <2>1 DEF Rows
    <2>4. NoNewWriter(c) /\ InFlight(c)
      BY <1>1, <2>1, <2>2 DEF NoNewWriter, Writes, Rechecks, InFlight
    <2>5. OneWriter(c) => c \notin succeeded
      BY <2>4 DEF OneWriter
    <2> QED
      BY <1>2, <1>3, <1>7, <2>1, <2>2, <2>3, <2>4, <2>5, StandKept
  <1>13. CASE CallGateway(d)
    <2>1. /\ runs[d].at = "call" /\ UNCHANGED <<rows, succeeded>>
          /\ \E i \in Initiations : runs' = [runs EXCEPT ![d].at = "record",
                                               ![d].answer = [status |-> i.status, ref |-> i.ref]]
      BY <1>13 DEF CallGateway, At, history
    <2>2. /\ runs'[d].claim = c
          /\ \A e \in Deliveries \ {d} : runs'[e] = runs[e]
      BY <1>1, <2>1 DEF Runs
    <2> QED
      BY <1>6, <2>1, <2>2 DEF Writes
  <1>14. CASE Record(d)
    <2> DEFINE status == Written(runs[d].copy.status, runs[d].answer.status, rows[c].status)
               ref == Written(runs[d].copy.ref, runs[d].answer.ref, rows[c].ref)
    <2>1. /\ runs[d].at = "record"
          /\ rows' = [rows EXCEPT ![c].status = status, ![c].ref = ref]
          /\ succeeded' = IF status = "SUCCESS" THEN succeeded \cup {c} ELSE succeeded
          /\ Finish(d) \/ Move(d, "emit")
      BY <1>14 DEF Record, At
    <2>2. status = rows[c].status \/ status \in Results
      BY <1>1 DEF Written, Runs, Answers
    <2> HIDE DEF status, ref
    <2>3. rows'[c].status = status /\ \A x \in Claims \ {c} : rows'[x] = rows[x]
      BY <1>1, <1>2, <2>1 DEF Rows
    <2>4. /\ runs'[d].claim = c /\ runs'[d].at \in {"done", "emit"}
          /\ \A e \in Deliveries \ {d} : runs'[e] = runs[e]
      <3>1. CASE Move(d, "emit")
        BY <1>1, <3>1 DEF Move, Runs
      <3> QED
        BY <1>4, <2>1, <3>1
    <2>5. NoNewWriter(c) /\ Writes(d, c) /\ InFlight(c)
      BY <1>1, <2>1, <2>4 DEF NoNewWriter, Writes, Rechecks, InFlight
    <2>6. ASSUME OneWriter(c), c \in succeeded' PROVE rows'[c].status = "SUCCESS" /\ ~InFlight(c)'
      <3>1. c \notin succeeded
        BY <2>5, <2>6 DEF OneWriter
      <3>2. ~(\E e \in Deliveries : Writes(e, c)') /\ ~(\E j \in Jobs : Rechecks(j, c)')
        BY <1>1, <2>4, <2>5, <2>6 DEF OneWriter, NoNewWriter, Writes
      <3>3. ~InFlight(c)'
        BY <3>2 DEF InFlight, Writes, Rechecks
      <3> QED
        BY <2>1, <2>3, <2>6, <3>1, <3>3
    <2>7. /\ InFlight(c)' => rows'[c].status # "none"
          /\ c \notin contested' => OneWriter(c)'
      BY <1>2, <1>3, <2>1, <2>2, <2>3, <2>5, <2>6, StandKept DEF Results
    <2> QED
      BY <1>7, <2>1, <2>3, <2>4, <2>7
  <1> QED
    BY <1>8, <1>9, <1>10, <1>11, <1>12, <1>13, <1>14 DEF Process

LEMMA JobStands ==
  ASSUME PayoutInv, StandInv, NEW j \in Jobs, Reconcile(j) \/ ReconciliationFails(j)
  PROVE  StandInv'
  <1>1. /\ rows \in [Claims -> Rows] /\ jobs \in [Jobs -> Checks]
        /\ UNCHANGED runs
    BY DEF PayoutInv, PayoutTypeOK, Reconcile, LoadUncertain, CheckGateway, CheckWith,
       CommitReconciliation, ReconciliationFails
  <1>2. CASE LoadUncertain(j)
    <2> DEFINE copy == [c \in Claims |-> IF c \in Due(rows) THEN rows[c] ELSE NoRow]
    <2>1. /\ jobs' = [jobs EXCEPT ![j].at = "loaded", ![j].copy = copy]
          /\ contested' = contested \cup {c \in Due(rows) : InFlight(c)}
          /\ UNCHANGED <<rows, succeeded>>
      BY <1>2 DEF LoadUncertain, NoteContested
    <2>2. \A c \in Claims : copy[c].status = "UNCERTAIN" => c \in Due(rows) /\ rows[c].status = "UNCERTAIN"
      BY Constant DEF Due
    <2> HIDE DEF copy
    <2>3. jobs'[j].copy = copy /\ \A k \in Jobs \ {j} : jobs'[k] = jobs[k]
      BY <1>1, <2>1 DEF Checks
    <2> SUFFICES ASSUME NEW c \in Claims
                 PROVE  (InFlight(c)' => rows'[c].status # "none") /\ (c \notin contested' => OneWriter(c)')
      BY DEF StandInv
    <2>4. CASE copy[c].status # "UNCERTAIN"
      <3>1. NoNewWriter(c)
        BY <1>1, <2>3, <2>4 DEF NoNewWriter, Writes, Rechecks
      <3> QED
        BY <2>1, <3>1, StandKept
    <2>5. CASE copy[c].status = "UNCERTAIN"
      <3>1. rows'[c].status = "UNCERTAIN" /\ (InFlight(c) => c \in contested')
        BY <2>1, <2>2, <2>5
      <3>2. ASSUME c \notin contested' PROVE OneWriter(c)'
        <4>1. OneWriter(c) /\ ~InFlight(c) /\ c \notin succeeded
          BY <2>1, <3>1, <3>2 DEF StandInv, OneWriter
        <4>2. /\ \A d \in Deliveries : ~Writes(d, c)'
              /\ \A k \in Jobs \ {j} : ~Rechecks(k, c)'
          BY <1>1, <2>3, <4>1, FlightWriters DEF Writes, Rechecks
        <4> QED
          BY <2>1, <4>1, <4>2 DEF OneWriter
      <3> QED
        BY <3>1, <3>2
    <2> QED
      BY <2>4, <2>5
  <1>3. CASE CheckGateway(j)
    <2>1. PICK answer \in [Claims -> Results], verified \in SUBSET Reviewable :
              CheckWith(j, answer, verified)
      BY <1>3 DEF CheckGateway
    <2>2. /\ jobs' = [jobs EXCEPT ![j].at = "checked", ![j].answer = answer, ![j].verified = verified]
          /\ UNCHANGED <<rows, succeeded, contested>>
      BY <2>1 DEF CheckWith, history
    <2>3. jobs'[j].copy = jobs[j].copy /\ \A k \in Jobs \ {j} : jobs'[k] = jobs[k]
      BY <1>1, <2>2 DEF Checks
    <2>4. \A c \in Claims : NoNewWriter(c)
      BY <1>1, <2>3 DEF NoNewWriter, Writes, Rechecks
    <2> QED
      BY <2>2, <2>4, StandKept DEF StandInv
  <1>4. ASSUME jobs' = [jobs EXCEPT ![j] = IdleJob], NEW c \in Claims
        PROVE  NoNewWriter(c) /\ ~Rechecks(j, c)'
    <2>1. jobs'[j] = IdleJob /\ \A k \in Jobs \ {j} : jobs'[k] = jobs[k]
      BY <1>1, <1>4
    <2>2. ~Rechecks(j, c)'
      BY <2>1, IdleJobSound DEF Rechecks
    <2> QED
      BY <1>1, <2>1, <2>2 DEF NoNewWriter, Writes, Rechecks
  <1>5. CASE ReconciliationFails(j)
    <2>1. jobs' = [jobs EXCEPT ![j] = IdleJob] /\ UNCHANGED <<rows, succeeded, contested>>
      BY <1>5 DEF ReconciliationFails, IdleJob, history
    <2> QED
      BY <1>4, <2>1, StandKept DEF StandInv
  <1>6. CASE CommitReconciliation(j)
    <2>1. /\ jobs' = [jobs EXCEPT ![j] = IdleJob] /\ UNCHANGED contested
          /\ succeeded' = succeeded \cup {c \in Due(jobs[j].copy) : jobs[j].answer[c] = "SUCCESS"}
      BY <1>6 DEF CommitReconciliation, IdleJob
    <2> SUFFICES ASSUME NEW c \in Claims
                 PROVE  (InFlight(c)' => rows'[c].status # "none") /\ (c \notin contested' => OneWriter(c)')
      BY DEF StandInv
    <2>2. NoNewWriter(c) /\ ~Rechecks(j, c)'
      BY <1>4, <2>1
    <2>3. CASE /\ rows'[c].status = rows[c].status
               /\ c \in Due(jobs[j].copy) => jobs[j].answer[c] = "UNCERTAIN"
      BY <2>1, <2>2, <2>3, StandKept
    <2>4. CASE c \in Due(jobs[j].copy) /\ rows'[c].status = jobs[j].answer[c] /\ jobs[j].answer[c] \in Results
      <3>1. Rechecks(j, c) /\ InFlight(c)
        BY <2>4 DEF Due, Rechecks, InFlight
      <3>2. ASSUME OneWriter(c), c \in succeeded'
            PROVE  rows'[c].status = "SUCCESS" /\ ~InFlight(c)'
        <4>1. c \notin succeeded
          BY <3>1, <3>2 DEF OneWriter
        <4>2. rows'[c].status = "SUCCESS"
          BY <2>1, <2>4, <3>2, <4>1
        <4>3. ~(\E d \in Deliveries : Writes(d, c)') /\ ~(\E k \in Jobs : Rechecks(k, c)')
          BY <2>2, <3>1, <3>2 DEF OneWriter, NoNewWriter
        <4>4. ~InFlight(c)'
          BY <4>3 DEF InFlight, Writes, Rechecks
        <4> QED
          BY <4>2, <4>4
      <3>3. rows'[c].status # "none"
        BY <2>4 DEF Results
      <3> QED
        BY <2>1, <2>2, <3>2, <3>3, StandKept
    <2> QED
      BY <1>6, <2>3, <2>4, ReconcileRows
  <1> QED
    BY <1>2, <1>3, <1>5, <1>6 DEF Reconcile

LEMMA NextStandInv == PayoutInv /\ OnceInv /\ StandInv /\ [Next]_vars => StandInv'
  <1> SUFFICES ASSUME PayoutInv, OnceInv, StandInv, [Next]_vars PROVE StandInv'
    OBVIOUS
  <1>1. ASSUME UNCHANGED <<runs, jobs, succeeded, contested>>,
               \A c \in Claims : rows'[c].status = rows[c].status
        PROVE  StandInv'
    <2>1. \A c \in Claims : NoNewWriter(c)
      BY <1>1 DEF NoNewWriter, Writes, Rechecks
    <2> QED
      BY <1>1, <2>1, StandKept DEF StandInv
  <1>2. CASE UNCHANGED payoutVars
    BY <1>1, <1>2 DEF payoutVars, history
  <1>3. CASE Tick
    BY <1>1, <1>3, TickStatuses DEF history
  <1>4. ASSUME NEW a \in Retries, Retry(a) PROVE StandInv'
    <2>1. UNCHANGED <<runs, jobs, succeeded, contested>>
      BY <1>4 DEF Retry, ReadForRetry, CallForRetry, CommitRetry, RetryFails, history
    <2>2. CASE UNCHANGED rows
      BY <1>1, <2>1, <2>2
    <2>3. CASE CommitRetry(a)
      <3>1. PICK c \in Claims : c = retries[a].claim
        BY <2>3 DEF CommitRetry, PayoutInv, RetrySound
      <3>2. Early(c) /\ retries[a].result \in {"confirmed", "processing"}
        BY <2>3, <3>1 DEF CommitRetry, OnceInv, RetriesEarly, PayoutInv, PayoutTypeOK
      <3>3. /\ rows'[c].status = retries[a].result
            /\ \A x \in Claims \ {c} : rows'[x] = rows[x]
        BY <2>3, <3>1 DEF CommitRetry, PayoutInv, PayoutTypeOK, Rows
      <3>4. \A x \in Claims : NoNewWriter(x)
        BY <2>1 DEF NoNewWriter, Writes, Rechecks
      <3>5. OneWriter(c) => c \notin succeeded
        BY <3>2 DEF OneWriter, Early
      <3>6. ASSUME NEW x \in Claims
            PROVE  (InFlight(x)' => rows'[x].status # "none") /\ (x \notin contested' => OneWriter(x)')
        <4>1. CASE x = c
          BY <2>1, <3>2, <3>3, <3>4, <3>5, <4>1, StandKept
        <4>2. CASE x # c
          BY <2>1, <3>3, <3>4, <4>2, StandKept
        <4> QED
          BY <4>1, <4>2
      <3> QED
        BY <3>6 DEF StandInv
    <2> QED
      BY <1>4, <2>2, <2>3 DEF Retry, ReadForRetry, CallForRetry, RetryFails
  <1> QED
    BY <1>2, <1>3, <1>4, DeliveryStands, JobStands DEF Next, vars

LEMMA StandInvariant == Spec => []StandInv
  BY InitStandInv, NextStandInv, PayoutInvariant, OnceInvariant, PTL DEF Spec

(* SuccessStands: for every number of deliveries and of reconciliation jobs,  *)
(* a recorded success is overwritten only where the row was loaded by one     *)
(* writer while another was about to write it.                                *)
THEOREM SuccessesStand == Spec => []SuccessStands
  <1>1. PayoutInv /\ StandInv => SuccessStands
    <2> SUFFICES ASSUME PayoutInv, StandInv, NEW c \in succeeded \ contested
                 PROVE  rows[c].status = "SUCCESS"
      BY DEF SuccessStands
    <2>1. c \in Claims
      BY DEF PayoutInv
    <2> QED
      BY <2>1 DEF StandInv, OneWriter
  <1> QED
    BY <1>1, PayoutInvariant, StandInvariant, PTL
=============================================================================
