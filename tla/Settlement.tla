----------------------------- MODULE Settlement -----------------------------
(* What happens to a claim after its approval was announced: deliveries of    *)
(* claim.approved to PayoutProcessor, the reconciliation job of each replica, *)
(* an administrator's retry of a payout that initiate_payout left failed, and *)
(* the gateway behind them.  A consumer of claim.approved is not part of the  *)
(* repository; the processor is driven here as its unit tests drive it.       *)
(* Composed with the review queue, which announces the approvals.             *)
EXTENDS ReviewQueue

CONSTANTS Deliveries, \* deliveries of claim.approved, one per element
          Jobs,       \* reconciliation jobs, one per replica
          Retries,    \* retry requests of administrators, one per element
          Adapters,   \* gateways considered, among "razorpay", "mock", "contract"
          RecheckAge, StaleAge, EscalateAge, ReviewAge
                      \* ages of a payout since initiated_at: 5 min, 10 min, 2 h, 24 h

ASSUME AgesOrdered ==
    /\ {RecheckAge, StaleAge, EscalateAge, ReviewAge} \subseteq Nat \ {0}
    /\ RecheckAge <= StaleAge /\ StaleAge <= EscalateAge /\ EscalateAge <= ReviewAge

ASSUME SettlementConstants ==
    /\ Adapters \subseteq {"razorpay", "mock", "contract"}
    /\ None \notin {"SUCCESS", "FAILED", "UNCERTAIN"}

VARIABLES adapter,    \* the payout gateway in use
          rows,       \* payout_transactions, at most one row per claim
          transfers,  \* the gateway's side: transfers made for a claim
          runs,       \* runs[d]: how far delivery d is, with its copy of the row
          jobs,       \* jobs[j]: how far a reconciliation is, with what it loaded
          retries,    \* retries[a]: how far a retry request is
          completed,  \* claims whose payout.completed event was emitted
          succeeded,  \* history: claims whose row was once committed SUCCESS
          contested,  \* history: claims whose row was loaded to be written while a writer was under way
          exposed     \* history: claims with two retries at once, or one lost after its transfer

history == <<completed, succeeded, contested, exposed>>
payoutVars == <<adapter, rows, transfers, runs, jobs, retries, history>>
vars == <<reviewVars, payoutVars>>

Results == {"SUCCESS", "FAILED", "UNCERTAIN"}
NoRow == [status |-> "none", age |-> 0, ref |-> None, reconciled |-> FALSE]
Rows == [status: Results \cup {"none", "PENDING", "failed", "confirmed", "processing"},
         age: 0..ReviewAge, ref: Results \cup {None}, reconciled: BOOLEAN]
Answers == [status: Results, ref: Results \cup {None}]
Runs == [at: {"idle", "look", "insert", "resume", "call", "record", "emit", "done"},
         claim: Claims \cup {None}, copy: Rows, answer: Answers, silent: BOOLEAN]
Checks == [at: {"idle", "loaded", "checked"}, copy: [Claims -> Rows],
           answer: [Claims -> Results], verified: SUBSET Claims]
NoAnswer == [status |-> "UNCERTAIN", ref |-> None]

PayoutTypeOK ==
    /\ adapter \in Adapters
    /\ rows \in [Claims -> Rows]
    /\ transfers \in [Claims -> Nat]
    /\ runs \in [Deliveries -> Runs]
    /\ jobs \in [Jobs -> Checks]
    /\ retries \in [Retries -> [at: {"idle", "read", "called", "done"}, claim: Claims \cup {None},
                                result: {"confirmed", "processing"}]]
    /\ completed \subseteq Claims
    /\ succeeded \subseteq Claims
    /\ contested \subseteq Claims
    /\ exposed \subseteq Claims

\* What initiate may answer and whether the transfer is made.  The same key
\* never pays twice.  A time-out of razorpay leaves no reference, and any other
\* HTTP error is FAILED even when the request had reached it.
Initiations ==
    IF adapter = "razorpay"
    THEN {[status |-> "SUCCESS", ref |-> "SUCCESS", paid |-> TRUE]}
         \cup [status: {"UNCERTAIN", "FAILED"}, ref: {None}, paid: BOOLEAN]
    ELSE IF adapter = "mock"
    THEN {[status |-> s, ref |-> s, paid |-> s = "SUCCESS"] : s \in Results}
    ELSE {[status |-> "SUCCESS", ref |-> "SUCCESS", paid |-> TRUE],
          [status |-> "FAILED", ref |-> "FAILED", paid |-> FALSE]}
         \cup [status: {"UNCERTAIN"}, ref: {"UNCERTAIN"}, paid: BOOLEAN]

\* Faulty variant: a payout without a reference counts as made.
LookupTrusting(c, ref) ==
    IF ref = None THEN {"SUCCESS"}
    ELSE {IF adapter = "mock" THEN ref ELSE IF transfers[c] > 0 THEN "SUCCESS" ELSE "FAILED",
          "UNCERTAIN"}

\* What check_status may answer for a reference; without one it is not asked.
Lookup(c, ref) ==
    IF ref = None THEN {"UNCERTAIN"}
    ELSE {IF adapter = "mock" THEN ref ELSE IF transfers[c] > 0 THEN "SUCCESS" ELSE "FAILED",
          "UNCERTAIN"}

\* razorpay reports the amount in paise, the row holds rupees.
AmountsAgree == adapter # "razorpay"

\* The ORM writes a column only if it differs from what the session read.
Written(old, new, current) == IF new = old THEN current ELSE new

Idle == [at |-> "idle", claim |-> None, copy |-> NoRow, answer |-> NoAnswer, silent |-> FALSE]
At(d, phase) == runs[d].at = phase
Move(d, phase) == runs' = [runs EXCEPT ![d].at = phase]
Finish(d) == runs' = [runs EXCEPT ![d] = [Idle EXCEPT !.at = "done", !.claim = runs[d].claim]]

\* Someone holds a copy of the claim's row and is going to write it.
InFlight(c) ==
    \/ \E d \in Deliveries : runs[d].claim = c /\ runs[d].at \in {"resume", "call", "record"}
    \/ \E j \in Jobs : jobs[j].copy[c].status = "UNCERTAIN"
NoteContested(taken) == contested' = contested \cup {c \in taken : InFlight(c)}

\* A delivery finds its claim approved, in whatever case the status is written.
Receive(d, c) ==
    /\ At(d, "idle")
    /\ c \in announced
    /\ claims[c].status = "approved"
    /\ runs' = [runs EXCEPT ![d].at = "look", ![d].claim = c]
    /\ UNCHANGED <<reviewVars, adapter, rows, transfers, jobs, retries, history>>

\* Faulty variant: a completed payout is not recognised, for its spelling.
HandledWhenPending(row) == row.status = "PENDING" /\ row.age < StaleAge

\* The payout is made, or another delivery is making it.
Handled(row) == row.status = "SUCCESS" \/ (row.status = "PENDING" /\ row.age < StaleAge)

\* The row under the claim's key decides: done, in progress, stale, to resume, or missing.
Look(d) ==
    LET c == runs[d].claim
        row == rows[c] IN
    /\ At(d, "look")
    /\ \/ /\ Handled(row)
          /\ Finish(d)
          /\ UNCHANGED <<rows, contested>>
       \/ /\ row.status = "PENDING" /\ ~Handled(row)
          /\ rows' = [rows EXCEPT ![c].status = "UNCERTAIN"]
          /\ runs' = [runs EXCEPT ![d].at = "resume", ![d].copy = [row EXCEPT !.status = "UNCERTAIN"]]
          /\ NoteContested({c})
       \/ /\ row.status \notin {"none", "PENDING"} /\ ~Handled(row)
          /\ runs' = [runs EXCEPT ![d].at = "resume", ![d].copy = row]
          /\ NoteContested({c})
          /\ UNCHANGED rows
       \/ /\ row.status = "none"
          /\ Move(d, "insert")
          /\ UNCHANGED <<rows, contested>>
    /\ UNCHANGED <<reviewVars, adapter, transfers, jobs, retries, completed, succeeded, exposed>>

\* The unique key lets one insert through.  The other delivery rereads the row
\* and, unless it is SUCCESS, goes on to the gateway as well; its rollback has
\* expired the claim, so that it can no longer build its event.
Insert(d) ==
    LET c == runs[d].claim
        fresh == [NoRow EXCEPT !.status = "PENDING"] IN
    /\ At(d, "insert")
    /\ \/ /\ rows[c].status = "none"
          /\ rows' = [rows EXCEPT ![c] = fresh]
          /\ runs' = [runs EXCEPT ![d].at = "call", ![d].copy = fresh]
          /\ UNCHANGED contested
       \/ /\ rows[c].status = "SUCCESS"
          /\ Finish(d)
          /\ UNCHANGED <<rows, contested>>
       \/ /\ rows[c].status \notin {"none", "SUCCESS"}
          /\ runs' = [runs EXCEPT ![d].at = "call", ![d].copy = rows[c], ![d].silent = TRUE]
          /\ NoteContested({c})
          /\ UNCHANGED rows
    /\ UNCHANGED <<reviewVars, adapter, transfers, jobs, retries, completed, succeeded, exposed>>

\* A payout that failed or is uncertain becomes PENDING again; initiated_at stays.
Resume(d) ==
    /\ At(d, "resume")
    /\ rows' = [rows EXCEPT ![runs[d].claim].status = "PENDING"]
    /\ runs' = [runs EXCEPT ![d].at = "call", ![d].copy.status = "PENDING"]
    /\ UNCHANGED <<reviewVars, adapter, transfers, jobs, retries, history>>

\* Faulty variant: every call has a key of its own.
CallAfresh(d) ==
    /\ At(d, "call")
    /\ \E i \in Initiations :
          /\ runs' = [runs EXCEPT ![d].at = "record",
                                  ![d].answer = [status |-> i.status, ref |-> i.ref]]
          /\ transfers' = [transfers EXCEPT ![runs[d].claim] = IF i.paid THEN @ + 1 ELSE @]
    /\ UNCHANGED <<reviewVars, adapter, rows, jobs, retries, history>>

CallGateway(d) ==
    LET c == runs[d].claim IN
    /\ At(d, "call")
    /\ \E i \in Initiations :
          /\ runs' = [runs EXCEPT ![d].at = "record",
                                  ![d].answer = [status |-> i.status, ref |-> i.ref]]
          /\ transfers' = [transfers EXCEPT ![c] = IF i.paid /\ @ = 0 THEN 1 ELSE @]
    /\ UNCHANGED <<reviewVars, adapter, rows, jobs, retries, history>>

\* The answer is written over whatever the row says by now.
Record(d) ==
    LET c == runs[d].claim
        copy == runs[d].copy
        answer == runs[d].answer
        status == Written(copy.status, answer.status, rows[c].status) IN
    /\ At(d, "record")
    /\ rows' = [rows EXCEPT ![c].status = status,
                            ![c].ref = Written(copy.ref, answer.ref, rows[c].ref)]
    /\ succeeded' = IF status = "SUCCESS" THEN succeeded \cup {c} ELSE succeeded
    /\ IF runs[d].silent THEN Finish(d) ELSE Move(d, "emit")
    /\ UNCHANGED <<reviewVars, adapter, transfers, jobs, retries, completed, contested, exposed>>

Emit(d) ==
    /\ At(d, "emit")
    /\ completed' = IF runs[d].answer.status = "SUCCESS"
                    THEN completed \cup {runs[d].claim} ELSE completed
    /\ Finish(d)
    /\ UNCHANGED <<reviewVars, adapter, rows, transfers, jobs, retries, succeeded, contested, exposed>>

\* The process dies, or the database or Redis refuses a write.
DeliveryFails(d) ==
    /\ runs[d].at \notin {"idle", "done"}
    /\ Finish(d)
    /\ UNCHANGED <<reviewVars, adapter, rows, transfers, jobs, retries, history>>

\* Faulty variant: an escalated payout is not looked up again.
DueUnescalated(copy) ==
    {c \in Claims : copy[c].status = "UNCERTAIN" /\ copy[c].age \in RecheckAge..(EscalateAge - 1)}

\* A row of the job's copy that it has to ask the gateway about.
Due(copy) == {c \in Claims : copy[c].status = "UNCERTAIN" /\ copy[c].age >= RecheckAge}
Reviewable == {c \in Claims : /\ rows[c].status = "SUCCESS"
                              /\ ~rows[c].reconciled
                              /\ rows[c].age >= ReviewAge}

\* A run of the job loads the uncertain rows.
LoadUncertain(j) ==
    /\ jobs[j].at = "idle"
    /\ Due(rows) # {} \/ Reviewable # {}
    /\ jobs' = [jobs EXCEPT ![j].at = "loaded", ![j].copy =
                     [c \in Claims |-> IF c \in Due(rows) THEN rows[c] ELSE NoRow]]
    /\ NoteContested(Due(rows))
    /\ UNCHANGED <<reviewVars, adapter, rows, transfers, runs, retries, completed, succeeded, exposed>>

\* It asks the gateway about each of them and about old successes.
CheckWith(j, answer, verified) ==
    /\ jobs[j].at = "loaded"
    /\ \A c \in Claims : IF c \in Due(jobs[j].copy)
                         THEN answer[c] \in Lookup(c, jobs[j].copy[c].ref)
                         ELSE answer[c] = "UNCERTAIN"
    /\ verified \subseteq {c \in Reviewable : AmountsAgree /\ "SUCCESS" \in Lookup(c, rows[c].ref)}
    /\ jobs' = [jobs EXCEPT ![j].at = "checked", ![j].answer = answer, ![j].verified = verified]
    /\ UNCHANGED <<reviewVars, adapter, rows, transfers, runs, retries, history>>

CheckGateway(j) ==
    \E answer \in [Claims -> Results], verified \in SUBSET Reviewable : CheckWith(j, answer, verified)

\* The check in which the gateway knows every reference it is asked about.
CheckAnswered(j) ==
    \E answer \in [Claims -> Results], verified \in SUBSET Reviewable :
        /\ \A c \in Due(jobs[j].copy) : jobs[j].copy[c].ref # None => answer[c] # "UNCERTAIN"
        /\ CheckWith(j, answer, verified)

\* One commit for the whole run.  A row without an answer stays, and one that
\* is old enough to be escalated loses its reconciled mark.
Reconciled(j, c) ==
    LET copy == jobs[j].copy[c]
        answer == jobs[j].answer[c]
        row == rows[c]
        mark == IF c \in Due(jobs[j].copy) /\ (answer # "UNCERTAIN" \/ copy.age >= EscalateAge)
                THEN Written(copy.reconciled, answer # "UNCERTAIN", row.reconciled)
                ELSE row.reconciled IN
    [row EXCEPT !.status = IF c \in Due(jobs[j].copy) THEN Written("UNCERTAIN", answer, @) ELSE @,
                !.reconciled = mark \/ c \in jobs[j].verified]

CommitReconciliation(j) ==
    /\ jobs[j].at = "checked"
    /\ rows' = [c \in Claims |-> Reconciled(j, c)]
    /\ succeeded' = succeeded \cup {c \in Due(jobs[j].copy) : jobs[j].answer[c] = "SUCCESS"}
    /\ jobs' = [jobs EXCEPT ![j] = [at |-> "idle", copy |-> [c \in Claims |-> NoRow],
                                    answer |-> [c \in Claims |-> "UNCERTAIN"], verified |-> {}]]
    /\ UNCHANGED <<reviewVars, adapter, transfers, runs, retries, completed, contested, exposed>>

\* The commit of a run whose every question was answered.
CommitAnswered(j) ==
    /\ \A c \in Due(jobs[j].copy) : jobs[j].copy[c].ref # None => jobs[j].answer[c] # "UNCERTAIN"
    /\ CommitReconciliation(j)

\* An alert that cannot be published, or a replica that dies, loses the whole run.
ReconciliationFails(j) ==
    /\ jobs[j].at # "idle"
    /\ jobs' = [jobs EXCEPT ![j] = [at |-> "idle", copy |-> [c \in Claims |-> NoRow],
                                    answer |-> [c \in Claims |-> "UNCERTAIN"], verified |-> {}]]
    /\ UNCHANGED <<reviewVars, adapter, rows, transfers, runs, retries, history>>

Retrying(c) == {a \in Retries : retries[a].claim = c /\ retries[a].at \in {"read", "called"}}

\* An administrator retries a payout that is failed; FAILED, the processor's
\* spelling, is refused.
ReadForRetry(a, c) ==
    /\ retries[a].at = "idle"
    /\ rows[c].status = "failed"
    /\ retries' = [retries EXCEPT ![a].at = "read", ![a].claim = c]
    /\ exposed' = IF Retrying(c) # {} THEN exposed \cup {c} ELSE exposed
    /\ UNCHANGED <<reviewVars, adapter, rows, transfers, runs, jobs, completed, succeeded, contested>>

\* The key of the call is new, so that the gateway makes a transfer of its own.
CallForRetry(a) ==
    /\ retries[a].at = "read"
    /\ transfers' = [transfers EXCEPT ![retries[a].claim] = @ + 1]
    /\ \E result \in {"confirmed", "processing"} :
          retries' = [retries EXCEPT ![a].at = "called", ![a].result = result]
    /\ UNCHANGED <<reviewVars, adapter, rows, runs, jobs, history>>

CommitRetry(a) ==
    /\ retries[a].at = "called"
    /\ rows' = [rows EXCEPT ![retries[a].claim].status = retries[a].result]
    /\ retries' = [retries EXCEPT ![a].at = "done"]
    /\ UNCHANGED <<reviewVars, adapter, transfers, runs, jobs, history>>

RetryFails(a) ==
    /\ retries[a].at \in {"read", "called"}
    /\ retries' = [retries EXCEPT ![a].at = "done"]
    /\ exposed' = IF retries[a].at = "called" THEN exposed \cup {retries[a].claim} ELSE exposed
    /\ UNCHANGED <<reviewVars, adapter, rows, transfers, runs, jobs, completed, succeeded, contested>>

\* Time passes for every payout.
Tick ==
    /\ \E c \in Claims : rows[c].status # "none" /\ rows[c].age < ReviewAge
    /\ rows' = [c \in Claims |->
                  IF rows[c].status # "none" /\ rows[c].age < ReviewAge
                  THEN [rows[c] EXCEPT !.age = @ + 1] ELSE rows[c]]
    /\ UNCHANGED <<reviewVars, adapter, transfers, runs, jobs, retries, history>>

\* Claims without a payout yet, or paid by initiate_payout with a failed one.
Init ==
    /\ ReviewInit
    /\ adapter \in Adapters
    /\ rows = [c \in Claims |-> [NoRow EXCEPT !.status =
                                     IF claims[c].status = "paid" THEN "failed" ELSE "none"]]
    /\ transfers = [c \in Claims |-> 0]
    /\ runs = [d \in Deliveries |-> Idle]
    /\ jobs = [j \in Jobs |-> [at |-> "idle", copy |-> [c \in Claims |-> NoRow],
                               answer |-> [c \in Claims |-> "UNCERTAIN"], verified |-> {}]]
    /\ retries = [a \in Retries |-> [at |-> "idle", claim |-> None, result |-> "processing"]]
    /\ completed = {}
    /\ succeeded = {}
    /\ contested = {}
    /\ exposed = {}

Process(d) ==
    \/ \E c \in Claims : Receive(d, c)
    \/ Look(d) \/ Insert(d) \/ Resume(d) \/ CallGateway(d) \/ Record(d) \/ Emit(d)

Reconcile(j) == LoadUncertain(j) \/ CheckGateway(j) \/ CommitReconciliation(j)

Retry(a) == (\E c \in Claims : ReadForRetry(a, c)) \/ CallForRetry(a) \/ CommitRetry(a) \/ RetryFails(a)

Next ==
    \/ ReviewNext /\ UNCHANGED payoutVars
    \/ \E d \in Deliveries : Process(d) \/ DeliveryFails(d)
    \/ \E j \in Jobs : Reconcile(j) \/ ReconciliationFails(j)
    \/ \E a \in Retries : Retry(a)
    \/ Tick

Spec == Init /\ [][Next]_vars
\* The job runs again and again, and the gateway and Redis are not down every time.
SettlementFairness ==
    /\ WF_vars(Tick)
    /\ \A j \in Jobs : /\ WF_vars(LoadUncertain(j))
                       /\ WF_vars(CommitReconciliation(j))
                       /\ SF_vars(CheckAnswered(j))
                       /\ SF_vars(CommitAnswered(j))

FairSpec == Spec /\ SettlementFairness
-----------------------------------------------------------------------------
\* A payout recorded as made was made, whoever recorded it: a delivery, a late
\* delivery, a reconciliation or a retry; it is recorded only for an approval
\* that was announced, and payout.completed is published only for a recorded one.
RecordsTruthful ==
    /\ \A c \in Claims : rows[c].status \in {"SUCCESS", "confirmed", "processing"} => transfers[c] > 0
    /\ announced \subseteq approved
    /\ completed \subseteq succeeded
    /\ succeeded \subseteq announced

\* A payout recorded as made stays so, unless its row was loaded by one writer
\* while another was on its way to the gateway or back.
SuccessStands == \A c \in succeeded \ contested : rows[c].status = "SUCCESS"

\* One claim moves money once, unless two retries ran at the same time or one
\* was lost between its transfer and its commit.
PaidOnce == \A c \in Claims \ exposed : transfers[c] <= 1

\* With a gateway that answers for its references, the job settles every payout
\* that is uncertain and has one.
UncertainResolved ==
    adapter = "contract" =>
        \A c \in Claims :
            (rows[c].status = "UNCERTAIN" /\ rows[c].ref # None) ~> (rows[c].status # "UNCERTAIN")

=============================================================================
