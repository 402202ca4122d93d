# Suraksha Weekly: TLA+ models and proofs

Suraksha Weekly pays gig workers a fixed weekly insurance cover when a measured
event (rain, heat, pollution, a curfew, a platform outage) hits their zone. No
worker has to file anything: a poller measures, writes a trigger event and
publishes its id, and the API turns the trigger into claims and payouts. What
can go wrong there is money: paid twice, paid and not recorded, not paid. This
directory models the path from the weather reading to the payout and the parts
around it (policies and prices, fraud scores and clusters, human review, logins
and rate limits, lists read page by page), the stand-alone trigger and fraud
services and the TypeScript prototype, checks them with TLC and proves their
safety properties with TLAPS. Paths below are relative to the repository root;
`api/` stands for `services/api/`.

## The system

| Component | Code | State it keeps | Operations | Talks to |
|---|---|---|---|---|
| Trigger poller | `services/trigger-poller/` | feed cache and breach timers in Redis, rows in `trigger_events` | one cycle every 300 s: fetch, evaluate, write, publish | Redis channel `trigger_events` |
| Stand-alone trigger service | `services/trigger/` | conditions of the last polls and the restriction switch in memory, adapter caches in Redis, event rows | poll, insert, confirm, announce | a queue |
| Listener, orchestration | `api/app.py`, `api/services/claim_orchestrator.py` | `claims` | receive an id, find policies, settle a claim per policy, one commit per claim | scoring, payout initiation |
| Fraud scoring | `api/services/fraud_scoring_service.py` | `fraud_assessments` (unique per claim) | score a new claim | the claim's transaction, the review queue |
| Fraud clusters | `api/services/fraud_graph_service.py` | `fraud_clusters`, the tags of claims | analyse at the start of every replica and on demand | administration |
| Stand-alone fraud service | `services/fraud/` | the model in memory, assessments | score a claim, announce | a Redis list nothing reads |
| Lists | `api/routers/admin.py`, `payouts.py`, `claims.py`, `policy.py` | first pages in Redis | read page by page | the rows of the others |
| Payout initiation, retry | `api/services/payout_service.py` | `payout_transactions` (unique idempotency key) | weekly cap, pending row, gateway call, outcome; retry of a failed one | gateway |
| Payout processor | `api/services/payout_processor.py` | payout status | process `claim.approved` | gateway adapter, `payout.completed` |
| Reconciliation job | `api/jobs/reconciliation.py` | payout status | ask the gateway about uncertain payouts, escalate | gateway adapter |
| Review queue, state machine | `api/routers/review_queue.py`, `api/services/claim_state_machine.py` | claim status | decide | `claim.approved` |
| Worker claim routes | `api/routers/claims.py` | `claims` | apply, appeal, read | publishes the trigger again |
| Trigger events API | `api/services/trigger_service.py` | `trigger_events` | simulate, read | publishes the trigger |
| Policies | `api/routers/policies.py`, `api/routers/policy.py` | `policies`, quotes and views in Redis, downgrade rows in `audit_logs` | quote, purchase, renew, upgrade, downgrade, cancel | eligibility reads the rows |
| Pricing, trust score, risk profile, ML | `api/services/`, `api/ml/` | worker's score and profile | price, recompute | policies |
| OTP, tokens, authentication | `api/services/otp_service.py`, `token_service.py`, `api/routers/auth_otp.py` | Redis keys | send, verify, rotate, revoke | rate limits |
| Rate limiting | `api/core/rate_limiter.py`, `api/middleware/` | sliding windows in Redis | admit or refuse | every route |
| Audit trail | `api/services/audit.py` | `audit_logs` | append, in a detached task | a renewal reads downgrade rows |
| TypeScript prototype | `apps/api/` | maps of one process | registration, policies, claims, reviews, payouts, ledger | nothing else |

Outside: demo and simulation routes, health probes, front ends, infrastructure
and scripts. `PROJECT.json`
gives every component's status.

### What is hard

* **Delivery.** Redis pub/sub hands a trigger to each of the two API replicas
  (`infra/k8s/api-deployment.yaml:6`), and `POST /claims/apply` publishes the
  same id again. Redis keeps nothing for a listener that is down.
* **Transactions.** PostgreSQL at READ COMMITTED. The check "does this claim
  exist" is a plain SELECT; a unique key, not the check, stops the second
  insert, by making it wait and then raise. No row is locked or versioned:
  renewals, upgrades, review decisions, appeals, deliveries and reconciliation
  runs all read a row in one round trip and write it in a later one.
* **Money before commit.** The gateway is called while the transaction that
  will record the transfer is still open. A retry takes a fresh key.
* **Two calls where one is meant.** Publish after commit, delete after get, count
  before compare: each pair of calls can be split by a failure or by another
  request.
* **Cleaning up.** After a failed claim the handler touches an expired ORM
  instance and raises, so the loop over the remaining workers ends.
* **Timers.** A breach must last 30 minutes to 2 hours, measured in one service
  by a Redis key with its own expiry, in the other by points in memory that are
  trimmed to a window, across skipped zones, cached readings and restarts.
* **Reading while others write.** A walk through a list takes several requests, and
  rows dated earlier may be committed between them; the scoring of a claim reads
  the worker's claims, the claim itself among them; an analysis tags claims that
  were decided since it began.
* **Tables that must agree.** The fraud engine's decisions and the queue's
  tiers; plan, premium and cover of a policy; claims, payouts and ledger of the
  prototype.

`PROJECT.json` lists every hazard at its line with the properties that cover it.

### What makes each component correct

* Pipeline: the rows of a claim appear together; one transaction at a time holds
  a pair (worker, trigger); each pair moves money at most once but for crashes;
  every eligible worker gets a claim; payouts exceed the weekly cap only where
  transactions overlap, and by a bounded amount; no wait for ever.
* Poller and evaluator: no trigger before its duration or on an old reading; a
  lasting breach is detected in time (which the poller does not keep); what is
  recorded is announced, unless a failure comes between.
* Policies: one cover per worker; end dates agree with the renewals that were
  counted; cover and premium stay within plan and engine; a quote is honoured; a
  view is not older than the last write; a cancellation is final.
* Review: an approval stands and is announced; what the engine stopped needs a
  risk administrator; what can be decided is decided.
* Settlement: what is recorded as paid was paid, once, and stays recorded;
  uncertain payouts are settled where the gateway can answer.
* Logins and limits: no window admits more than its limit; a refusal is deserved;
  codes and refresh tokens are used once; a logout lasts.
* Fraud: a block rests on the rules; an analysis records a cluster once and tags
  what it recorded.
* Lists: a walk that ends has shown every row that was there when it began.
* Prototype: purchases never overlap; claims, payouts and ledger agree; a burst
  waits for a reviewer.

## Modules

| Module | Models | Extends |
|---|---|---|
| `ClaimLedger` | abstract: what the pipeline promises about one pair | |
| `ClaimPipeline` | poller's writes and messages, replicas, applying workers, transactions, gateway | |
| `TriggerPoller` | one zone of the poll loop in live mode | |
| `TriggerEvaluator` | one zone of the stand-alone trigger service | |
| `PolicyLifecycle` | purchase, renewal, cancellation of one worker: status, dates, renewal count | |
| `Pricing` | both premium engines, covers, trust score, as integer formulas | |
| `PolicyTerms` | plan, premium, cover of a row; which router is mounted; the worker's profile | `PolicyLifecycle`, `Pricing` |
| `PolicyQuotes` | quotes and purchases of `policies.py` | `PolicyTerms` |
| `PolicyPlans` | `policy.py`: upgrades, downgrades and their audit rows, views | `PolicyTerms` |
| `PolicyRoutes` | composition of the two routers | `PolicyQuotes`, `PolicyPlans` |
| `FraudScore` | `score_claim` as a formula, and where a claim is routed | |
| `ReviewQueue` | decisions and appeals | `FraudScore` |
| `Settlement` | processor, reconciliation, retries, gateway adapters, composed with the queue that announces approvals | `ReviewQueue` |
| `RateLimiter` | sliding windows of the dependency and the middleware | |
| `Sessions` | one-time codes, logins, refresh tokens behind the limiter | `RateLimiter` |
| `PrototypeRules` | segments, caps, fraud points, trigger readings of the prototype | |
| `PrototypePolicies` | its workers and policies | `PrototypeRules` |
| `PrototypeClaims` | its claims, reviews, payouts, ledger | `PrototypePolicies` |
| `FraudService` | `POST /internal/fraud/score` of the stand-alone fraud service | |
| `FraudClusters` | concurrent runs of `analyze_fraud_graph` | |
| `Listings` | lists read by cursor, with a cached first page, or by offset | |
| `MC*` | TLC instances; `MCServices` and `MCApiParts` put parts that share no state side by side, one running in each behaviour | |
| `*Proofs` | theorems, see below | |

Operators whose comment starts with "Faulty variant" are not part of a
specification. Each is the definition that follows it with a plausible mistake;
`PROJECT.json` pairs it with the property that exposes it.

### ClaimPipeline and the code

Committed rows are `claims`, `assessments` and `payouts`, indexed by
`<<worker, trigger>>`: with one active policy per worker that is the idempotency
key `worker:policy:trigger` (`PolicyLifecycle` shows when that premise fails).
`sess[s]` is what the open transaction of a listener or request has written; its
`pc` stands between two statements at which other sessions can run.

| Action | Code |
|---|---|
| `PollWrite`, `PollPublish`, `PollCrash` | `db_writer.write_trigger_event`, `poller._publish_trigger`, a crash in between |
| `SimulatePublish`, `SimulateCommit`, `SimulateAbort` | `simulate_trigger` flushes and publishes; the route commits or fails |
| `Receive`, `NextWorker`, `FinishDelivery` | `_trigger_event_listener` and the loop of `orchestrate_claims` |
| `Apply`, `Republish` | `apply_for_claim` from its checks to its publication |
| `InsertClaim` | flush of the claim: waits for a session that holds the key, raises if the row is there |
| `Score` | `score_claim`: decision, or the unique constraint of a second assessment |
| `CreatePayout`, `CallGateway` | `initiate_payout` before and after the gateway's answer |
| `Commit` | the commit per claim; the listener goes on to the next worker |
| `Fail`, `Crash`, `Appeal` | an exception between statements, the death of a process, `submit_appeal` |

Scores are abstracted to the three routes they lead to; `FraudScore` computes
them. The payout amount is `BasePayout`, cut to what the week leaves. Time does
not pass: all payouts fall in one week, which is the case the cap is about.

### The two trigger services and the code

`TriggerPoller`: the clock counts 300 s intervals, the poll interval and also the
life of a cache entry. `timer[k]` is the Redis key `trigger_duration:k:zone`,
alive for three durations and never refreshed. `cache[k]` is the feed's cache
entry. `batch` is what `run_poll_cycle` still has to write and publish.
`PollZone` is `fetch_zone_reading` with `evaluate_all_triggers`; an unavailable
feed without a cache entry skips the whole zone, the curfew and outage feeds
included. With one live source, confidence reaches the limit of 0.75 only from
one and a half times the threshold on, hence the levels `weak` and `strong`.
ExtremeHeat would need 63 degrees for that and is left out. Mock mode skips the
durations and is left out too; note that `infra/docker-compose.yml` runs the
poller in mock mode. `client` says what kind of Redis client runs:
`evaluator.py:70` is written for one that returns bytes, `poller.py:166` opens
one that returns str. `Init` takes it from `Clients`, and it never changes. With
the str client every poll restarts the timer, so no kind that has a duration ever
fires: proved as `MainsClientNeverFires`, shown on one breach by
`PollerTimerRestarts`. The safety run and the other theorems are about both
clients. What is checked there of the moment of firing says something about local
feeds under the client that runs, and about timed kinds only under the other.

`TriggerEvaluator`: `PassTime` is the scheduler, which may start a job up to
`Grace` late and skip a run that is later than that. `Poll` reads both adapters
and computes conditions, confidence and the trimmed history of every kind; the
kinds it still has to check are in `checks`, each with the call of
`_upsert_trigger` that comes next, and are taken in the code's order (`First`).
`Insert`, `Leave`, `Confirm` and `Announce` are `_upsert_trigger` between its calls;
`PollFails` is an exception that ends the job; `EvaluatorRestarts` loses memory.
Only the tests build this service (`main.py` never starts it), and its
repository is an interface, modelled from its calls. Reading the code for the
model showed: the real providers report rain and heat, or AQI, but never the
same, so a timed trigger is confirmed by two sources only with the mock adapters;
adapters cache for 300 s, so the cap for stale readings never applies; the
snapshot that suppresses repeated events contains `fetched_at`, so it suppresses
one only when no adapter answered; a feed that is down counts as calm and
restarts the duration; a failed queue leaves an event that is never announced.
The two services share no state. The service's README says the poller may run
alongside; each then records its own rows.

### The policy modules and the code

`buying[b]` is a purchase that has found no active policy and not yet committed.
`held[h]` is a row that `_load_policy` returned together with what the request
will do. SQLAlchemy writes the changed columns only, so `Renew` leaves the
status alone and `Cancel` the renewal count. Nothing in the program ends a
policy whose week is over: it stays active, refuses a new purchase, and a
renewal extends it from its old end date.

`app.py` mounts `policies.py`; `policy.py` is complete and tested but not
mounted. `router` picks one of them at the start. Every step of the composition
is a step of `PolicyLifecycle` or leaves it alone, so its theorems hold here as
well. `terms[p]` is what the row says besides: plan, premium, cover.

| Action | Code |
|---|---|
| `BuildQuote`, `WriteQuote`, `QuoteFails`, `QuoteExpires` | `get_quote`: priced, then put under one key per plan |
| `StartPurchase`, `ReadQuote`, `BuyQuoted`, `DeleteQuote`, `DeletionFails` | `purchase_policy`: check, read of the key, insert, deletion of the key |
| `StartPlan`, `BuyPlan` | purchase in `policy.py` |
| `ReadForRenewal`, `CommitRenewal` | `renew_policy`, with the downgrade it finds in the audit log |
| `ReadForUpgrade`, `CommitUpgrade`, `Invalidate`, `InvalidationFails` | `upgrade_policy` and the deletion of the cached view |
| `ScheduleDowngrade`, `InsertAudit`, `LoseAudit` | `downgrade_policy` and the detached task of `log_event` |
| `LoadView`, `CacheView`, `ViewExpires` | `get_policy` |
| `ProfileChanges` | risk profile and trust score as other components leave them |

Money is in paise and multipliers in hundredths, so that each rounding of the
code is one integer division. The second trust discount of `policy.py` takes a
premium at the floor below it (29 x 0.88 = 25.52); `PremiumBounded` states the
bound that does hold. Left out here: the list of policies, which `Listings`
models (its cache is dropped for two page sizes only); the 60 s quote cache of `pricing_service` (the routes pass
no Redis client); the explanation of a price.

### Fraud, review and settlement and the code

`Assess(s)` is `score_claim` for what it reads, `s`. Every caller scores a claim
once, right after it made it without tags, so the three rules on tags never
apply, though `fraud_scoring_service.py:20` lists one of them with its points and
`fraud_graph_service.py:263-264` expects the next assessment to pick a tag up. A full queue turns approvals into
holds, which join that same queue.

`ReadForDecision` and `CommitDecision` are `decide_review_queue_item` around its
first `await` after the read; `AnnounceApproval` is the publication after the
commit; `DecisionRaises` is the comparison of an aware with a naive time, which
every row loaded by the ORM meets (`OrmClaims`); `AdminReviewRaises` is
`admin_review_claim`, which names an undefined variable. The rows outside
`OrmClaims` are as the tests build them. `ReadForAppeal` and `CommitAppeal` are
`submit_appeal`.

| Action of `Settlement` | Code |
|---|---|
| `Receive`, `Look`, `Insert`, `Resume` | `process_claim_approved`: the event, the row under its key, the insert that may lose a race, a pending row taken over when it is stale |
| `CallGateway`, `Record`, `Emit`, `DeliveryFails` | the adapter's answer, the commit, `payout.completed`, an exception or crash in between |
| `LoadUncertain`, `CheckGateway`, `CommitReconciliation`, `ReconciliationFails` | one run of `PayoutReconciliationJob`: rows loaded, a lookup for each, one commit at the end |
| `ReadForRetry`, `CallForRetry`, `CommitRetry`, `RetryFails` | `retry_failed_payout` |

The three adapters differ in what they answer and look up. Razorpay's uncertain
rows have no reference and the mock's stay uncertain; only the adapter of the
contract tests settles them. Nothing in the repository consumes
`claim.approved`; the processor is driven as its tests drive it.
`_payout_reconciliation_loop` in `api/app.py` is started by nothing, the job is
(`app.py:264-266`).

### Sessions, rate limits and the code

A window is a Redis sorted set; `Check` is the pipeline that trims, counts and
adds for one window, in the order of the dependency or the middleware. Calls are
counted before the limit is compared, so refused calls count too. The clocks of
two replicas are at most `Spread` apart. `Sessions` gives every admitted call a handler and splits it at
each Redis command and each commit: `Ask`, `StoreCode`, `RecordAsk`; `Verify`,
`DeleteCode`, `LookUpWorker`, `Register`, `IssueTokens`; `Refresh`, `Reread`,
`PutToken` or `DropToken`; `Logout`; and `HandlerFails` for a crash anywhere.
`auth_otp.py` is not mounted; the mounted `auth.py` has the same pair of get and
delete and issues access tokens only, which keep no state.

### The fraud service, clusters and lists and the code

`FraudService`: `ReadAndScore` is `_fetch_claim_context` with the rules, the model
and the score, which run without a pause on what was read; `StoreAssessment` is
the upsert, so the later of two requests stands; `AnnounceScore` pushes onto a
list. The model is loaded for the first score, and a failure to load it is
remembered until `ServiceRestarts`. Scores are in ten-thousandths, to which the
code rounds the rules' part, and weights in tenths. What the rules read besides
the worker's claims is a signal. The sessions that are read carry no position,
so the rule on impossible travel is never triggered. Reading the code for the
model showed that
`duplicate_claim_check` (`services/fraud/app/rules/rule_engine.py:47`) looks through
the worker's claims, which the query at `services/fraud/main.py:342-353` returns
with the claim that is scored: every claim that was not rejected is taken for
its own duplicate and blocked. The tests of the rule pass other claims only.
The API does not call this service, and its queries name columns that no
migration makes. `DecisionsGrounded` states what the service does.

`FraudClusters`: `BuildGraph`, `FindBursts`, then per cluster `SkipCluster` or
`PersistCluster`, then `CommitAnalysis` are the statements of one transaction of
`analyze_fraud_graph`; claims are filed and decided between them. The check for
an existing cluster sees committed rows only, and no key stops a second one, so
runs that overlap may each record a node: `ClustersConsistent` bounds the rows of
a node by the runs that can be open at once. A cluster is never extended by
workers who join it later.

`Listings`: `FirstPage` reads and `SavePage` caches, with writes and the dropping
of the cache in between; `NextPage` follows a cursor of time and id; `OffsetPage`
is what `ORDER BY time DESC OFFSET n LIMIT m` may return, the rows of one time in
any order. A row's time is older than its commit, so that `AddRow` may add one
that is dated before rows shown.

### The prototype and the code

Node runs one request at a time and the prototype keeps its state in the maps of
one process, so a request is one action; the ingestion of a trigger, which
creates a claim per policy, is a step per policy with nothing in between
(`AutoInitiate`, `Answer`). `Lapsed` is the lapse that several routes apply on
reading. Only the quote, not the purchase, refuses an ineligible worker. Claims
keep the raw trigger type while the duplicate window compares the normalised
one. A retry or resolution of a payout that had succeeded sets a claim rejected
since back to paid. Renewing a policy twice, or one that lapsed or was
cancelled, gives overlapping cover, although `policyService.ts:17` says "No
retroactive policy activation."; so `PurchasesDisjoint` is about purchases, and
triggers, which do not look at a policy's start, may pay a policy and its renewal
for one incident. `claimOrchestrator.ts` (surge mode) is imported by nothing but
its own test and is left out.

## Runs

| Run | Instance | Result |
|---|---|---|
| `PipelineSafety` | 1 worker, 1 trigger, 2 replicas, 1 applying request, 2 faults | `AtomicSettlement`, `ExclusiveClaim`, `TransferAccounted`, the refinement `LedgerSpec` and `TransactionsEnd` hold |
| `PipelineProgress` | 2 workers, 2 triggers, 1 replica, no faults, nobody applies | `PolledTriggerSettled` holds |
| `ServicesSafety` | poller: durations 1 and 2, a local feed, clock to 4, 1 fault, either client; evaluator: a condition that lasts 2 polls, polls up to one tick late, real providers or mocks, 1 mishap, 1 ended event; fraud service: 4 claims of a worker about 2 triggers, one of them scored, 1 request, two signals; clusters: 2 workers, 2 claims in a zone, 2 analyses | the poller's `FiresAfterSustainedBreach`, `FiresOnRecentReading`, `UnsentAccounted`, the evaluator's `DetectionSustained`, `SustainedDetected`, `EventsAnnounced`, and `DecisionsGrounded`, `ClustersConsistent` hold |
| `PolicySafety` | 2 policies, 1 buyer, 2 holders, 2 quotes, 2 askers, 1 viewer, 1 renewal and 1 downgrade row per policy, either router | `AtMostOneActive`, `EndMatchesRenewals`, `CancelledForGood`, `CoverWithinPlan`, `PremiumBounded`, `ViewFresh`, `QuoteHonoured` hold |
| `ReviewSafety` | 2 claims, one as the ORM loads it, 2 reviewers of whom 1 is a risk administrator, 2 appeals, five signals and the demo's rows | `ApprovalStands`, `ApprovalsAnnounced`, `StoppedNeedsAdmin`, `ComparableDecided` hold |
| `SettlementSafety` | 1 claim, 1 reviewer, 1 appeal, 2 deliveries, 1 job, 2 retries, each of three adapters | `RecordsTruthful`, `SuccessStands`, `PaidOnce`, `UncertainResolved` hold |
| `ApiPartsSafety` | limits: 3 calls, a short and a long window, clocks of replicas up to 1 tick apart; logins behind them, with clocks that agree: codes of 2 ticks, 1 device; lists: 3 rows of which 2 share their time, 2 readers, 1 row a page; payouts: 1 worker, 3 triggers, 2 replicas, 1 fault | `OverrunBounded`, `AdmittedBounded`, `RefusalDeserved`, `CodeUsedOnce`, `AsksBounded`, `TokenRotatedOnce`, `LoggedOutStays`, `WalksComplete` hold |
| `PrototypeSafety` | 1 worker of two profiles, 2 policies, 2 incidents, 2 claims, a settled and a pending answer, 1 change of profile or thresholds | `PurchasesDisjoint`, `MoneyAccounted`, `BurstBounded` hold |
| `PipelineApplyStopsDelivery` | a worker may apply | `PolledTriggerSettled` fails: the applicant's claim ends the loop for the others |
| `PollerTimerRestarts` | str client, no fault | `SustainedBreachFires` fails: every poll restarts the timer |
| `ReviewNeverDecides` | rows as the ORM loads them | `ReviewedEventually` fails: every decision raises before it changes anything |
| `PlanDowngradeReturns` | `policy.py`, 1 policy | `DowngradeOnce` fails: a downgrade row is applied again by every later renewal |

The last four each refute what a comment, docstring or answer of the program
says; `findings` in `PROJECT.json` quotes it.

**Reading the passing runs.** Transactions read the weekly sum without seeing
each other's payout, so two of one worker may both pay up to the cap, although
`services/payout_service.py:14` says "cumulative confirmed payouts this week".
`OverrunBounded`, checked in `ApiPartsSafety`, bounds what that costs: a base
payout for every session but one.

`PipelineProgress` is restricted on purpose. Two
replicas that walk three workers in different orders can end each other's loops,
so that one worker is reached by neither. An applicant breaks delivery (`PipelineApplyStopsDelivery`), and so does
a poller that dies before it publishes (`PollCrash`) and a `simulate_trigger`
whose id is read before its row is visible. What the run establishes is that
nothing else does.

Several properties name exceptions, and the exceptions are facts about the code:
two purchases that hold the check at once leave two active policies (`raced`);
a plan's cover may survive under another plan's name where a renewal and an
upgrade held the row together (`overlapped`); a view may be old after a failed
or early invalidation (`stained`); decisions on one claim overwrite each other
where they overlap (`overlaps`); so do deliveries, late answers and
reconciliation runs (`contested`); two retries at once, or one lost after its
transfer, pay twice (`exposed`); two verifications or rotations that overlap both
succeed. Each history variable marks exactly those, and the property says that
there is no other way.

`ReviewedEventually` fails for every row the ORM loads, so `ComparableDecided`
is about rows as the tests build them: there the protocol is live. Together with
a full queue, which holds every further approval, the first means that a
deployment that reaches a hundred held claims approves none automatically.

`UncertainResolved` is about the adapter of the contract tests, the only one
whose uncertain answers carry a reference that it later resolves.

**Bounds.** One pair is enough for the contention properties of the pipeline,
since only sessions that hold the same key wait for one another; in
`PipelineProgress` a second worker gives the loop something left to do and a
second trigger gives the poller one to write after it. In the payouts of
`ApiPartsSafety` one replica settles two triggers while the other holds a payout
it worked out before either, and the worker gets the five that the bound allows.
Three sessions give a holder, a
waiter and a third that arrives after either. Two faults let a failure follow a
recovery. `BasePayout = 2` under `WeeklyCap = 3` makes the second payout a cut
one. The poller's clock passes the expiry of the shorter timer; that of the
longer one is covered by the proofs. The evaluator's ticks are half a poll, so
that lateness moves a point across the edge of its window; its clock lets one
event be recorded, expire from the active window and be found again. In
`PolicySafety` a week passes, a policy is renewed or replaced, and quotes expire
between any two steps; two holders are two overlapping writes, and a third would
overlap with one of them in the same way. The worker has either the smallest
premium or no profile, where the floors are. The signals of `ReviewSafety` lie
next to the limits of both tables. Two deliveries, one job and two retries give
every pair of writers of one row; rows of different claims never meet, except in
one commit of the job, where each row is computed for itself. Three calls are two
that overlap and one after them. In the prototype two policies are enough to
overlap and two claims to exceed a burst limit of two (three in the code). The
proofs below do not depend on any bound.

**Deadlock.** `CHECK_DEADLOCK FALSE` wherever clocks, counters, requests and ids are
bounded, so that an instance comes to rest; the prototype always has a request
to take and is checked for deadlock. That no transaction waits for ever is
`TransactionsEnd`.

**Fairness.** `FairSpec` of the pipeline assumes weak fairness of each listener,
of each session's transaction, of the republication and of the caller that has
written or flushed a trigger: the asyncio loop resumes a task whose database or
gateway call has returned. Weak fairness suffices since each of these stays
enabled until taken, except an insert that waits, which PostgreSQL wakes when the
holder ends. Nothing obliges a worker to apply or appeal, a process to crash, or
the poller to find a breach. `ReviewFairness` has reviewers work through the
queue again and again, with strong fairness of a commit: the database does not
refuse every one. `SettlementFairness` runs the job again and
again (every 30 minutes, `reconciliation.py:292`), with strong fairness of an answered check and its
commit: the gateway and Redis are not down every time. No delivery, retry or
reviewer is obliged to do anything there.

## Proofs

For every value of the constants that satisfies the assumptions named in the
modules (`PipelineAssumption`, `PollerAssumption`, `EvaluatorAssumption`,
`PolicyAssumption`, `TermsAssumption`, `QuoteAssumption`, `PlanAssumption`,
`ReviewConstants`, `AgesOrdered`, `SettlementConstants`, `ScopesTyped`,
`TimesBounded`, `NilIsNil` and the other one-liners of `Sessions`,
`PolicyConstants` and `ClaimConstants` of the prototype, `ScoringAssumption`,
`ClusterAssumption`, `ListingAssumption`):

| Theorem | States |
|---|---|
| `TypeCorrect` | types of `ClaimPipeline` |
| `SettlementAtomic`, `ClaimExclusive`, `TransfersAccounted` | the safety invariants of `PipelineSafety` |
| `OverrunStaysBounded` | `OverrunBounded`, for any sessions and finitely many triggers |
| `PipelineImplementsLedger` | `Spec => LedgerSpec` |
| `PollerTypeCorrect`, `SustainedBeforeFiring`, `RecentBeforeFiring` | safety invariants of the poller |
| `UnsentRowsAccounted` | `UnsentAccounted`: unpublished active rows are at most as many as failures |
| `MainsClientNeverFires` | with the client that `main` opens, no kind with a duration ever fires |
| `PolicyTypeCorrect`, `EndsMatchRenewals`, `CancellationsLast`, `OneActivePolicy` | the properties of `PolicyLifecycle` |
| `RoutesImplementLifecycle` | `RoutesSpec => Spec` of `PolicyLifecycle`: either router implements the lifecycle |
| `RoutesOneActive`, `RoutesEndsMatch`, `RoutesCancellationsLast` | the same properties of the routes |
| `ViewsFresh` | `ViewFresh` |
| `RoutesTypeCorrect`, `CoverStaysWithinPlan`, `PremiumStaysBounded`, `QuotesAreHonoured` | types, covers, premiums and quotes of both routers |
| `ApprovalsStand`, `ApprovalsAreAnnounced`, `AdminsApproveStopped` | the safety properties of `ReviewSafety` |
| `SettlementImplementsQueue` | `Spec => ReviewSpec`: paying, reconciling and retrying never touch a decision |
| `PayoutTypeCorrect` | types of the payouts' side of `Settlement` |
| `RecordsAreTruthful`, `ClaimsArePaidOnce`, `SuccessesStand` | the safety properties of `SettlementSafety` |
| `EventsAnnouncedAlways`, `DetectionSustainedAlways`, `SustainedDetectedAlways` | the properties of the stand-alone trigger service |
| `LimiterInside` | what runs behind the limiter is a run of the limiter |
| `AdmittedBoundedAlways`, `RefusalDeservedAlways` | the properties of the sliding windows |
| `CodeUsedOnceAlways`, `AsksBoundedAlways`, `TokenRotatedOnceAlways`, `LoggedOutStaysAlways` | the properties of codes, tokens and logouts |
| `DecisionsAreGrounded` | decisions of the stand-alone fraud service |
| `ClustersStayConsistent` | clusters and tags, for any number of overlapping analyses |
| `WalksAreComplete` | walks through lists, for any rows, readers and page size |
| `PrototypePoliciesTyped`, `PrototypePurchasesDisjoint` | types and `PurchasesDisjoint` of the prototype |
| `BurstsAreBounded`, `MoneyIsAccounted` | bursts, and claims, payouts and ledger of the prototype |

Proofs about a module and about the modules it extends or composes are in one
file: `ClaimPipelineProofs`, `TriggerProofs` (`TriggerPoller` and
`TriggerEvaluator`), `FraudProofs` (`FraudService`, `FraudClusters` and
`Listings`), `PolicyRoutesProofs` (also `PolicyLifecycle`, `PolicyTerms`, `PolicyQuotes`,
`PolicyPlans`), `ReviewQueueProofs`, `SettlementProofs`, `SessionsProofs` (also
`RateLimiter`), `PrototypeProofs`.

**Pipeline.** `TypeInv` adds to `TypeOK` what a session's fields hold at each
`pc` (`SessionShape`), without which `Key(s)` has no type. `SettleInv` then
needs all its parts at once. `AtomicSettlement` survives a commit only if the
session carries a payout exactly when it carries "paid" (`Prepared`) and the
pair is still unsettled (`ExclusiveClaim`). `ExclusiveClaim` survives the other
sessions' commits only because each of them holds a pair alone. `Rescoring` says
that a listener handed an existing claim finds one with an assessment, so its
`Score` raises and it never reaches a payout. `TransferAccounted` needs
exclusion at the gateway call, and a rollback after it costs a fault. The step
lemmas treat the cases that look alike once (`SessionStep`, `QuietStep`,
`FaultStep`, `AnnounceStep`); the refinement maps `InsertClaim` to `CallGateway`
to stutters and `Commit` to `Pay` or `Withhold`.

The cap is about a sum over a set of rows, defined by a fold. The lemmas on `Total`
establish what the fold computes: that the recursive function it chooses exists and
is unique (`AdderExists`, `AddsOne`), that any element can be taken first
(`TotalTake`), that only the members count (`TotalSame`). In place of an induction
they take a counterexample that contains no smaller one (`SmallestSet`). `CapInv`
then bounds what is paid together with what the open transactions are about to
pay: a payout fits under the cap with what its transaction read, and the others
add at most a base payout each. So two replicas do break the cap, and by no more
than one payout.

**Poller.** `PollInv` adds that a timer was set during the breach still going on
(`TimerBacked`), which gives the duration; that a cached reading is dated when
it was measured (`CacheDated`); that only the head of a batch is
written and the batch is empty when a cycle is due (`BatchShape`); and that a
written head is counted (`SentCounted`). `StrNeverFires`, that with
the str client no timed kind is active in a batch, is inductive given the types:
a poll evaluates no timed kind as active whatever timer it finds, and nothing
else puts an evaluation into a batch.

**Policies.** `EndInv` adds that a held row exists and that end and count as
read agree with its start (`HeldRow`). Renewals may overwrite each other, and
still the two columns always stem from one reading. `AloneInv` adds that a buyer
who has found no active policy still finds none. `RoutesStep` sorts the steps of
both routers into steps of the lifecycle and stutters. `ViewInv` adds to
`ViewFresh` that only rows that exist are looked at (`ViewsExist`), so that a
purchase changes no cached view; that a request about to commit a renewal holds
the very row whose view it will invalidate (`RenewalsHeld`); and that under
`policies.py` there is no view at all (`OneRouter`). A commit changes what one
policy shows and leaves its request invalidating it (`CommitStep`).
`QuotesInv` follows a quote from its pricing to the purchase: it is built once,
by one request (`Built`, `AskingOwn`), and once told it is in the cache under its
plan or has left it (`ToldKept`); a purchase holds the quote it names or a fresh
price for one that left (`CartsInv`). `CoverInv` says of a row that it is priced
within its engine and, unless overlapped, covers no more than its plan allows,
and of what a request is about to write that it does so to the row as it is by
then (`WriterOK`). Both rest on bounds of the formulas of `Pricing` for every
profile: for `PremiumBounded` it matters that each engine's last step clips or
rounds what was bounded before it.

**Trigger service.** `RepositoryInv` adds to the types that a check that has found
no open row of its kind still finds none (`ChecksInv`) and counts the messages
owed apart from the one in hand (`OwedInv`). `HistoryInv` relates the points in
memory to the condition: when every point from one on saw it, it has been
unbroken since, though polls were skipped and points dropped. `LackingInv`
carries, for a condition that was seen and not found sustained, the lateness of
each poll (`Lateness`): once more polls were in vain than the duration holds, each
further one starts later relative to its schedule than the one before, and no
lateness exceeds the grace, which bounds the delay of a detection.

**Limits and logins.** `LimiterIInv` says that a member of a window is a count, at
its replica's clock (`Backed`), and that what no clock has let out is still
there (`Retained`); the two give the two properties, for a stated spread of
clocks, and `LimiterInside` carries them to the sessions. `SessionIInv` has
handlers in flight at once known to overlap (`Paired`) and a part for each
property: the stored code is the latest and unused (`StoredLatest`), a code
made is recorded unless its handler failed (`Recorded`), a token exchanged is no
session again (`Exchanged`), an exchange under way after a logout overlapped with
it (`ExchangeOverlaps`).

**Review.** `QueueInv` adds that a request in the middle of an approval has
committed it (`CommittedApproved`), that whoever is about to decide a claim was
entitled to when he read it and still is, since assessments never change
(`Entitled`), and that a claim nobody overlapped on has at most one request
between read and write, none once it is approved (`Undisturbed`). `StoppedIsHigh`
relates the two tables: every score of `score_claim`, for any signal, whose
decision is manual review or a block falls into a tier of the queue that needs a
risk administrator, and so do the demo's rows.

**Settlement.** Three invariants, each resting on the one before. `PayoutInv`
says that a row, a gateway answer under way or a job's copy claims a payout only
after a transfer (`RowSound`, `RunSound`, `JobSound`, `RetrySound`), and that the
processor's statuses are for announced claims; a delivery about to write never
holds a copy that says SUCCESS, which is why the ORM's skipping of unchanged
columns loses no success. `OnceInv` separates the payouts `initiate_payout` made
(`EarlyPaid`), which only retries touch and whose claims never come to a review
(`NeverReviewed`), from the processor's, whose key lets one transfer through; for
the former, while the payout reads failed and its one retry has not called the
gateway, nothing was transferred (`RetriedInTurn`). `StandInv` says that a claim
never contested has one writer at a time and none after its success
(`OneWriter`), and that a writer under way has a row, so that an insert finds
none. That decisions keep their properties while payouts run comes from
`SettlementImplementsQueue` and the invariant of the queue.

**Fraud and lists.** `ScoreInv` says that a result is grounded from the moment it
is worked out, whatever the claims become while the request holds it. Its
lemmas are about the formulas: without one of the four rules the weights add up
to 2.4 at most, too little for the highest tier (`FourNeeded`), and the model's
part is scaled below it (`ModelBelow`). `GraphInv` adds what an open transaction
holds: every node once, to be looked at or added, and nothing committed of its
own under the nodes it has added. `ListInv` says of every caller that what it has
not seen of the rows known at its first page lies beyond its cursor; of a cached
page the same, so that a stale one starts a walk as well as a fresh one; and of
a caller by offset that an unseen row with a time of its own has enough rows
before it to come on a later page (`WindowLeaves`).

**Prototype.** `CoverInv` adds to `PurchasesDisjoint` that no policy begins in the
future unless it is a renewal (`Began`) and that one marked lapsed has ended
(`Ended`): that a purchase finds no covering policy says nothing by itself of one
that begins later or was marked lapsed too early. `ClaimsInv` holds of claims and
money. `BurstInv` bounds what was approved unseen in every stretch of a burst's
length, not only in those that end at a claim, and needs that such a claim is
approved or paid. `KeysInv` says that no two claims have one key: claims by hand
are refused, and an ingested incident is new and meets a policy once, in the
order of the policies. With it and `OwnedInv` the payout found under a key is the
claim's own, so that a second approval answers with it and pays nothing.

The inductive invariants were evaluated by TLC on the instances above before
they were proved.

**Model-checked only:** liveness (`PolledTriggerSettled`, `TransactionsEnd`,
`ComparableDecided`, `UncertainResolved`), which is out of the prover's reach. The
type invariants are proved and not run. The violations are counterexamples and
need no proof.

## Not modelled, and why

* `POST /api/v1/fraud/check` of the stand-alone fraud service, which answers from
  its request and keeps nothing, its probes and its training.
* Health probes, the rest of administration, demo and simulation routes: they
  read, report, wipe the demo's tables, or call the operations modelled here.
  `simulation_service` computes what-if figures and writes nothing.
* Risk levels and notes of fraud clusters.
* Audit rows other than scheduled downgrades: written by detached tasks, read by
  no decision. Migration 001 and the ORM disagree on the columns of `audit_logs`.
* Machine learning and the risk profile: regressors without protocol. Their
  answers are choices within bounds (`Profiles`, `TermsAssumption`).
* The daily settlement report of the reconciliation job: reads and publishes.
* `moderation_router` (called by nothing; it compares scores of 0 to 1 with
  scores of 0 to 100).
* Catastrophe mode's counters in Redis: the mode raises a score, and
  `FraudScore` takes it as part of the signal.
* Sessions, premiums, reminders, support tickets, retention events and surge mode
  of the prototype.
* Front ends, infrastructure, scripts, load tests.

## Plan

Done: pipeline and ledger, poller, trigger evaluator, policies with both routers,
quotes, plans and prices, fraud scores and review queue, settlement, rate limits
and sessions, the stand-alone fraud service, fraud clusters, lists, and the
prototype; every safety property that a run checks is proved.

1. Composition of `TriggerPoller` with `ClaimPipeline`: each poll of a lasting
   breach is a new trigger with claims of its own, up to the weekly cap.
2. The steps of the liveness arguments that need no fairness: which action is
   enabled in each state of a transaction, and what decreases.
