-------------------------- MODULE PrototypeClaims --------------------------
(* Claims, payouts and the ledger of the TypeScript prototype, on top of its  *)
(* policies: claims by workers, claims from ingested triggers, reviews and    *)
(* the administrators' payout routes.  The ingestion of a trigger is a step   *)
(* per policy, during which nothing else happens.                             *)
EXTENDS PrototypePolicies, FiniteSets

CONSTANTS Incidents,       \* ids of disruptions, for triggers and for claims
          Event,           \* Event[e]: type, zone, source and confidence of incident e
          Answers,         \* what the payout adapter may answer, of Outcomes
          Amounts,         \* amounts a worker may ask for
          Thresholds,      \* fraud thresholds an administrator may set
          DefaultThresholds,
          DuplicateWindow, \* 30 minutes
          BurstWindow,     \* 60 minutes
          Day,             \* 24 hours
          BurstLimit,      \* claims in a burst, 3
          MaxClaims        \* bound on the number of claims

ASSUME ClaimConstants ==
    /\ {DuplicateWindow, BurstWindow, Day, MaxClaims} \subseteq Nat
    /\ BurstLimit \in Nat \ {0}
    /\ Amounts \subseteq Nat /\ Answers \subseteq {"success", "pending", "failed"}
    /\ Thresholds \cup {DefaultThresholds} \subseteq [critical: 1..200, high: 1..200, medium: 1..200]

VARIABLES claims,     \* the claims in the order of their creation
          payouts,    \* the payouts in the order of their creation
          ledger,     \* the ledger entries in the order of their creation
          thresholds, \* the fraud thresholds
          request     \* the request that is going over the policies, if any

claimVars == <<claims, payouts, ledger, thresholds, request>>
vars == <<policyVars, claimVars>>

Outcomes == {"success", "pending", "failed"}
Lanes == {"burst", "critical", "held", "approved"}
Types == {"manual"} \cup {Event[e].type : e \in Incidents}
Claims == [worker: Workers, policy: 1..MaxPolicies, incident: Incidents, type: Types,
           at: Nat, lane: Lanes, status: {"in_review", "approved", "rejected", "paid"},
           verdict: {"none", "approve", "reject"}]
NoRequest == [incident |-> "none", next |-> 0, outcome |-> "pending"]

PrototypeTypeOK ==
    /\ PoliciesTypeOK
    /\ claims \in Seq(Claims)
    /\ \A c \in DOMAIN claims : /\ claims[c].policy \in DOMAIN policies
                                /\ claims[c].worker = policies[claims[c].policy].worker
                                /\ claims[c].at <= now
    /\ payouts \in Seq([claim: DOMAIN claims, key: Workers \X (1..MaxPolicies) \X Incidents,
                        status: Outcomes])
    /\ ledger \in Seq([payout: DOMAIN payouts, status: {"pending", "settled", "failed"}])
    /\ thresholds \in Thresholds \cup {DefaultThresholds}
    /\ request.next \in 0..(Len(policies) + 1)

Since(age) == {c \in DOMAIN claims : claims[c].at >= now - age}
Of(w) == {c \in DOMAIN claims : claims[c].worker = w}
Key(claim) == <<claim.worker, claim.policy, claim.incident>>
Known(key) == \E c \in DOMAIN claims : Key(claims[c]) = key

\* A claim of w on policy i for this incident or type in the last 30 minutes.
RecentSimilar(w, i, fingerprint) ==
    \E c \in Of(w) \cap Since(DuplicateWindow) :
        claims[c].policy = i /\ fingerprint \in {claims[c].incident, claims[c].type}

\* Faulty variant: every earlier claim but the new one counts.
BurstAfter(w) ==
    Cardinality({c \in Of(w) \cap Since(BurstWindow) : claims[c].status # "rejected"}) >= BurstLimit

\* With the claim that is being made, w has BurstLimit claims in the last hour
\* that are not rejected.
Burst(w) ==
    Cardinality({c \in Of(w) \cap Since(BurstWindow) : claims[c].status # "rejected"}) + 1 >= BurstLimit

\* The claims the fraud score of a manual claim looks at, the new one included.
Context(w, e) ==
    [day |-> Cardinality(Of(w) \cap Since(Day)) + 1,
     week |-> Cardinality(Of(w) \cap Since(Week)) + 1,
     linked |-> Cardinality({v \in Workers \ {w} : /\ Of(v) \cap Since(BurstWindow) # {}
                                                   /\ profiles[v].zone = profiles[w].zone}),
     trigger |-> Cardinality({c \in DOMAIN claims : claims[c].incident = e}) + 1]

\* Where a new claim with this score goes.
Lane(w, score) ==
    CASE Burst(w) -> "burst"
      [] ~Burst(w) /\ FraudDecision(score, thresholds) = "critical" -> "critical"
      [] ~Burst(w) /\ FraudDecision(score, thresholds) \in {"high", "medium"} -> "held"
      [] OTHER -> "approved"

LedgerStatus(outcome) == IF outcome = "success" THEN "settled" ELSE outcome

\* The payout made under a key before, if any.
Made(key) == {p \in DOMAIN payouts : payouts[p].key = key}
PayoutStatus(key, outcome) == IF Made(key) = {} THEN outcome
                              ELSE payouts[CHOOSE p \in Made(key) : TRUE].status

\* A ledger entry and a payout, unless the key has one.
ProcessPayout(key, c, outcome) ==
    IF Made(key) # {} THEN UNCHANGED <<payouts, ledger>>
    ELSE /\ payouts' = Append(payouts, [claim |-> c, key |-> key, status |-> outcome])
         /\ ledger' = Append(ledger, [payout |-> Len(payouts) + 1, status |-> LedgerStatus(outcome)])

\* A new claim goes to review, is rejected, or is approved and paid out.
Enter(new, outcome) ==
    IF new.lane = "approved"
    THEN /\ claims' = Append(claims, [new EXCEPT !.status =
                          IF PayoutStatus(Key(new), outcome) = "success" THEN "paid" ELSE "approved"])
         /\ ProcessPayout(Key(new), Len(claims) + 1, outcome)
    ELSE /\ claims' = Append(claims, IF new.lane = "critical"
                                     THEN [new EXCEPT !.status = "rejected"] ELSE new)
         /\ UNCHANGED <<payouts, ledger>>

NewClaim(i, e, type, lane) ==
    [worker |-> policies[i].worker, policy |-> i, incident |-> e, type |-> type,
     at |-> now, lane |-> lane, status |-> "in_review", verdict |-> "none"]

Least(a, b) == IF a <= b THEN a ELSE b

\* A claim made by its worker.  There is no waiting period for it.
Initiate(i, e, requested, outcome) ==
    LET w == policies[i].worker
        amount == Least(policies[i].cap, requested)
        score == AccountScore(profiles[w], amount) + VelocityScore(Context(w, e)) IN
    /\ policies[i].status = "active"
    /\ Covers(policies[i], now)
    /\ ~Known(<<w, i, e>>)
    /\ ~RecentSimilar(w, i, e)
    /\ Len(claims) < MaxClaims
    /\ Enter(NewClaim(i, e, "manual", Lane(w, score)), outcome)
    /\ UNCHANGED <<policyVars, thresholds, request>>

\* A trigger is ingested under a new id; the payout adapter answers alike to the
\* end of the request.
Ingest(e, outcome) ==
    /\ \A c \in DOMAIN claims : claims[c].incident # e
    /\ Len(claims) + Len(policies) <= MaxClaims
    /\ request' = [incident |-> e, next |-> 1, outcome |-> outcome]
    /\ UNCHANGED <<policyVars, claims, payouts, ledger, thresholds>>

\* Policies an ingested trigger looks at: whether one has started is not asked.
Eligible(i, e) ==
    /\ policies[i].status = "active"
    /\ policies[i].zone = Event[e].zone
    /\ policies[i].end > now

\* The waiting period, the worker's exposure and recent claims of that type.
Claimable(i, e) ==
    LET type == NormalType(Event[e].type) IN
    /\ type \in WaitingTypes => now - policies[i].start >= policies[i].waiting
    /\ profiles[policies[i].worker].hours >= 40
    /\ ~RecentSimilar(policies[i].worker, i, type)

\* One policy of an ingested trigger.
AutoInitiate ==
    LET i == request.next
        e == request.incident
        w == policies[i].worker
        confidence == Confidence(Event[e].source, Event[e].given, Event[e].signal)
        amount == Least(policies[i].cap, (policies[i].cap * confidence + 50) \div 100)
        lane == Lane(w, AccountScore(profiles[w], amount)) IN
    /\ i \in DOMAIN policies
    /\ IF Eligible(i, e) /\ Claimable(i, e)
       THEN Enter(NewClaim(i, e, Event[e].type, lane), request.outcome)
       ELSE UNCHANGED <<claims, payouts, ledger>>
    /\ request' = [request EXCEPT !.next = @ + 1]
    /\ UNCHANGED <<policyVars, thresholds>>

\* Every policy was looked at: the request answers.
Answer ==
    /\ request # NoRequest
    /\ request.next > Len(policies)
    /\ request' = NoRequest
    /\ UNCHANGED <<policyVars, claims, payouts, ledger, thresholds>>

\* A reviewer decides, whatever the claim's status.
Reject(c) ==
    /\ claims' = [claims EXCEPT ![c].status = "rejected", ![c].verdict = "reject"]
    /\ UNCHANGED <<policyVars, payouts, ledger, thresholds, request>>

Approve(c, outcome) ==
    LET key == Key(claims[c]) IN
    /\ claims' = [claims EXCEPT ![c].verdict = "approve", ![c].status =
                     IF PayoutStatus(key, outcome) = "success" THEN "paid" ELSE "approved"]
    /\ ProcessPayout(key, c, outcome)
    /\ UNCHANGED <<policyVars, thresholds, request>>

\* Faulty variant: the ledger keeps the first outcome.
SettleUnbooked(p, taken, outcome) ==
    LET status == IF taken THEN outcome ELSE payouts[p].status IN
    /\ payouts' = [payouts EXCEPT ![p].status = status]
    /\ claims' = IF status = "success" THEN [claims EXCEPT ![payouts[p].claim].status = "paid"] ELSE claims
    /\ UNCHANGED <<policyVars, ledger, thresholds, request>>

\* Both payout routes answer with the payout as it is when they do not take it,
\* and mark the claim paid whenever the payout is a success.
Settle(p, taken, outcome) ==
    LET status == IF taken THEN outcome ELSE payouts[p].status IN
    /\ payouts' = [payouts EXCEPT ![p].status = status]
    /\ ledger' = IF taken
                 THEN [l \in DOMAIN ledger |-> IF ledger[l].payout = p
                          THEN [ledger[l] EXCEPT !.status = LedgerStatus(outcome)] ELSE ledger[l]]
                 ELSE ledger
    /\ claims' = IF status = "success" THEN [claims EXCEPT ![payouts[p].claim].status = "paid"] ELSE claims
    /\ UNCHANGED <<policyVars, thresholds, request>>

RetryPayout(p, outcome) == Settle(p, payouts[p].status = "failed", outcome)

ResolvePayout(p, outcome) == Settle(p, payouts[p].status = "pending", outcome)

SetThresholds(t) ==
    /\ changes < MaxChanges
    /\ changes' = changes + 1
    /\ thresholds' = t
    /\ UNCHANGED <<now, profiles, policies, claims, payouts, ledger, request>>

Init ==
    /\ PoliciesInit
    /\ claims = <<>> /\ payouts = <<>> /\ ledger = <<>>
    /\ thresholds = DefaultThresholds
    /\ request = NoRequest

Request ==
    \/ PoliciesNext /\ UNCHANGED claimVars
    \/ \E i \in DOMAIN policies, e \in Incidents, a \in Amounts, o \in Answers : Initiate(i, e, a, o)
    \/ \E e \in Incidents, o \in Answers : Ingest(e, o)
    \/ \E c \in DOMAIN claims : Reject(c) \/ \E o \in Answers : Approve(c, o)
    \/ \E p \in DOMAIN payouts : \/ \E o \in Answers : RetryPayout(p, o)
                                 \/ \E o \in {"success", "failed"} : ResolvePayout(p, o)
    \/ \E t \in Thresholds : SetThresholds(t)

Next ==
    \/ request = NoRequest /\ Request
    \/ AutoInitiate
    \/ Answer

Spec == Init /\ [][Next]_vars
-----------------------------------------------------------------------------
\* The books agree with each other: a payout has one ledger entry, with its
\* outcome; no claim has two payouts; and no two have one key.
BooksAgree ==
    /\ \A p \in DOMAIN payouts :
          \E l \in DOMAIN ledger : /\ ledger[l].payout = p
                                   /\ ledger[l].status = LedgerStatus(payouts[p].status)
                                   /\ \A k \in DOMAIN ledger : ledger[k].payout = p => k = l
    /\ \A p, q \in DOMAIN payouts :
          payouts[p].claim = payouts[q].claim \/ payouts[p].key = payouts[q].key => p = q

\* Money and claims agree: a paid claim has a payout that succeeded, a payout
\* that succeeded belongs to a claim that is paid or was rejected by a reviewer
\* since, and a claim that was not approved at once has a payout only after a
\* reviewer's approval.
MoneyAccounted ==
    /\ BooksAgree
    /\ \A c \in DOMAIN claims : claims[c].status = "paid" =>
          \E p \in DOMAIN payouts : payouts[p].claim = c /\ payouts[p].status = "success"
    /\ \A p \in DOMAIN payouts :
          LET claim == claims[payouts[p].claim] IN
          /\ payouts[p].status = "success" =>
                claim.status = "paid" \/ (claim.status = "rejected" /\ claim.verdict = "reject")
          /\ claim.lane # "approved" => claim.verdict # "none"

\* However a worker's claims come (by hand, from triggers, on several policies),
\* fewer than BurstLimit of one hour are approved without a reviewer, unless a
\* reviewer looked at one of them.
BurstBounded ==
    \A c \in DOMAIN claims :
        Cardinality({d \in Of(claims[c].worker) : /\ claims[d].lane = "approved"
                                                  /\ claims[d].verdict = "none"
                                                  /\ claims[d].at \in (claims[c].at - BurstWindow)..claims[c].at})
            < BurstLimit
=============================================================================
