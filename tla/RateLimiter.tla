---------------------------- MODULE RateLimiter ----------------------------
(* The sliding windows in front of the API: the rate_limit dependency of      *)
(* core/rate_limiter.py and RedisRateLimiterMiddleware.  A call is counted in *)
(* one window after the other, each in a Redis transaction of its own, and    *)
(* the first window that is full refuses it.  The two differ in the order of  *)
(* the windows and in their keys only.                                        *)
EXTENDS Integers, Sequences, FiniteSets

CONSTANTS Calls,      \* HTTP requests, one per element
          Ips, Identities, Nil,
          Scopes,     \* the windows in their order: [by |-> "ip" or "identity", window, limit]
          Spread,     \* how far the clocks of two replicas may be apart
          MaxTime     \* bound on time

CallKeys == Ips \cup Identities

ASSUME ScopesTyped == Scopes \in Seq([by : {"ip", "identity"}, window : Nat, limit : Nat])
ASSUME TimesBounded == Spread \in Nat /\ MaxTime \in Nat

VARIABLES time,
          windows, \* windows[i][key]: the sorted set of a key, as members and scores
          calls,   \* calls[q]: how far call q is, who sent it and the skew of its replica
          counted  \* history: every count of a call, with the true time and the verdict

limiterVars == <<time, windows, calls, counted>>

LimiterTypeOK ==
    /\ time \in 0..MaxTime
    /\ windows \in [DOMAIN Scopes -> [CallKeys -> SUBSET [call : Calls, at : Nat]]]
    /\ calls \in [Calls -> [at : {"idle", "checking", "admitted", "refused"}, left : SUBSET DOMAIN Scopes,
                            ip : Ips \cup {Nil}, identity : Identities \cup {Nil}, skew : 0..Spread]]
    /\ counted \subseteq [call : Calls, scope : DOMAIN Scopes, key : CallKeys, at : Nat, ok : BOOLEAN]

Clock(q) == time + calls[q].skew
CallKey(q, i) == IF Scopes[i].by = "ip" THEN calls[q].ip ELSE calls[q].identity

\* The windows a call has to pass.
Applicable(identity) == {i \in DOMAIN Scopes : Scopes[i].by = "ip" \/ identity # Nil}

\* A call comes in at some replica; without a valid token it has no identity,
\* and the windows of identities do not apply to it.
Arrive(q, ip, identity) ==
    /\ calls[q].at = "idle"
    /\ \E skew \in 0..Spread :
          calls' = [calls EXCEPT ![q] =
              [at |-> IF Applicable(identity) = {} THEN "admitted" ELSE "checking",
               left |-> Applicable(identity), ip |-> ip, identity |-> identity, skew |-> skew]]
    /\ UNCHANGED <<time, windows, counted>>

\* A service that knows the internal secret is not counted.
Bypass(q) ==
    /\ calls[q].at = "idle"
    /\ calls' = [calls EXCEPT ![q].at = "admitted"]
    /\ UNCHANGED <<time, windows, counted>>

\* Faulty variant: the window keeps what has left it.
KeptAll(q, i) == windows[i][CallKey(q, i)] \cup {[call |-> q, at |-> Clock(q)]}

\* The window after the call was added and the old members were removed.
Kept(q, i) ==
    {m \in windows[i][CallKey(q, i)] : m.at > Clock(q) - Scopes[i].window}
    \cup {[call |-> q, at |-> Clock(q)]}

\* Faulty variant: the limit is compared with the count before this call.
ExceededBefore(q, i) == Cardinality(Kept(q, i)) - 1 > Scopes[i].limit

Exceeded(q, i) == Cardinality(Kept(q, i)) > Scopes[i].limit

\* The windows are checked one after the other.  A call that is refused stays
\* in the windows that counted it.
Check(q, i) ==
    /\ calls[q].at = "checking"
    /\ i \in calls[q].left
    /\ \A j \in calls[q].left : i <= j
    /\ windows' = [windows EXCEPT ![i][CallKey(q, i)] = Kept(q, i)]
    /\ counted' = counted \cup {[call |-> q, scope |-> i, key |-> CallKey(q, i), at |-> time,
                                 ok |-> ~Exceeded(q, i)]}
    /\ calls' = [calls EXCEPT ![q].left = @ \ {i},
                              ![q].at = IF Exceeded(q, i) THEN "refused"
                                        ELSE IF calls[q].left = {i} THEN "admitted" ELSE @]
    /\ UNCHANGED time

LimiterTick ==
    /\ time < MaxTime
    /\ time' = time + 1
    /\ UNCHANGED <<windows, calls, counted>>

LimiterInit ==
    /\ time = 0
    /\ windows = [i \in DOMAIN Scopes |-> [k \in CallKeys |-> {}]]
    /\ calls = [q \in Calls |-> [at |-> "idle", left |-> {}, ip |-> Nil, identity |-> Nil,
                            skew |-> 0]]
    /\ counted = {}

Gate(q) ==
    \/ \E ip \in Ips, identity \in Identities \cup {Nil} : Arrive(q, ip, identity)
    \/ Bypass(q)
    \/ \E i \in DOMAIN Scopes : Check(q, i)

LimiterNext == (\E q \in Calls : Gate(q)) \/ LimiterTick

LimiterSpec == LimiterInit /\ [][LimiterNext]_limiterVars
-----------------------------------------------------------------------------
\* The counts of one key in the ticks after `from`, up to `to`.
CountedBetween(i, key, from, to) ==
    {n \in counted : n.scope = i /\ n.key = key /\ n.at > from /\ n.at <= to}

\* No key gets more calls past a window than its limit, in any time as long as
\* the window less the difference between the replicas' clocks.
AdmittedBounded ==
    \A i \in DOMAIN Scopes, key \in CallKeys, t \in 0..MaxTime :
        Cardinality({n \in CountedBetween(i, key, t - Scopes[i].window + Spread, t) : n.ok})
            <= Scopes[i].limit

\* A call is refused only if as many others as the limit were counted within
\* the window, refused ones included: whoever waits as long as Retry-After says
\* and sends nothing is admitted.
RefusalDeserved ==
    \A n \in counted : ~n.ok =>
        Cardinality({o \in CountedBetween(n.scope, n.key, n.at - Scopes[n.scope].window - Spread, n.at) :
                        o.call # n.call}) >= Scopes[n.scope].limit
=============================================================================
