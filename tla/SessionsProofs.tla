--------------------------- MODULE SessionsProofs ---------------------------
(* The limiter and the sessions behind it, for any set of calls, any windows, *)
(* any spread of the replicas' clocks and any time bound.                     *)
EXTENDS Sessions, TLAPS, FiniteSetTheorems

-----------------------------------------------------------------------------
(* Cardinalities.                                                             *)

LEMMA WithoutOne ==
    ASSUME NEW S, IsFiniteSet(S), NEW x \in S
    PROVE  /\ IsFiniteSet(S \ {x}) /\ Cardinality(S) \in Nat /\ Cardinality(S \ {x}) \in Nat
           /\ Cardinality(S \ {x}) = Cardinality(S) - 1
  <1>1. /\ IsFiniteSet(S \ {x}) /\ Cardinality(S) \in Nat
        /\ Cardinality(S \ {x}) = Cardinality(S) - 1
    BY FS_RemoveElement, FS_CardinalityType
  <1> QED
    BY <1>1, FS_CardinalityType

LEMMA OneMore ==
    ASSUME NEW S, IsFiniteSet(S), NEW x
    PROVE  /\ IsFiniteSet(S \cup {x}) /\ Cardinality(S) \in Nat /\ Cardinality(S \cup {x}) \in Nat
           /\ Cardinality(S \cup {x}) <= Cardinality(S) + 1
  <1>1. /\ IsFiniteSet(S \cup {x}) /\ Cardinality(S) \in Nat
        /\ Cardinality(S \cup {x}) = IF x \in S THEN Cardinality(S) ELSE Cardinality(S) + 1
    BY FS_AddElement, FS_CardinalityType
  <1> QED
    BY <1>1

-----------------------------------------------------------------------------
(* The limiter: the inductive invariant.                                      *)

\* A call that is being checked has an address, and an identity for each window
\* of identities it still has to pass.
Addressed ==
    \A q \in Calls : calls[q].at = "checking" =>
        /\ calls[q].ip \in Ips
        /\ \A i \in calls[q].left : Scopes[i].by = "ip" \/ calls[q].identity # Nil

\* A count is of a call that came in and has passed that window, under its key.
CountsPast ==
    \A n \in counted :
        /\ calls[n.call].at # "idle"
        /\ n.scope \notin calls[n.call].left
        /\ n.key = CallKey(n.call, n.scope)
        /\ n.at <= time

\* A window counts a call once.
CountsOnce == \A m, n \in counted : (m.call = n.call /\ m.scope = n.scope) => m = n

\* Every member of a window is a count, at the clock of the call's replica.
Backed ==
    \A i \in DOMAIN Scopes, key \in CallKeys : \A m \in windows[i][key] :
        \E n \in counted : /\ n.scope = i /\ n.key = key /\ n.call = m.call
                           /\ m.at = n.at + calls[n.call].skew

\* What no clock has let out of its window is still in it.
Retained ==
    \A n \in counted : n.at > time - Scopes[n.scope].window + Spread =>
        [call |-> n.call, at |-> n.at + calls[n.call].skew] \in windows[n.scope][n.key]

WindowsFinite ==
    /\ IsFiniteSet(counted)
    /\ \A i \in DOMAIN Scopes, key \in CallKeys : IsFiniteSet(windows[i][key])

LimiterIInv ==
    /\ LimiterTypeOK /\ Addressed /\ CountsPast /\ CountsOnce /\ Backed /\ Retained /\ WindowsFinite

LEMMA ScopeTyped ==
    ASSUME NEW i \in DOMAIN Scopes
    PROVE  /\ Scopes[i].window \in Nat /\ Scopes[i].limit \in Nat
           /\ Scopes[i].by \in {"ip", "identity"}
  <1> DEFINE S == [by : {"ip", "identity"}, window : Nat, limit : Nat]
  <1>1. Scopes \in Seq(S)
    BY ScopesTyped
  <1>2. Scopes[i] \in S
    <2> HIDE DEF S
    <2> QED
      BY <1>1
  <1> QED
    BY <1>2

LEMMA LimiterInitial ==
    LimiterInit => LimiterIInv
  <1> SUFFICES ASSUME LimiterInit PROVE LimiterIInv
    OBVIOUS
  <1>1. LimiterTypeOK
    BY TimesBounded DEF LimiterInit, LimiterTypeOK
  <1>2. Addressed /\ CountsPast /\ CountsOnce /\ Backed /\ Retained
    BY DEF LimiterInit, Addressed, CountsPast, CountsOnce, Backed, Retained
  <1>3. WindowsFinite
    BY FS_EmptySet DEF LimiterInit, WindowsFinite
  <1> QED
    BY <1>1, <1>2, <1>3 DEF LimiterIInv

\* Calls that were not counted yet may change, the counts keep their meaning.
LEMMA UncountedMoves ==
    ASSUME LimiterIInv,
           NEW q \in Calls, calls[q].at = "idle",
           NEW c \in [at : {"idle", "checking", "admitted", "refused"}, left : SUBSET DOMAIN Scopes,
                      ip : Ips \cup {Nil}, identity : Identities \cup {Nil}, skew : 0..Spread],
           calls' = [calls EXCEPT ![q] = c],
           c.at = "checking" =>
              c.ip \in Ips /\ \A i \in c.left : Scopes[i].by = "ip" \/ c.identity # Nil,
           UNCHANGED <<time, windows, counted>>
    PROVE  LimiterIInv'
  <1> USE DEF LimiterIInv
  <1>1. \A n \in counted : n.call \in Calls /\ n.call # q
    BY DEF LimiterTypeOK, CountsPast
  <1>2. \A p \in Calls : p # q => calls'[p] = calls[p]
    BY DEF LimiterTypeOK
  <1>3. LimiterTypeOK'
    BY DEF LimiterTypeOK
  <1>4. Addressed'
    BY DEF Addressed, LimiterTypeOK
  <1>5. CountsPast'
    <2> SUFFICES ASSUME NEW n \in counted
                 PROVE  /\ calls'[n.call].at # "idle"
                        /\ n.scope \notin calls'[n.call].left
                        /\ n.key = CallKey(n.call, n.scope)'
                        /\ n.at <= time
      BY DEF CountsPast
    <2>1. calls'[n.call] = calls[n.call]
      BY <1>1, <1>2
    <2> QED
      BY <2>1 DEF CountsPast, CallKey
  <1>6. CountsOnce'
    BY DEF CountsOnce
  <1>7. Backed'
    BY <1>1, <1>2 DEF Backed
  <1>8. Retained'
    BY <1>1, <1>2 DEF Retained
  <1>9. WindowsFinite'
    BY DEF WindowsFinite
  <1> QED
    BY <1>3, <1>4, <1>5, <1>6, <1>7, <1>8, <1>9

LEMMA ArriveKeeps ==
    ASSUME LimiterIInv, NEW q \in Calls, NEW ip \in Ips, NEW identity \in Identities \cup {Nil},
           Arrive(q, ip, identity)
    PROVE  LimiterIInv'
  <1>1. PICK skew \in 0..Spread : calls' = [calls EXCEPT ![q] =
              [at |-> IF Applicable(identity) = {} THEN "admitted" ELSE "checking",
               left |-> Applicable(identity), ip |-> ip, identity |-> identity, skew |-> skew]]
    BY DEF Arrive
  <1> DEFINE c == [at |-> IF Applicable(identity) = {} THEN "admitted" ELSE "checking",
                   left |-> Applicable(identity), ip |-> ip, identity |-> identity, skew |-> skew]
  <1>2. c \in [at : {"idle", "checking", "admitted", "refused"}, left : SUBSET DOMAIN Scopes,
               ip : Ips \cup {Nil}, identity : Identities \cup {Nil}, skew : 0..Spread]
    BY DEF Applicable
  <1>3. c.ip \in Ips /\ \A i \in c.left : Scopes[i].by = "ip" \/ c.identity # Nil
    BY DEF Applicable
  <1>4. calls' = [calls EXCEPT ![q] = c]
    BY <1>1
  <1>5. calls[q].at = "idle" /\ UNCHANGED <<time, windows, counted>>
    BY DEF Arrive
  <1> HIDE DEF c
  <1> QED
    BY <1>2, <1>3, <1>4, <1>5, UncountedMoves

LEMMA BypassKeeps ==
    ASSUME LimiterIInv, NEW q \in Calls, Bypass(q)
    PROVE  LimiterIInv'
  <1> DEFINE c == [calls[q] EXCEPT !.at = "admitted"]
  <1>1. c \in [at : {"idle", "checking", "admitted", "refused"}, left : SUBSET DOMAIN Scopes,
               ip : Ips \cup {Nil}, identity : Identities \cup {Nil}, skew : 0..Spread]
    BY DEF LimiterIInv, LimiterTypeOK
  <1>2. c.at # "checking"
    BY DEF LimiterIInv, LimiterTypeOK
  <1>3. calls' = [calls EXCEPT ![q] = c]
    BY DEF Bypass, LimiterIInv, LimiterTypeOK
  <1>4. calls[q].at = "idle" /\ UNCHANGED <<time, windows, counted>>
    BY DEF Bypass
  <1> HIDE DEF c
  <1> QED
    BY <1>1, <1>2, <1>3, <1>4, UncountedMoves

\* What a check works on.
LEMMA CheckFacts ==
    ASSUME LimiterIInv, NEW q \in Calls, NEW i \in DOMAIN Scopes, Check(q, i)
    PROVE  /\ CallKey(q, i) \in CallKeys
           /\ calls[q].skew \in Nat /\ calls[q].skew <= Spread
           /\ time \in Nat /\ Clock(q) \in Nat /\ Clock(q) = time + calls[q].skew
           /\ Kept(q, i) \subseteq [call : Calls, at : Nat]
           /\ IsFiniteSet(Kept(q, i))
           /\ \A n \in counted : ~(n.call = q /\ n.scope = i)
  <1> USE DEF LimiterIInv
  <1>1. calls[q].at = "checking" /\ i \in calls[q].left
    BY DEF Check
  <1>2. CallKey(q, i) \in CallKeys
    BY <1>1 DEF Addressed, LimiterTypeOK, CallKey, CallKeys
  <1>3. /\ calls[q].skew \in Nat /\ calls[q].skew <= Spread
        /\ time \in Nat /\ Clock(q) \in Nat /\ Clock(q) = time + calls[q].skew
    BY TimesBounded DEF LimiterTypeOK, Clock
  <1>4. windows[i][CallKey(q, i)] \subseteq [call : Calls, at : Nat] /\ IsFiniteSet(windows[i][CallKey(q, i)])
    BY <1>2 DEF LimiterTypeOK, WindowsFinite
  <1>5. Kept(q, i) \subseteq [call : Calls, at : Nat]
    BY <1>3, <1>4 DEF Kept
  <1>6. IsFiniteSet(Kept(q, i))
    <2> DEFINE young == {m \in windows[i][CallKey(q, i)] : m.at > Clock(q) - Scopes[i].window}
    <2>1. IsFiniteSet(young)
      BY <1>4, FS_Subset
    <2>2. Kept(q, i) = young \cup {[call |-> q, at |-> Clock(q)]}
      BY DEF Kept
    <2> HIDE DEF young
    <2> QED
      BY <2>1, <2>2, FS_AddElement
  <1>7. \A n \in counted : ~(n.call = q /\ n.scope = i)
    BY <1>1 DEF CountsPast
  <1> QED
    BY <1>2, <1>3, <1>5, <1>6, <1>7

\* What a check writes.
LEMMA CheckWrites ==
    ASSUME LimiterIInv, NEW q \in Calls, NEW i \in DOMAIN Scopes, Check(q, i)
    PROVE  /\ \A j \in DOMAIN Scopes, key \in CallKeys :
                  windows'[j][key] = IF j = i /\ key = CallKey(q, i) THEN Kept(q, i) ELSE windows[j][key]
           /\ counted' = counted \cup {[call |-> q, scope |-> i, key |-> CallKey(q, i), at |-> time,
                                        ok |-> ~Exceeded(q, i)]}
           /\ calls'[q].left = calls[q].left \ {i}
           /\ calls'[q].at \in {"checking", "admitted", "refused"}
           /\ \A p \in Calls : /\ calls'[p].ip = calls[p].ip /\ calls'[p].identity = calls[p].identity
                               /\ calls'[p].skew = calls[p].skew
                               /\ calls'[p].left \subseteq calls[p].left
                               /\ calls'[p].at = "checking" => calls[p].at = "checking"
                               /\ calls'[p].at = "idle" => calls[p].at = "idle"
           /\ time' = time
           /\ LimiterTypeOK'
  <1> USE DEF LimiterIInv
  <1>1. CallKey(q, i) \in CallKeys /\ Kept(q, i) \subseteq [call : Calls, at : Nat]
    BY CheckFacts
  <1>2. \A j \in DOMAIN Scopes, key \in CallKeys :
            windows'[j][key] = IF j = i /\ key = CallKey(q, i) THEN Kept(q, i) ELSE windows[j][key]
    BY <1>1 DEF Check, LimiterTypeOK
  <1>3. windows' \in [DOMAIN Scopes -> [CallKeys -> SUBSET [call : Calls, at : Nat]]]
    BY <1>1 DEF Check, LimiterTypeOK
  <1> DEFINE c == [calls[q] EXCEPT !.left = @ \ {i},
                                   !.at = IF Exceeded(q, i) THEN "refused"
                                          ELSE IF calls[q].left = {i} THEN "admitted" ELSE @]
  <1>4. /\ calls' = [calls EXCEPT ![q] = c]
        /\ c \in [at : {"idle", "checking", "admitted", "refused"}, left : SUBSET DOMAIN Scopes,
                  ip : Ips \cup {Nil}, identity : Identities \cup {Nil}, skew : 0..Spread]
        /\ c.left = calls[q].left \ {i} /\ c.at \in {"checking", "admitted", "refused"}
        /\ c.ip = calls[q].ip /\ c.identity = calls[q].identity /\ c.skew = calls[q].skew
        /\ calls[q].at = "checking"
    BY DEF Check, LimiterTypeOK
  <1>5. /\ calls'[q].left = calls[q].left \ {i}
        /\ calls'[q].at \in {"checking", "admitted", "refused"}
        /\ \A p \in Calls : /\ calls'[p].ip = calls[p].ip /\ calls'[p].identity = calls[p].identity
                            /\ calls'[p].skew = calls[p].skew
                            /\ calls'[p].left \subseteq calls[p].left
                            /\ calls'[p].at = "checking" => calls[p].at = "checking"
                            /\ calls'[p].at = "idle" => calls[p].at = "idle"
    <2> HIDE DEF c
    <2> QED
      BY <1>4 DEF LimiterTypeOK
  <1>6. time' = time /\ counted' = counted \cup {[call |-> q, scope |-> i, key |-> CallKey(q, i), at |-> time,
                                                  ok |-> ~Exceeded(q, i)]}
    BY DEF Check
  <1>7. counted' \subseteq [call : Calls, scope : DOMAIN Scopes, key : CallKeys, at : Nat, ok : BOOLEAN]
    <2> DEFINE n == [call |-> q, scope |-> i, key |-> CallKey(q, i), at |-> time, ok |-> ~Exceeded(q, i)]
    <2>1. (~Exceeded(q, i)) \in BOOLEAN
      BY DEF Exceeded
    <2>2. n \in [call : Calls, scope : DOMAIN Scopes, key : CallKeys, at : Nat, ok : BOOLEAN]
      BY <1>1, <2>1, CheckFacts
    <2> HIDE DEF n
    <2> QED
      BY <2>2, <1>6 DEF n, LimiterTypeOK
  <1>8. LimiterTypeOK'
    <2> HIDE DEF c
    <2> QED
      BY <1>3, <1>4, <1>6, <1>7 DEF LimiterTypeOK
  <1> QED
    BY <1>2, <1>5, <1>6, <1>8

LEMMA CheckKeeps ==
    ASSUME LimiterIInv, NEW q \in Calls, NEW i \in DOMAIN Scopes, Check(q, i)
    PROVE  LimiterIInv'
  <1> USE DEF LimiterIInv
  <1> DEFINE new == [call |-> q, scope |-> i, key |-> CallKey(q, i), at |-> time, ok |-> ~Exceeded(q, i)]
  <1>n. /\ new.call = q /\ new.scope = i /\ new.key = CallKey(q, i) /\ new.at = time
        /\ counted' = counted \cup {new}
    BY CheckWrites
  <1> HIDE DEF new
  <1>k. \A p \in Calls, j \in DOMAIN Scopes : CallKey(p, j)' = CallKey(p, j)
    BY CheckWrites DEF CallKey
  <1>t. /\ time \in Nat /\ Spread \in Nat /\ Scopes[i].window \in Nat
        /\ counted \subseteq [call : Calls, scope : DOMAIN Scopes, key : CallKeys, at : Nat, ok : BOOLEAN]
    BY TimesBounded, ScopeTyped DEF LimiterTypeOK
  <1>m. \A m : m \in Kept(q, i) <=>
            \/ m \in windows[i][CallKey(q, i)] /\ m.at > Clock(q) - Scopes[i].window
            \/ m = [call |-> q, at |-> Clock(q)]
    BY DEF Kept
  <1>1. LimiterTypeOK'
    BY CheckWrites
  <1>2. Addressed'
    BY CheckWrites DEF Addressed
  <1>3. CountsPast'
    <2> SUFFICES ASSUME NEW n \in counted'
                 PROVE  /\ calls'[n.call].at # "idle" /\ n.scope \notin calls'[n.call].left
                        /\ n.key = CallKey(n.call, n.scope)' /\ n.at <= time'
      BY DEF CountsPast
    <2>1. CASE n \in counted
      <3>1. n.call \in Calls /\ n.scope \in DOMAIN Scopes
        BY <2>1, <1>t
      <3> QED
        BY <2>1, <3>1, <1>k, CheckWrites DEF CountsPast
    <2>2. CASE n = new
      BY <2>2, <1>n, <1>k, <1>t, CheckWrites
    <2> QED
      BY <2>1, <2>2, <1>n
  <1>4. CountsOnce'
    BY <1>n, CheckFacts DEF CountsOnce
  <1>5. Backed'
    <2> SUFFICES ASSUME NEW j \in DOMAIN Scopes, NEW key \in CallKeys, NEW m \in windows'[j][key]
                 PROVE  \E n \in counted' : /\ n.scope = j /\ n.key = key /\ n.call = m.call
                                            /\ m.at = n.at + calls'[n.call].skew
      BY DEF Backed
    <2>1. CASE m \in windows[j][key]
      <3>1. PICK n \in counted : /\ n.scope = j /\ n.key = key /\ n.call = m.call
                                 /\ m.at = n.at + calls[n.call].skew
        BY <2>1 DEF Backed
      <3>2. n \in counted' /\ calls'[n.call].skew = calls[n.call].skew
        BY <1>n, <1>t, CheckWrites
      <3> QED
        BY <3>1, <3>2
    <2>2. CASE j = i /\ key = CallKey(q, i) /\ m = [call |-> q, at |-> Clock(q)]
      <3>1. new \in counted' /\ m.call = q /\ m.at = time + calls'[q].skew
        BY <2>2, <1>n, CheckWrites, CheckFacts
      <3> QED
        BY <3>1, <2>2, <1>n
    <2> QED
      BY <1>m, <2>1, <2>2, CheckWrites
  <1>6. Retained'
    <2> SUFFICES ASSUME NEW n \in counted', n.at > time - Scopes[n.scope].window + Spread
                 PROVE  [call |-> n.call, at |-> n.at + calls'[n.call].skew] \in windows'[n.scope][n.key]
      BY CheckWrites DEF Retained
    <2>1. CASE n \in counted
      <3>1. /\ n.call \in Calls /\ n.scope \in DOMAIN Scopes /\ n.key \in CallKeys /\ n.at \in Nat
            /\ calls'[n.call].skew = calls[n.call].skew /\ calls[n.call].skew \in Nat
        BY <2>1, <1>t, CheckWrites DEF LimiterTypeOK
      <3>2. [call |-> n.call, at |-> n.at + calls[n.call].skew] \in windows[n.scope][n.key]
        BY <2>1 DEF Retained
      <3>3. CASE n.scope = i /\ n.key = CallKey(q, i)
        <4>1. n.at + calls[n.call].skew > Clock(q) - Scopes[i].window
          BY <3>1, <3>3, <1>t, CheckFacts
        <4>2. [call |-> n.call, at |-> n.at + calls[n.call].skew] \in Kept(q, i)
          BY <1>m, <3>2, <3>3, <4>1
        <4> QED
          BY <3>1, <3>3, <4>2, CheckWrites
      <3>4. CASE ~(n.scope = i /\ n.key = CallKey(q, i))
        BY <3>1, <3>2, <3>4, CheckWrites
      <3> QED
        BY <3>3, <3>4
    <2>2. CASE n = new
      BY <1>m, <2>2, <1>n, CheckWrites, CheckFacts
    <2> QED
      BY <2>1, <2>2, <1>n
  <1>7. WindowsFinite'
    <2>1. IsFiniteSet(counted')
      BY <1>n, FS_AddElement DEF WindowsFinite
    <2> QED
      BY <2>1, CheckWrites, CheckFacts DEF WindowsFinite
  <1> QED
    BY <1>1, <1>2, <1>3, <1>4, <1>5, <1>6, <1>7

LEMMA TickKeeps ==
    ASSUME LimiterIInv, LimiterTick
    PROVE  LimiterIInv'
  <1> USE DEF LimiterIInv, LimiterTick
  <1>t. /\ time \in Nat /\ MaxTime \in Nat /\ Spread \in Nat /\ time' = time + 1
        /\ \A n \in counted : n.at \in Nat /\ n.scope \in DOMAIN Scopes
    BY TimesBounded DEF LimiterTypeOK
  <1>1. LimiterTypeOK'
    BY <1>t DEF LimiterTypeOK
  <1>2. Addressed' /\ CountsOnce' /\ Backed' /\ WindowsFinite'
    BY DEF Addressed, CountsOnce, Backed, WindowsFinite
  <1>3. CountsPast'
    BY <1>t DEF CountsPast, CallKey
  <1>4. Retained'
    <2> SUFFICES ASSUME NEW n \in counted, n.at > time' - Scopes[n.scope].window + Spread
                 PROVE  [call |-> n.call, at |-> n.at + calls[n.call].skew] \in windows[n.scope][n.key]
      BY DEF Retained
    <2>1. n.at > time - Scopes[n.scope].window + Spread
      BY <1>t, ScopeTyped
    <2> QED
      BY <2>1 DEF Retained
  <1> QED
    BY <1>1, <1>2, <1>3, <1>4

LEMMA LimiterStep ==
    LimiterIInv /\ [LimiterNext]_limiterVars => LimiterIInv'
  <1> SUFFICES ASSUME LimiterIInv, [LimiterNext]_limiterVars PROVE LimiterIInv'
    OBVIOUS
  <1>1. CASE \E q \in Calls : Gate(q)
    BY <1>1, ArriveKeeps, BypassKeeps, CheckKeeps DEF Gate
  <1>2. CASE LimiterTick
    BY <1>2, TickKeeps
  <1>3. CASE UNCHANGED limiterVars
    BY <1>3 DEF limiterVars, LimiterIInv, LimiterTypeOK, Addressed, CountsPast, CountsOnce, Backed,
                Retained, WindowsFinite, CallKey
  <1> QED
    BY <1>1, <1>2, <1>3 DEF LimiterNext

\* Counts of one window and key are as many as their members.
LEMMA CountsInject ==
    ASSUME LimiterIInv, NEW i \in DOMAIN Scopes, NEW key \in CallKeys, NEW B, NEW M,
           B \subseteq counted, \A n \in B : n.scope = i /\ n.key = key,
           IsFiniteSet(M),
           \A n \in B : [call |-> n.call, at |-> n.at + calls[n.call].skew] \in M
    PROVE  IsFiniteSet(B) /\ Cardinality(B) <= Cardinality(M)
  <1> DEFINE f == [n \in B |-> [call |-> n.call, at |-> n.at + calls[n.call].skew]]
  <1>1. f \in Injection(B, M)
    <2>1. f \in [B -> M]
      OBVIOUS
    <2>2. ASSUME NEW m \in B, NEW n \in B, f[m] = f[n] PROVE m = n
      <3>1. m.call = n.call
        BY <2>2
      <3> QED
        BY <3>1 DEF LimiterIInv, CountsOnce
    <2> HIDE DEF f
    <2> QED
      BY <2>1, <2>2 DEF Injection, IsInjective
  <1> QED
    BY <1>1, FS_Injection

LEMMA AdmittedStep ==
    LimiterIInv /\ AdmittedBounded /\ [LimiterNext]_limiterVars => AdmittedBounded'
  <1> SUFFICES ASSUME LimiterIInv, AdmittedBounded, [LimiterNext]_limiterVars,
                      NEW i \in DOMAIN Scopes, NEW key \in CallKeys, NEW t \in 0..MaxTime
               PROVE  Cardinality({n \in CountedBetween(i, key, t - Scopes[i].window + Spread, t) : n.ok}')
                        <= Scopes[i].limit
    BY DEF AdmittedBounded
  <1> DEFINE A == {n \in CountedBetween(i, key, t - Scopes[i].window + Spread, t) : n.ok}
  <1>a. Cardinality(A) <= Scopes[i].limit
    BY DEF AdmittedBounded
  <1>1. CASE counted' = counted
    <2>1. A' = A
      BY <1>1 DEF CountedBetween
    <2> QED
      BY <2>1, <1>a
  <1>2. ASSUME NEW q \in Calls, NEW j \in DOMAIN Scopes, Check(q, j) PROVE Cardinality(A') <= Scopes[i].limit
    <2> DEFINE new == [call |-> q, scope |-> j, key |-> CallKey(q, j), at |-> time, ok |-> ~Exceeded(q, j)]
    <2>n. counted' = counted \cup {new} /\ new.at = time /\ new.scope = j /\ new.key = CallKey(q, j)
      BY <1>2, CheckWrites
    <2>o. new.ok = ~Exceeded(q, j)
      OBVIOUS
    <2> HIDE DEF new
    <2>1. CASE new \notin A'
      <3>1. A' = A
        BY <2>1, <2>n DEF CountedBetween
      <3> QED
        BY <3>1, <1>a
    <2>2. CASE new \in A'
      <3>1. /\ j = i /\ key = CallKey(q, i) /\ time <= t /\ time > t - Scopes[i].window + Spread
            /\ ~Exceeded(q, i)
        BY <2>2, <2>n, <2>o DEF CountedBetween
      <3>2. /\ time \in Nat /\ t \in Nat /\ Spread \in Nat
            /\ Scopes[i].window \in Nat /\ Scopes[i].limit \in Nat
            /\ calls[q].skew \in Nat /\ calls[q].skew <= Spread /\ Clock(q) = time + calls[q].skew
            /\ Kept(q, i) \subseteq [call : Calls, at : Nat] /\ IsFiniteSet(Kept(q, i))
            /\ \A n \in counted : /\ n.at \in Nat /\ n.call \in Calls
                                  /\ calls[n.call].skew \in Nat
        BY <1>2, <3>1, CheckFacts, ScopeTyped, TimesBounded DEF LimiterIInv, LimiterTypeOK
      <3>3. \A n \in A : n \in counted /\ n.scope = i /\ n.key = key /\ n.at > t - Scopes[i].window + Spread
        BY DEF CountedBetween
      <3> DEFINE M == Kept(q, i) \ {[call |-> q, at |-> Clock(q)]}
      <3>4. ASSUME NEW n \in A PROVE [call |-> n.call, at |-> n.at + calls[n.call].skew] \in M
        <4>1. [call |-> n.call, at |-> n.at + calls[n.call].skew] \in windows[i][key]
          <5>1. n.at > time - Scopes[n.scope].window + Spread
            BY <3>1, <3>2, <3>3
          <5> QED
            BY <3>3, <5>1 DEF LimiterIInv, Retained
        <4>2. n.at + calls[n.call].skew > Clock(q) - Scopes[i].window
          BY <3>1, <3>2, <3>3
        <4>3. n.call # q
          BY <1>2, <3>1, <3>3, CheckFacts
        <4> QED
          BY <3>1, <4>1, <4>2, <4>3 DEF Kept
      <3>5. /\ IsFiniteSet(M) /\ [call |-> q, at |-> Clock(q)] \in Kept(q, i)
            /\ Cardinality(M) = Cardinality(Kept(q, i)) - 1
        <4>1. [call |-> q, at |-> Clock(q)] \in Kept(q, i)
          BY DEF Kept
        <4> QED
          BY <3>2, <4>1, WithoutOne
      <3>6. IsFiniteSet(A) /\ Cardinality(A) <= Cardinality(M)
        <4> HIDE DEF A, M
        <4> QED
          BY <3>3, <3>4, <3>5, CountsInject
      <3>7. A' \subseteq A \cup {new}
        BY <2>n DEF CountedBetween
      <3>8. IsFiniteSet(A \cup {new}) /\ Cardinality(A \cup {new}) <= Cardinality(A) + 1
        <4> HIDE DEF A, M
        <4> QED
          BY <3>6, OneMore
      <3>9. Cardinality(A') <= Cardinality(A \cup {new})
        BY <3>7, <3>8, FS_Subset
      <3>10. Cardinality(Kept(q, i)) <= Scopes[i].limit
        BY <3>1, <3>2, FS_CardinalityType DEF Exceeded
      <3>11. Cardinality(A') \in Nat /\ Cardinality(A) \in Nat /\ Cardinality(A \cup {new}) \in Nat
             /\ Cardinality(M) \in Nat /\ Cardinality(Kept(q, i)) \in Nat
        BY <3>2, <3>5, <3>6, <3>7, <3>8, FS_CardinalityType, FS_Subset
      <3> HIDE DEF A, M
      <3> QED
        BY <3>2, <3>5, <3>6, <3>8, <3>9, <3>10, <3>11
    <2> QED
      BY <2>1, <2>2
  <1>3. CASE \E q \in Calls : Gate(q)
    BY <1>1, <1>2, <1>3 DEF Gate, Arrive, Bypass
  <1> QED
    BY <1>1, <1>3 DEF LimiterNext, LimiterTick, limiterVars

LEMMA RefusalStep ==
    LimiterIInv /\ RefusalDeserved /\ [LimiterNext]_limiterVars => RefusalDeserved'
  <1> DEFINE Others(n) == {o \in CountedBetween(n.scope, n.key, n.at - Scopes[n.scope].window - Spread, n.at) :
                              o.call # n.call}
  <1> SUFFICES ASSUME LimiterIInv, RefusalDeserved, [LimiterNext]_limiterVars,
                      NEW n \in counted', ~n.ok
               PROVE  Cardinality(Others(n)') >= Scopes[n.scope].limit
    BY DEF RefusalDeserved
  <1>1. CASE counted' = counted
    <2>1. Others(n)' = Others(n)
      BY <1>1 DEF CountedBetween
    <2> QED
      BY <2>1, <1>1 DEF RefusalDeserved
  <1>2. ASSUME NEW q \in Calls, NEW i \in DOMAIN Scopes, Check(q, i)
        PROVE  Cardinality(Others(n)') >= Scopes[n.scope].limit
    <2> DEFINE new == [call |-> q, scope |-> i, key |-> CallKey(q, i), at |-> time, ok |-> ~Exceeded(q, i)]
    <2>n. /\ counted' = counted \cup {new}
          /\ new.call = q /\ new.scope = i /\ new.key = CallKey(q, i) /\ new.at = time
          /\ new.ok = ~Exceeded(q, i)
      BY <1>2, CheckWrites
    <2> HIDE DEF new
    <2>f. IsFiniteSet(Others(n)')
      <3>1. IsFiniteSet(counted')
        BY <2>n, FS_AddElement DEF LimiterIInv, WindowsFinite
      <3>2. Others(n)' \subseteq counted'
        BY DEF CountedBetween
      <3> QED
        BY <3>1, <3>2, FS_Subset
    <2>1. CASE n \in counted
      <3>1. Others(n) \subseteq Others(n)'
        BY <2>n DEF CountedBetween
      <3>2. Cardinality(Others(n)) >= Scopes[n.scope].limit
        BY <2>1 DEF RefusalDeserved
      <3>3. Scopes[n.scope].limit \in Nat
        BY <2>1, ScopeTyped DEF LimiterIInv, LimiterTypeOK
      <3>4. Cardinality(Others(n)) <= Cardinality(Others(n)')
            /\ Cardinality(Others(n)) \in Nat /\ Cardinality(Others(n)') \in Nat
        BY <2>f, <3>1, FS_Subset, FS_CardinalityType
      <3> QED
        BY <3>2, <3>3, <3>4
    <2>2. CASE n = new
      <3> DEFINE self == [call |-> q, at |-> Clock(q)]
                 K == Kept(q, i) \ {self}
      <3>1. /\ time \in Nat /\ Spread \in Nat /\ Scopes[i].window \in Nat /\ Scopes[i].limit \in Nat
            /\ CallKey(q, i) \in CallKeys
            /\ calls[q].skew \in Nat /\ calls[q].skew <= Spread /\ Clock(q) = time + calls[q].skew
            /\ Kept(q, i) \subseteq [call : Calls, at : Nat] /\ IsFiniteSet(Kept(q, i))
            /\ \A o \in counted : /\ o.at \in Nat /\ o.call \in Calls /\ o.at <= time
                                  /\ calls[o.call].skew \in Nat /\ calls[o.call].skew <= Spread
        BY <1>2, CheckFacts, ScopeTyped, TimesBounded DEF LimiterIInv, LimiterTypeOK, CountsPast
      <3>2. /\ IsFiniteSet(K) /\ Cardinality(K) = Cardinality(Kept(q, i)) - 1
        <4>1. self \in Kept(q, i)
          BY DEF Kept
        <4> HIDE DEF self
        <4> QED
          BY <3>1, <4>1, WithoutOne
      <3>3. Cardinality(Kept(q, i)) > Scopes[i].limit /\ Cardinality(Kept(q, i)) \in Nat
        BY <2>2, <2>n, <3>1, FS_CardinalityType DEF Exceeded
      <3> DEFINE stems(m, o) == o.call = m.call /\ m.at = o.at + calls[o.call].skew
                 f == [m \in K |-> CHOOSE o \in Others(n)' : stems(m, o)]
      <3>4. ASSUME NEW m \in K PROVE \E o \in Others(n)' : stems(m, o)
        <4>1. /\ m \in windows[i][CallKey(q, i)] /\ m.at > Clock(q) - Scopes[i].window
          BY DEF Kept
        <4>2. PICK o \in counted : /\ o.scope = i /\ o.key = CallKey(q, i) /\ o.call = m.call
                                   /\ m.at = o.at + calls[o.call].skew
          BY <3>1, <4>1 DEF LimiterIInv, Backed
        <4>3. o.call # q
          BY <1>2, <4>2, CheckFacts
        <4>4. o.at > time - Scopes[i].window - Spread /\ o.at <= time
          BY <3>1, <4>1, <4>2
        <4>5. o \in Others(n)'
          BY <2>2, <2>n, <4>2, <4>3, <4>4 DEF CountedBetween
        <4> QED
          BY <4>2, <4>5
      <3>5. \A m \in K : f[m] \in Others(n)' /\ stems(m, f[m])
        BY <3>4
      <3>6. f \in Injection(K, Others(n)')
        <4>1. f \in [K -> Others(n)']
          BY <3>5
        <4>2. ASSUME NEW l \in K, NEW m \in K, f[l] = f[m] PROVE l = m
          <5>1. l.call = m.call /\ l.at = m.at
            BY <3>5, <4>2, SMTT(30)
          <5>2. l \in [call : Calls, at : Nat] /\ m \in [call : Calls, at : Nat]
            BY <3>1
          <5> QED
            BY <5>1, <5>2
        <4> HIDE DEF f
        <4> QED
          BY <4>1, <4>2 DEF Injection, IsInjective
      <3>7. Cardinality(K) <= Cardinality(Others(n)')
        <4> HIDE DEF f, K
        <4> QED
          BY <3>6, <2>f, FS_Injection
      <3>8. Cardinality(K) \in Nat /\ Cardinality(Others(n)') \in Nat
        BY <2>f, <3>2, FS_CardinalityType
      <3>9. Scopes[n.scope].limit = Scopes[i].limit
        BY <2>2, <2>n
      <3> HIDE DEF K
      <3> QED
        BY <3>1, <3>2, <3>3, <3>7, <3>8, <3>9
    <2> QED
      BY <2>1, <2>2, <2>n
  <1>3. CASE \E q \in Calls : Gate(q)
    BY <1>1, <1>2, <1>3 DEF Gate, Arrive, Bypass
  <1> QED
    BY <1>1, <1>3 DEF LimiterNext, LimiterTick, limiterVars

LEMMA BoundsInitial ==
    LimiterInit => AdmittedBounded /\ RefusalDeserved
  <1> SUFFICES ASSUME LimiterInit PROVE AdmittedBounded /\ RefusalDeserved
    OBVIOUS
  <1>1. ASSUME NEW i \in DOMAIN Scopes, NEW key \in CallKeys, NEW t \in 0..MaxTime
        PROVE  Cardinality({n \in CountedBetween(i, key, t - Scopes[i].window + Spread, t) : n.ok})
                  <= Scopes[i].limit
    <2>1. {n \in CountedBetween(i, key, t - Scopes[i].window + Spread, t) : n.ok} = {}
      BY DEF LimiterInit, CountedBetween
    <2> QED
      BY <2>1, FS_EmptySet, ScopeTyped
  <1>2. counted = {}
    BY DEF LimiterInit
  <1> QED
    BY <1>1, <1>2 DEF AdmittedBounded, RefusalDeserved

\* The limiter is untouched by what runs behind it: a run of the sessions is a
\* run of the limiter (Handle, every action of it).
THEOREM LimiterInside ==
    LoginSpec => LimiterSpec
  <1>1. LoginInit => LimiterInit
    BY DEF LoginInit
  <1>2. [LoginNext]_loginVars => [LimiterNext]_limiterVars
    <2>1. ASSUME NEW q \in Calls, Handle(q) PROVE UNCHANGED limiterVars
      BY <2>1 DEF Handle, Ask, StoreCode, RecordAsk, Verify, DeleteCode, LookUpWorker, Register, IssueTokens,
                  Refresh, Logout, Reread, DropToken, PutToken, HandlerFails
    <2> QED
      BY <2>1 DEF LoginNext, loginVars
  <1> QED
    BY <1>1, <1>2, PTL DEF LoginSpec, LimiterSpec

\* The limiter's own invariant holds behind every handler: the windows hold what
\* was counted, and no window admits more than its limit (rate_limit).
THEOREM LimiterInvariant ==
    LimiterSpec => [](LimiterIInv /\ AdmittedBounded /\ RefusalDeserved)
  <1>1. LimiterInit => LimiterIInv /\ AdmittedBounded /\ RefusalDeserved
    BY LimiterInitial, BoundsInitial
  <1>2. LimiterIInv /\ AdmittedBounded /\ RefusalDeserved /\ [LimiterNext]_limiterVars
            => (LimiterIInv /\ AdmittedBounded /\ RefusalDeserved)'
    BY LimiterStep, AdmittedStep, RefusalStep
  <1> QED
    BY <1>1, <1>2, PTL DEF LimiterSpec

\* No key gets more calls past a window than its limit (_check_window).
THEOREM AdmittedBoundedAlways ==
    LoginSpec => []AdmittedBounded
  BY LimiterInside, LimiterInvariant, PTL

\* A refused call was preceded by as many others as the limit (_check_window).
THEOREM RefusalDeservedAlways ==
    LoginSpec => []RefusalDeserved
  BY LimiterInside, LimiterInvariant, PTL

-----------------------------------------------------------------------------
(* The sessions: the inductive invariant.                                     *)

MadeCodes == {m.call : m \in made}

\* What the steps of a handler know: the code they match was sent, the token
\* they exchange was issued to the device.
Arguments ==
    \A q \in Calls :
        /\ At(q, "delete") => handlers[q].code \in MadeCodes
        /\ handlers[q].at \in {"delete", "lookup", "register", "issue"} => handlers[q].device \in Devices
        /\ handlers[q].at \in {"reread", "drop", "put"} =>
              /\ handlers[q].device \in Devices /\ handlers[q].token \in Tokens
              /\ \E i \in issued[handlers[q].device] : i.token = handlers[q].token

\* Handlers that are in flight together are known to overlap.
Paired == \A p, q \in InFlight : p # q => {p, q} \in overlapped

\* A call stores one code, and does not store it again.
MadeOnce ==
    /\ \A m \in made : handlers[m.call].at \in {"record", "done", "failed"} /\ m.at <= time
    /\ \A m, n \in made : m.call = n.call => m = n

\* The stored code is the latest, and none that was used.
StoredLatest ==
    /\ otp = NoCode \/ (otp = latest /\ otp.code \in MadeCodes)
    /\ \A x \in consumed : x.code \in MadeCodes /\ otp.code # x.code

\* Whoever is about to delete a code that somebody used overlapped with them,
\* and whoever holds an older code overlapped with the call that replaced it.
UsersOverlap ==
    \A q \in Calls : At(q, "delete") =>
        /\ \A x \in consumed : x.code = handlers[q].code => q = x.call \/ {q, x.call} \in overlapped
        /\ handlers[q].code = latest.code \/ {q, latest.code} \in overlapped

CodeIInv == StoredLatest /\ UsersOverlap /\ CodeUsedOnce

\* A code that was made is recorded, unless its handler failed or is about to
\* record it, or it has left every window.
Recorded ==
    \A m \in made : \/ At(m.call, "record") \/ At(m.call, "failed")
                    \/ m.at <= time - AskWindow + Spread
                    \/ \E a \in asked : a.call = m.call /\ a.at >= m.at

\* The codes in a window that q counted, or would have counted.
Alone(q) == {m \in made : /\ m.at > time - AskWindow + Spread
                          /\ {m.call, q} \notin overlapped
                          /\ ~At(m.call, "failed")}

AskedFew == \A q \in Calls : At(q, "store") => Cardinality(Alone(q)) < MaxAsks

AskIInv == IsFiniteSet(made) /\ IsFiniteSet(asked) /\ Recorded /\ AskedFew /\ AsksBounded

IssuedTwice(d, token) == \E i, j \in issued[d] : i # j /\ i.token = token /\ j.token = token

\* A call hands out tokens in its last step, and a session is one handed out.
IssuedLast ==
    /\ \A q \in Calls : handlers[q].at \notin {"done", "failed"} =>
          \A d \in Devices : \A i \in issued[d] : i.call # q
    /\ \A d \in Devices : session[d] # Nil => \E i \in issued[d] : i.token = session[d]
    /\ \A x \in rotated : \E i \in issued[x.device] : i.token = x.token

\* A token that was exchanged is not a session again, and is not being exchanged
\* by a call that did not overlap, unless it was handed out twice.
Exchanged ==
    \A x \in rotated :
        /\ session[x.device] = x.token => IssuedTwice(x.device, x.token)
        /\ \A q \in Calls :
              ( /\ handlers[q].at \in {"reread", "drop", "put"}
                /\ handlers[q].device = x.device /\ handlers[q].token = x.token ) =>
              \/ q = x.call \/ {q, x.call} \in overlapped \/ IssuedTwice(x.device, x.token)

TokenIInv == IssuedLast /\ Exchanged /\ TokenRotatedOnce

\* An exchange that is under way after a logout overlapped with one.
EndedOverlap(d) == \E p \in ended[d], q \in Calls : p # q /\ {p, q} \in overlapped
ExchangeOverlaps ==
    \A q \in Calls :
        (handlers[q].at \in {"reread", "drop", "put"} /\ ended[handlers[q].device] # {}) =>
            EndedOverlap(handlers[q].device)

LogoutIInv == ExchangeOverlaps /\ LoggedOutStays

SessionIInv ==
    /\ LoginTypeOK /\ Arguments /\ Paired /\ MadeOnce
    /\ CodeIInv /\ AskIInv /\ TokenIInv /\ LogoutIInv

-----------------------------------------------------------------------------
(* The sessions: what a step does to the handlers.                            *)

Handlers == [at : Steps, code : Calls \cup {Nil}, device : Devices \cup {Nil}, token : Tokens \cup {Nil}]

\* The handler of q goes on to step, with the arguments of h; no other moves.
Advances(q, h, step) ==
    /\ handlers' \in [Calls -> Handlers]
    /\ handlers'[q].at = step
    /\ step \notin {"done", "failed"} =>
          /\ handlers'[q].code = h.code /\ handlers'[q].device = h.device
          /\ handlers'[q].token = h.token
    /\ \A p \in Calls : p # q => handlers'[p] = handlers[p]

LEMMA Advancing ==
    ASSUME LoginTypeOK, NEW q \in Calls, NEW h \in Handlers, NEW step \in Steps,
           handlers' = [handlers EXCEPT ![q] = Step(h, step)]
    PROVE  Advances(q, h, step)
  <1>1. handlers \in [Calls -> Handlers]
    BY DEF LoginTypeOK, Handlers
  <1> DEFINE g == Step(h, step)
  <1>2. /\ g \in Handlers /\ g.at = step
        /\ step \notin {"done", "failed"} => g.code = h.code /\ g.device = h.device /\ g.token = h.token
    BY DEF Step, AtEase, Handlers, Steps
  <1> HIDE DEF g
  <1>3. handlers' = [handlers EXCEPT ![q] = g]
    BY DEF g
  <1> QED
    BY <1>1, <1>2, <1>3 DEF Advances

LEMMA Moving ==
    ASSUME LoginTypeOK, NEW q \in Calls, NEW step \in Steps, Move(q, step)
    PROVE  Advances(q, handlers[q], step)
  <1>1. handlers[q] \in Handlers /\ handlers' = [handlers EXCEPT ![q] = Step(handlers[q], step)]
    BY DEF Move, LoginTypeOK, Handlers
  <1> QED
    BY <1>1, Advancing

LEMMA Starting ==
    ASSUME LoginTypeOK, NEW q \in Calls, NEW h \in Handlers, NEW step \in Steps, Start(q, h, step)
    PROVE  /\ Advances(q, h, step) /\ handlers[q].at = "idle" /\ calls[q].at = "admitted"
           /\ overlapped' = overlapped \cup {{q, p} : p \in InFlight}
           /\ overlapped' \subseteq SUBSET Calls
  <1>1. handlers[q].at = "idle" /\ calls[q].at = "admitted"
    BY DEF Start, At
  <1>2. handlers' = [handlers EXCEPT ![q] = Step(h, step)]
    BY DEF Start
  <1>3. Advances(q, h, step)
    BY <1>2, Advancing
  <1>4. /\ overlapped' = overlapped \cup {{q, p} : p \in InFlight} /\ overlapped \subseteq SUBSET Calls
    BY DEF Start, LoginTypeOK
  <1>5. \A p \in InFlight : {q, p} \subseteq Calls
    BY DEF InFlight
  <1> QED
    BY <1>1, <1>3, <1>4, <1>5

LEMMA IdleTyped ==
    /\ AtEase \in Handlers
    /\ \A c \in Calls, d \in Devices :
          /\ [AtEase EXCEPT !.code = c, !.device = d] \in Handlers
          /\ [AtEase EXCEPT !.code = c, !.device = d].code = c
          /\ [AtEase EXCEPT !.code = c, !.device = d].device = d
    /\ \A d \in Devices, k \in Tokens :
          /\ [AtEase EXCEPT !.device = d, !.token = k] \in Handlers
          /\ [AtEase EXCEPT !.device = d, !.token = k].device = d
          /\ [AtEase EXCEPT !.device = d, !.token = k].token = k
  BY DEF AtEase, Handlers, Steps

\* What each action does, in terms of the handlers that advance.
LEMMA AskDoes ==
    ASSUME LoginTypeOK, NEW q \in Calls, Ask(q)
    PROVE  /\ Advances(q, AtEase, IF Cardinality(Recent(q)) >= MaxAsks THEN "done" ELSE "store")
           /\ handlers[q].at = "idle" /\ calls[q].at = "admitted"
           /\ overlapped' = overlapped \cup {{q, p} : p \in InFlight}
           /\ asked' = Recent(q)
           /\ UNCHANGED <<limiterVars, otp, registered, session, issued, consumed, rotated, ended, made, latest>>
           /\ LoginTypeOK'
  <1> DEFINE step == IF Cardinality(Recent(q)) >= MaxAsks THEN "done" ELSE "store"
  <1>1. step \in Steps /\ AtEase \in Handlers
    BY IdleTyped DEF Steps
  <1>2. Start(q, AtEase, step)
    BY DEF Ask
  <1> HIDE DEF step
  <1>3. /\ Advances(q, AtEase, step) /\ handlers[q].at = "idle" /\ calls[q].at = "admitted"
        /\ overlapped' = overlapped \cup {{q, p} : p \in InFlight} /\ overlapped' \subseteq SUBSET Calls
    BY <1>1, <1>2, Starting
  <1>4. /\ asked' = Recent(q)
        /\ UNCHANGED <<limiterVars, otp, registered, session, issued, consumed, rotated, ended, made, latest>>
    BY DEF Ask
  <1>5. LoginTypeOK'
    BY <1>3, <1>4 DEF LoginTypeOK, LimiterTypeOK, limiterVars, Advances, Handlers, Recent
  <1> QED
    BY <1>3, <1>4, <1>5 DEF step

LEMMA VerifyDoes ==
    ASSUME LoginTypeOK, NEW q \in Calls, NEW code \in Calls, NEW d \in Devices, Verify(q, code, d)
    PROVE  \E h \in Handlers :
           /\ h.code = code /\ h.device = d
           /\ Advances(q, h, IF otp.code = code /\ time < otp.until THEN "delete" ELSE "done")
           /\ handlers[q].at = "idle" /\ calls[q].at = "admitted"
           /\ overlapped' = overlapped \cup {{q, p} : p \in InFlight}
           /\ UNCHANGED <<limiterVars, otp, asked, registered, session, issued, consumed, rotated, ended, made, latest>>
           /\ LoginTypeOK'
  <1> DEFINE step == IF otp.code = code /\ time < otp.until THEN "delete" ELSE "done"
             h == [AtEase EXCEPT !.code = code, !.device = d]
  <1>1. step \in Steps /\ h \in Handlers /\ h.code = code /\ h.device = d
    BY IdleTyped DEF Steps
  <1>2. Start(q, h, step)
    BY DEF Verify
  <1> HIDE DEF step, h
  <1>3. /\ Advances(q, h, step) /\ handlers[q].at = "idle" /\ calls[q].at = "admitted"
        /\ overlapped' = overlapped \cup {{q, p} : p \in InFlight} /\ overlapped' \subseteq SUBSET Calls
    BY <1>1, <1>2, Starting
  <1>4. UNCHANGED <<limiterVars, otp, asked, registered, session, issued, consumed, rotated, ended, made, latest>>
    BY DEF Verify
  <1>5. LoginTypeOK'
    BY <1>3, <1>4 DEF LoginTypeOK, LimiterTypeOK, limiterVars, Advances, Handlers
  <1> QED
    BY <1>1, <1>3, <1>4, <1>5 DEF step

LEMMA RefreshDoes ==
    ASSUME LoginTypeOK, NEW q \in Calls, NEW d \in Devices, NEW token \in Tokens, Refresh(q, d, token)
    PROVE  \E h \in Handlers :
           /\ h.device = d /\ h.token = token
           /\ Advances(q, h, IF session[d] = token THEN "reread" ELSE "done")
           /\ handlers[q].at = "idle" /\ calls[q].at = "admitted"
           /\ overlapped' = overlapped \cup {{q, p} : p \in InFlight}
           /\ UNCHANGED <<limiterVars, otp, asked, registered, session, issued, consumed, rotated, ended, made, latest>>
           /\ LoginTypeOK'
  <1> DEFINE step == IF session[d] = token THEN "reread" ELSE "done"
             h == [AtEase EXCEPT !.device = d, !.token = token]
  <1>1. step \in Steps /\ h \in Handlers /\ h.device = d /\ h.token = token
    BY IdleTyped DEF Steps
  <1>2. Start(q, h, step)
    BY DEF Refresh
  <1> HIDE DEF step, h
  <1>3. /\ Advances(q, h, step) /\ handlers[q].at = "idle" /\ calls[q].at = "admitted"
        /\ overlapped' = overlapped \cup {{q, p} : p \in InFlight} /\ overlapped' \subseteq SUBSET Calls
    BY <1>1, <1>2, Starting
  <1>4. UNCHANGED <<limiterVars, otp, asked, registered, session, issued, consumed, rotated, ended, made, latest>>
    BY DEF Refresh
  <1>5. LoginTypeOK'
    BY <1>3, <1>4 DEF LoginTypeOK, LimiterTypeOK, limiterVars, Advances, Handlers
  <1> QED
    BY <1>1, <1>3, <1>4, <1>5 DEF step

LEMMA LogoutDoes ==
    ASSUME LoginTypeOK, NEW q \in Calls, NEW d \in Devices, NEW token, Logout(q, d, token)
    PROVE  /\ Advances(q, AtEase, "done")
           /\ handlers[q].at = "idle" /\ calls[q].at = "admitted"
           /\ overlapped' = overlapped \cup {{q, p} : p \in InFlight}
           /\ session' = [session EXCEPT ![d] = Nil]
           /\ ended' = [ended EXCEPT ![d] = @ \cup {q}]
           /\ UNCHANGED <<limiterVars, otp, asked, registered, issued, consumed, rotated, made, latest>>
           /\ LoginTypeOK'
  <1>1. /\ Advances(q, AtEase, "done") /\ handlers[q].at = "idle" /\ calls[q].at = "admitted"
        /\ overlapped' = overlapped \cup {{q, p} : p \in InFlight} /\ overlapped' \subseteq SUBSET Calls
    BY Starting, IdleTyped DEF Logout, Steps
  <1>2. /\ session' = [session EXCEPT ![d] = Nil] /\ ended' = [ended EXCEPT ![d] = @ \cup {q}]
        /\ UNCHANGED <<limiterVars, otp, asked, registered, issued, consumed, rotated, made, latest>>
    BY DEF Logout
  <1>3. LoginTypeOK'
    BY <1>1, <1>2 DEF LoginTypeOK, LimiterTypeOK, limiterVars, Advances, Handlers
  <1> QED
    BY <1>1, <1>2, <1>3

LEMMA StoreCodeDoes ==
    ASSUME LoginTypeOK, Arguments, MadeOnce, NEW q \in Calls, StoreCode(q)
    PROVE  /\ Advances(q, handlers[q], "record")
           /\ handlers[q].at = "store"
           /\ otp' = [code |-> q, until |-> time + CodeLife]
           /\ latest' = otp'
           /\ made' = made \cup {[call |-> q, at |-> time]}
           /\ UNCHANGED <<limiterVars, asked, registered, session, issued, consumed, rotated, ended, overlapped>>
           /\ LoginTypeOK'
  <1> DEFINE step == "record"
  <1>1. step \in Steps /\ Move(q, step)
    BY DEF StoreCode, Steps
  <1> HIDE DEF step
  <1>2. Advances(q, handlers[q], step)
    BY <1>1, Moving
  <1>3. /\ handlers[q].at = "store"
        /\ otp' = [code |-> q, until |-> time + CodeLife]
        /\ latest' = otp'
        /\ made' = made \cup {[call |-> q, at |-> time]}
        /\ UNCHANGED <<limiterVars, asked, registered, session, issued, consumed, rotated, ended, overlapped>>
    BY DEF StoreCode, At
  <1>4. LoginTypeOK'
    BY <1>2, <1>3, LivesPositive, TimesBounded DEF LoginTypeOK, LimiterTypeOK, limiterVars, Advances, Handlers, Arguments, At, MadeCodes, MadeOnce, NoCode, Codes, histories
  <1> QED
    BY <1>2, <1>3, <1>4 DEF step

LEMMA RecordAskDoes ==
    ASSUME LoginTypeOK, Arguments, MadeOnce, NEW q \in Calls, RecordAsk(q)
    PROVE  /\ Advances(q, handlers[q], "done")
           /\ handlers[q].at = "record"
           /\ asked' = asked \cup {[call |-> q, at |-> Clock(q)]}
           /\ UNCHANGED <<limiterVars, otp, registered, session, issued, histories>>
           /\ LoginTypeOK'
  <1> DEFINE step == "done"
  <1>1. step \in Steps /\ Move(q, step)
    BY DEF RecordAsk, Steps
  <1> HIDE DEF step
  <1>2. Advances(q, handlers[q], step)
    BY <1>1, Moving
  <1>3. /\ handlers[q].at = "record"
        /\ asked' = asked \cup {[call |-> q, at |-> Clock(q)]}
        /\ UNCHANGED <<limiterVars, otp, registered, session, issued, histories>>
    BY DEF RecordAsk, At
  <1>4. LoginTypeOK'
    BY <1>2, <1>3, TimesBounded DEF LoginTypeOK, Clock, LimiterTypeOK, limiterVars, Advances, Handlers, Arguments, At, MadeCodes, MadeOnce, NoCode, Codes, histories
  <1> QED
    BY <1>2, <1>3, <1>4 DEF step

LEMMA DeleteCodeDoes ==
    ASSUME LoginTypeOK, Arguments, MadeOnce, NEW q \in Calls, DeleteCode(q)
    PROVE  /\ Advances(q, handlers[q], "lookup")
           /\ handlers[q].at = "delete"
           /\ otp' = NoCode
           /\ consumed' = consumed \cup {[call |-> q, code |-> handlers[q].code]}
           /\ UNCHANGED <<limiterVars, asked, registered, session, issued, rotated, ended, overlapped, made, latest>>
           /\ LoginTypeOK'
  <1> DEFINE step == "lookup"
  <1>1. step \in Steps /\ Move(q, step)
    BY DEF DeleteCode, Steps
  <1> HIDE DEF step
  <1>2. Advances(q, handlers[q], step)
    BY <1>1, Moving
  <1>3. /\ handlers[q].at = "delete"
        /\ otp' = NoCode
        /\ consumed' = consumed \cup {[call |-> q, code |-> handlers[q].code]}
        /\ UNCHANGED <<limiterVars, asked, registered, session, issued, rotated, ended, overlapped, made, latest>>
    BY DEF DeleteCode, At
  <1>4. LoginTypeOK'
    BY <1>2, <1>3 DEF LoginTypeOK, LimiterTypeOK, limiterVars, Advances, Handlers, Arguments, At, MadeCodes, MadeOnce, NoCode, Codes, histories
  <1> QED
    BY <1>2, <1>3, <1>4 DEF step

LEMMA LookUpWorkerDoes ==
    ASSUME LoginTypeOK, Arguments, MadeOnce, NEW q \in Calls, LookUpWorker(q)
    PROVE  /\ Advances(q, handlers[q], IF registered THEN "issue" ELSE "register")
           /\ handlers[q].at = "lookup"
           /\ UNCHANGED <<limiterVars, otp, asked, registered, session, issued, histories>>
           /\ LoginTypeOK'
  <1> DEFINE step == IF registered THEN "issue" ELSE "register"
  <1>1. step \in Steps /\ Move(q, step)
    BY DEF LookUpWorker, Steps
  <1> HIDE DEF step
  <1>2. Advances(q, handlers[q], step)
    BY <1>1, Moving
  <1>3. /\ handlers[q].at = "lookup"
        /\ UNCHANGED <<limiterVars, otp, asked, registered, session, issued, histories>>
    BY DEF LookUpWorker, At
  <1>4. LoginTypeOK'
    BY <1>2, <1>3 DEF LoginTypeOK, LimiterTypeOK, limiterVars, Advances, Handlers, Arguments, At, MadeCodes, MadeOnce, NoCode, Codes, histories
  <1> QED
    BY <1>2, <1>3, <1>4 DEF step

LEMMA RegisterDoes ==
    ASSUME LoginTypeOK, Arguments, MadeOnce, NEW q \in Calls, Register(q)
    PROVE  /\ Advances(q, handlers[q], IF registered THEN "done" ELSE "issue")
           /\ handlers[q].at = "register"
           /\ registered' = TRUE
           /\ UNCHANGED <<limiterVars, otp, asked, session, issued, histories>>
           /\ LoginTypeOK'
  <1> DEFINE step == IF registered THEN "done" ELSE "issue"
  <1>1. step \in Steps /\ Move(q, step)
    BY DEF Register, Steps
  <1> HIDE DEF step
  <1>2. Advances(q, handlers[q], step)
    BY <1>1, Moving
  <1>3. /\ handlers[q].at = "register"
        /\ registered' = TRUE
        /\ UNCHANGED <<limiterVars, otp, asked, session, issued, histories>>
    BY DEF Register, At
  <1>4. LoginTypeOK'
    BY <1>2, <1>3 DEF LoginTypeOK, LimiterTypeOK, limiterVars, Advances, Handlers, Arguments, At, MadeCodes, MadeOnce, NoCode, Codes, histories
  <1> QED
    BY <1>2, <1>3, <1>4 DEF step

LEMMA IssueTokensDoes ==
    ASSUME LoginTypeOK, Arguments, MadeOnce, NEW q \in Calls, IssueTokens(q)
    PROVE  /\ Advances(q, handlers[q], "done")
           /\ handlers[q].at = "issue"
           /\ session' = [session EXCEPT ![handlers[q].device] = time]
           /\ issued' = [issued EXCEPT ![handlers[q].device] = @ \cup {[call |-> q, token |-> time]}]
           /\ ended' = [ended EXCEPT ![handlers[q].device] = {}]
           /\ UNCHANGED <<limiterVars, otp, asked, registered, consumed, rotated, overlapped, made, latest>>
           /\ LoginTypeOK'
  <1> DEFINE step == "done"
  <1>1. step \in Steps /\ Move(q, step)
    BY DEF IssueTokens, Steps
  <1> HIDE DEF step
  <1>2. Advances(q, handlers[q], step)
    BY <1>1, Moving
  <1>3. /\ handlers[q].at = "issue"
        /\ session' = [session EXCEPT ![handlers[q].device] = time]
        /\ issued' = [issued EXCEPT ![handlers[q].device] = @ \cup {[call |-> q, token |-> time]}]
        /\ ended' = [ended EXCEPT ![handlers[q].device] = {}]
        /\ UNCHANGED <<limiterVars, otp, asked, registered, consumed, rotated, overlapped, made, latest>>
    BY DEF IssueTokens, Stored, At
  <1>4. LoginTypeOK'
    BY <1>2, <1>3 DEF LoginTypeOK, Tokens, LimiterTypeOK, limiterVars, Advances, Handlers, Arguments, At, MadeCodes, MadeOnce, NoCode, Codes, histories
  <1> QED
    BY <1>2, <1>3, <1>4 DEF step

LEMMA RereadDoes ==
    ASSUME LoginTypeOK, Arguments, MadeOnce, NEW q \in Calls, Reread(q)
    PROVE  /\ Advances(q, handlers[q], IF session[handlers[q].device] = handlers[q].token THEN "drop" ELSE "done")
           /\ handlers[q].at = "reread"
           /\ UNCHANGED <<limiterVars, otp, asked, registered, session, issued, histories>>
           /\ LoginTypeOK'
  <1> DEFINE step == IF session[handlers[q].device] = handlers[q].token THEN "drop" ELSE "done"
  <1>1. step \in Steps /\ Move(q, step)
    BY DEF Reread, Steps
  <1> HIDE DEF step
  <1>2. Advances(q, handlers[q], step)
    BY <1>1, Moving
  <1>3. /\ handlers[q].at = "reread"
        /\ UNCHANGED <<limiterVars, otp, asked, registered, session, issued, histories>>
    BY DEF Reread, At
  <1>4. LoginTypeOK'
    BY <1>2, <1>3 DEF LoginTypeOK, LimiterTypeOK, limiterVars, Advances, Handlers, Arguments, At, MadeCodes, MadeOnce, NoCode, Codes, histories
  <1> QED
    BY <1>2, <1>3, <1>4 DEF step

LEMMA DropTokenDoes ==
    ASSUME LoginTypeOK, Arguments, MadeOnce, NEW q \in Calls, DropToken(q)
    PROVE  /\ Advances(q, handlers[q], "put")
           /\ handlers[q].at = "drop"
           /\ session' = [session EXCEPT ![handlers[q].device] = Nil]
           /\ UNCHANGED <<limiterVars, otp, asked, registered, issued, histories>>
           /\ LoginTypeOK'
  <1> DEFINE step == "put"
  <1>1. step \in Steps /\ Move(q, step)
    BY DEF DropToken, Steps
  <1> HIDE DEF step
  <1>2. Advances(q, handlers[q], step)
    BY <1>1, Moving
  <1>3. /\ handlers[q].at = "drop"
        /\ session' = [session EXCEPT ![handlers[q].device] = Nil]
        /\ UNCHANGED <<limiterVars, otp, asked, registered, issued, histories>>
    BY DEF DropToken, At
  <1>4. LoginTypeOK'
    BY <1>2, <1>3 DEF LoginTypeOK, LimiterTypeOK, limiterVars, Advances, Handlers, Arguments, At, MadeCodes, MadeOnce, NoCode, Codes, histories
  <1> QED
    BY <1>2, <1>3, <1>4 DEF step

LEMMA PutTokenDoes ==
    ASSUME LoginTypeOK, Arguments, MadeOnce, NEW q \in Calls, PutToken(q)
    PROVE  /\ Advances(q, handlers[q], "done")
           /\ handlers[q].at = "put"
           /\ session' = [session EXCEPT ![handlers[q].device] = time]
           /\ issued' = [issued EXCEPT ![handlers[q].device] = @ \cup {[call |-> q, token |-> time]}]
           /\ rotated' = rotated \cup {[call |-> q, device |-> handlers[q].device, token |-> handlers[q].token]}
           /\ UNCHANGED <<limiterVars, otp, asked, registered, consumed, ended, overlapped, made, latest>>
           /\ LoginTypeOK'
  <1> DEFINE step == "done"
  <1>1. step \in Steps /\ Move(q, step)
    BY DEF PutToken, Steps
  <1> HIDE DEF step
  <1>2. Advances(q, handlers[q], step)
    BY <1>1, Moving
  <1>3. /\ handlers[q].at = "put"
        /\ session' = [session EXCEPT ![handlers[q].device] = time]
        /\ issued' = [issued EXCEPT ![handlers[q].device] = @ \cup {[call |-> q, token |-> time]}]
        /\ rotated' = rotated \cup {[call |-> q, device |-> handlers[q].device, token |-> handlers[q].token]}
        /\ UNCHANGED <<limiterVars, otp, asked, registered, consumed, ended, overlapped, made, latest>>
    BY DEF PutToken, Stored, At
  <1>4. LoginTypeOK'
    BY <1>2, <1>3 DEF LoginTypeOK, Tokens, LimiterTypeOK, limiterVars, Advances, Handlers, Arguments, At, MadeCodes, MadeOnce, NoCode, Codes, histories
  <1> QED
    BY <1>2, <1>3, <1>4 DEF step

LEMMA HandlerFailsDoes ==
    ASSUME LoginTypeOK, NEW q \in Calls, HandlerFails(q)
    PROVE  /\ Advances(q, handlers[q], "failed")
           /\ handlers[q].at \notin {"idle", "done", "failed"}
           /\ UNCHANGED <<limiterVars, otp, asked, registered, session, issued, histories>>
           /\ LoginTypeOK'
  <1>1. "failed" \in Steps /\ Move(q, "failed")
    BY DEF HandlerFails, Steps
  <1>2. Advances(q, handlers[q], "failed")
    BY <1>1, Moving
  <1>3. /\ handlers[q].at \notin {"idle", "done", "failed"}
        /\ UNCHANGED <<limiterVars, otp, asked, registered, session, issued, histories>>
    BY DEF HandlerFails, InFlight
  <1>4. LoginTypeOK'
    BY <1>2, <1>3 DEF LoginTypeOK, LimiterTypeOK, limiterVars, Advances, Handlers, histories
  <1> QED
    BY <1>2, <1>3, <1>4

-----------------------------------------------------------------------------
(* The sessions: what handlers know is kept.                                  *)

Base == LoginTypeOK /\ Arguments /\ Paired /\ MadeOnce

LEMMA StartBase ==
    ASSUME Base, LoginTypeOK', NEW q \in Calls, NEW h, NEW step \in {"done", "store", "delete", "reread"},
           Advances(q, h, step), handlers[q].at = "idle",
           overlapped' = overlapped \cup {{q, p} : p \in InFlight},
           UNCHANGED <<time, made, issued>>,
           step = "delete" => h.code \in MadeCodes /\ h.device \in Devices,
           step = "reread" => /\ h.device \in Devices /\ h.token \in Tokens
                              /\ \E i \in issued[h.device] : i.token = h.token
    PROVE  Base'
  <1>1. Arguments'
    <2> SUFFICES ASSUME NEW p \in Calls
                 PROVE  /\ At(p, "delete")' => handlers'[p].code \in MadeCodes
                        /\ handlers'[p].at \in {"delete", "lookup", "register", "issue"} =>
                              handlers'[p].device \in Devices
                        /\ handlers'[p].at \in {"reread", "drop", "put"} =>
                              /\ handlers'[p].device \in Devices /\ handlers'[p].token \in Tokens
                              /\ \E i \in issued[handlers'[p].device] : i.token = handlers'[p].token
      BY DEF Arguments, MadeCodes
    <2>1. CASE p = q
      BY <2>1 DEF Advances, At
    <2>2. CASE p # q
      BY <2>2 DEF Advances, At, Base, Arguments
    <2> QED
      BY <2>1, <2>2
  <1>2. Paired'
    <2> SUFFICES ASSUME NEW a \in InFlight', NEW b \in InFlight', a # b PROVE {a, b} \in overlapped'
      BY DEF Paired
    <2>1. \A p \in InFlight' : p \in Calls /\ (p # q => p \in InFlight)
      BY DEF Advances, InFlight
    <2>2. CASE a = q
      <3>1. b \in InFlight
        BY <2>1, <2>2
      <3> QED
        BY <2>2, <3>1
    <2>3. CASE b = q
      <3>1. a \in InFlight /\ {a, b} = {q, a}
        BY <2>1, <2>3
      <3> QED
        BY <3>1
    <2>4. CASE a # q /\ b # q
      BY <2>1, <2>4 DEF Base, Paired
    <2> QED
      BY <2>2, <2>3, <2>4
  <1>3. MadeOnce'
    <2>1. \A m \in made : m.call \in Calls /\ m.call # q
      BY DEF Base, MadeOnce, LoginTypeOK
    <2> QED
      BY <2>1 DEF Base, MadeOnce, Advances
  <1> QED
    BY <1>1, <1>2, <1>3 DEF Base

LEMMA MoveBase ==
    ASSUME Base, LoginTypeOK', NEW q \in Calls, NEW step,
           Advances(q, handlers[q], step), handlers[q].at \notin {"idle", "done", "failed"},
           overlapped' = overlapped, MadeCodes \subseteq MadeCodes',
           \A d \in Devices : issued[d] \subseteq issued'[d],
           step # "delete",
           step \in {"lookup", "register", "issue"} =>
              handlers[q].at \in {"delete", "lookup", "register", "issue"},
           step \in {"reread", "drop", "put"} => handlers[q].at \in {"reread", "drop", "put"}
    PROVE  Arguments' /\ Paired'
  <1>1. Arguments'
    <2> SUFFICES ASSUME NEW p \in Calls
                 PROVE  /\ At(p, "delete")' => handlers'[p].code \in MadeCodes'
                        /\ handlers'[p].at \in {"delete", "lookup", "register", "issue"} =>
                              handlers'[p].device \in Devices
                        /\ handlers'[p].at \in {"reread", "drop", "put"} =>
                              /\ handlers'[p].device \in Devices /\ handlers'[p].token \in Tokens
                              /\ \E i \in issued'[handlers'[p].device] : i.token = handlers'[p].token
      BY DEF Arguments
    <2>1. CASE p = q
      BY <2>1 DEF Advances, At, Base, Arguments
    <2>2. CASE p # q
      BY <2>2 DEF Advances, At, Base, Arguments
    <2> QED
      BY <2>1, <2>2
  <1>2. Paired'
    <2>1. \A p \in InFlight' : p \in InFlight
      BY DEF Advances, InFlight
    <2> QED
      BY <2>1 DEF Base, Paired
  <1> QED
    BY <1>1, <1>2

LEMMA MadeStays ==
    ASSUME Base, NEW q \in Calls, NEW step, Advances(q, handlers[q], step),
           handlers[q].at \notin {"idle", "done", "failed"},
           handlers[q].at = "record" => step \in {"done", "failed"},
           made' = made, time' = time
    PROVE  MadeOnce'
  BY DEF Base, MadeOnce, Advances, LoginTypeOK

LEMMA BaseStep ==
    ASSUME Base, NEW q \in Calls, Handle(q)
    PROVE  Base'
  <1>b. LoginTypeOK /\ Arguments /\ MadeOnce
    BY DEF Base
  <1>1. CASE Ask(q)
    <2>1. PICK step \in {"done", "store"} : Advances(q, AtEase, step)
      BY <1>1, <1>b, AskDoes
    <2> QED
      BY <1>1, <1>b, <2>1, AskDoes, StartBase DEF limiterVars
  <1>2. ASSUME NEW code \in Calls, NEW d \in Devices, code \in MadeCodes, Verify(q, code, d) PROVE Base'
    <2>1. PICK h \in Handlers :
           /\ h.code = code /\ h.device = d
           /\ Advances(q, h, IF otp.code = code /\ time < otp.until THEN "delete" ELSE "done")
           /\ handlers[q].at = "idle" /\ calls[q].at = "admitted"
           /\ overlapped' = overlapped \cup {{q, p} : p \in InFlight}
           /\ UNCHANGED <<limiterVars, otp, asked, registered, session, issued, consumed, rotated, ended, made, latest>>
           /\ LoginTypeOK'
      BY <1>2, <1>b, VerifyDoes
    <2>2. PICK step \in {"delete", "done"} : Advances(q, h, step)
      BY <2>1
    <2> QED
      BY <1>2, <2>1, <2>2, StartBase DEF limiterVars
  <1>3. ASSUME NEW d \in Devices, NEW token \in {i.token : i \in issued[d]}, Refresh(q, d, token) PROVE Base'
    <2>0. token \in Tokens
      BY <1>b DEF LoginTypeOK
    <2>1. PICK h \in Handlers :
           /\ h.device = d /\ h.token = token
           /\ Advances(q, h, IF session[d] = token THEN "reread" ELSE "done")
           /\ handlers[q].at = "idle" /\ calls[q].at = "admitted"
           /\ overlapped' = overlapped \cup {{q, p} : p \in InFlight}
           /\ UNCHANGED <<limiterVars, otp, asked, registered, session, issued, consumed, rotated, ended, made, latest>>
           /\ LoginTypeOK'
      BY <1>3, <1>b, <2>0, RefreshDoes
    <2>2. PICK step \in {"reread", "done"} : Advances(q, h, step)
      BY <2>1
    <2> QED
      BY <1>3, <2>0, <2>1, <2>2, StartBase DEF limiterVars
  <1>4. ASSUME NEW d \in Devices, NEW token, Logout(q, d, token) PROVE Base'
    BY <1>4, <1>b, LogoutDoes, StartBase DEF limiterVars
  <1>5. CASE StoreCode(q)
    <2>1. Arguments' /\ Paired'
      <3>1. MadeCodes \subseteq MadeCodes'
        BY <1>5, <1>b, StoreCodeDoes DEF MadeCodes
      <3> QED
        BY <1>5, <1>b, <3>1, StoreCodeDoes, MoveBase
    <2>2. MadeOnce'
      <3>1. \A m \in made : m.call \in Calls /\ m.call # q
        BY <1>5, <1>b, StoreCodeDoes DEF MadeOnce, LoginTypeOK
      <3>2. time \in Nat /\ time' = time
        BY <1>5, <1>b, TimesBounded, StoreCodeDoes DEF LoginTypeOK, LimiterTypeOK, limiterVars
      <3> QED
        BY <1>5, <1>b, <3>1, <3>2, StoreCodeDoes DEF MadeOnce, Advances
    <2> QED
      BY <1>5, <1>b, <2>1, <2>2, StoreCodeDoes DEF Base
  <1>6. CASE RecordAsk(q)
    <2>2. made' = made /\ time' = time /\ MadeCodes' = MadeCodes
      BY <1>6, <1>b, RecordAskDoes DEF limiterVars, histories, MadeCodes
    <2>3. MadeOnce'
      BY <1>6, <1>b, <2>2, RecordAskDoes, MadeStays
    <2>4. Arguments' /\ Paired'
      BY <1>6, <1>b, <2>2, RecordAskDoes, MoveBase DEF histories
    <2> QED
      BY <1>6, <1>b, <2>3, <2>4, RecordAskDoes DEF Base
  <1>7. CASE DeleteCode(q)
    <2>2. made' = made /\ time' = time /\ MadeCodes' = MadeCodes
      BY <1>7, <1>b, DeleteCodeDoes DEF limiterVars, histories, MadeCodes
    <2>3. MadeOnce'
      BY <1>7, <1>b, <2>2, DeleteCodeDoes, MadeStays
    <2>4. Arguments' /\ Paired'
      BY <1>7, <1>b, <2>2, DeleteCodeDoes, MoveBase DEF histories
    <2> QED
      BY <1>7, <1>b, <2>3, <2>4, DeleteCodeDoes DEF Base
  <1>8. CASE LookUpWorker(q)
    <2>1. PICK step \in {"issue", "register"} : Advances(q, handlers[q], step)
      BY <1>8, <1>b, LookUpWorkerDoes
    <2>2. made' = made /\ time' = time /\ MadeCodes' = MadeCodes
      BY <1>8, <1>b, LookUpWorkerDoes DEF limiterVars, histories, MadeCodes
    <2>3. MadeOnce'
      BY <1>8, <1>b, <2>2, <2>1, LookUpWorkerDoes, MadeStays
    <2>4. Arguments' /\ Paired'
      BY <1>8, <1>b, <2>2, <2>1, LookUpWorkerDoes, MoveBase DEF histories
    <2> QED
      BY <1>8, <1>b, <2>3, <2>4, LookUpWorkerDoes DEF Base
  <1>9. CASE Register(q)
    <2>1. PICK step \in {"done", "issue"} : Advances(q, handlers[q], step)
      BY <1>9, <1>b, RegisterDoes
    <2>2. made' = made /\ time' = time /\ MadeCodes' = MadeCodes
      BY <1>9, <1>b, RegisterDoes DEF limiterVars, histories, MadeCodes
    <2>3. MadeOnce'
      BY <1>9, <1>b, <2>2, <2>1, RegisterDoes, MadeStays
    <2>4. Arguments' /\ Paired'
      BY <1>9, <1>b, <2>2, <2>1, RegisterDoes, MoveBase DEF histories
    <2> QED
      BY <1>9, <1>b, <2>3, <2>4, RegisterDoes DEF Base
  <1>10. CASE IssueTokens(q)
    <2>1. \A d \in Devices : issued[d] \subseteq issued'[d]
      BY <1>10, <1>b, IssueTokensDoes DEF LoginTypeOK
    <2>2. made' = made /\ time' = time /\ MadeCodes' = MadeCodes
      BY <1>10, <1>b, IssueTokensDoes DEF limiterVars, histories, MadeCodes
    <2>3. MadeOnce'
      BY <1>10, <1>b, <2>2, <2>1, IssueTokensDoes, MadeStays
    <2>4. Arguments' /\ Paired'
      BY <1>10, <1>b, <2>2, <2>1, IssueTokensDoes, MoveBase DEF histories
    <2> QED
      BY <1>10, <1>b, <2>3, <2>4, IssueTokensDoes DEF Base
  <1>11. CASE Reread(q)
    <2>1. PICK step \in {"drop", "done"} : Advances(q, handlers[q], step)
      BY <1>11, <1>b, RereadDoes
    <2>2. made' = made /\ time' = time /\ MadeCodes' = MadeCodes
      BY <1>11, <1>b, RereadDoes DEF limiterVars, histories, MadeCodes
    <2>3. MadeOnce'
      BY <1>11, <1>b, <2>2, <2>1, RereadDoes, MadeStays
    <2>4. Arguments' /\ Paired'
      BY <1>11, <1>b, <2>2, <2>1, RereadDoes, MoveBase DEF histories
    <2> QED
      BY <1>11, <1>b, <2>3, <2>4, RereadDoes DEF Base
  <1>12. CASE DropToken(q)
    <2>2. made' = made /\ time' = time /\ MadeCodes' = MadeCodes
      BY <1>12, <1>b, DropTokenDoes DEF limiterVars, histories, MadeCodes
    <2>3. MadeOnce'
      BY <1>12, <1>b, <2>2, DropTokenDoes, MadeStays
    <2>4. Arguments' /\ Paired'
      BY <1>12, <1>b, <2>2, DropTokenDoes, MoveBase DEF histories
    <2> QED
      BY <1>12, <1>b, <2>3, <2>4, DropTokenDoes DEF Base
  <1>13. CASE PutToken(q)
    <2>1. \A d \in Devices : issued[d] \subseteq issued'[d]
      BY <1>13, <1>b, PutTokenDoes DEF LoginTypeOK
    <2>2. made' = made /\ time' = time /\ MadeCodes' = MadeCodes
      BY <1>13, <1>b, PutTokenDoes DEF limiterVars, histories, MadeCodes
    <2>3. MadeOnce'
      BY <1>13, <1>b, <2>2, <2>1, PutTokenDoes, MadeStays
    <2>4. Arguments' /\ Paired'
      BY <1>13, <1>b, <2>2, <2>1, PutTokenDoes, MoveBase DEF histories
    <2> QED
      BY <1>13, <1>b, <2>3, <2>4, PutTokenDoes DEF Base
  <1>14. CASE HandlerFails(q)
    <2>2. made' = made /\ time' = time /\ MadeCodes' = MadeCodes
      BY <1>14, <1>b, HandlerFailsDoes DEF limiterVars, histories, MadeCodes
    <2>3. MadeOnce'
      BY <1>14, <1>b, <2>2, HandlerFailsDoes, MadeStays
    <2>4. Arguments' /\ Paired'
      BY <1>14, <1>b, <2>2, HandlerFailsDoes, MoveBase DEF histories
    <2> QED
      BY <1>14, <1>b, <2>3, <2>4, HandlerFailsDoes DEF Base
  <1> QED
    BY <1>1, <1>2, <1>3, <1>4, <1>5, <1>6, <1>7, <1>8, <1>9, <1>10, <1>11, <1>12, <1>13, <1>14 DEF Handle, MadeCodes

\* A step of the limiter, or none, leaves the sessions alone.
LEMMA LimiterOutside ==
    ASSUME LimiterIInv, Base, [LimiterNext]_limiterVars, UNCHANGED sessionVars
    PROVE  /\ Base'
           /\ time \in Nat /\ time' \in Nat /\ time' >= time
           /\ UNCHANGED <<otp, asked, registered, session, handlers, issued, consumed, rotated, ended,
                          overlapped, made, latest>>
  <1>1. UNCHANGED <<otp, asked, registered, session, handlers, issued, consumed, rotated, ended,
                    overlapped, made, latest>>
    BY DEF sessionVars, histories
  <1>2. LimiterIInv'
    BY LimiterStep
  <1>3. time \in Nat /\ time' \in Nat /\ time' >= time
    <2>1. time' = time \/ time' = time + 1
      BY DEF LimiterNext, Gate, Arrive, Bypass, Check, LimiterTick, limiterVars
    <2>2. time \in Nat
      BY TimesBounded DEF LimiterIInv, LimiterTypeOK
    <2> QED
      BY <2>1, <2>2
  <1>4. LoginTypeOK'
    BY <1>1, <1>2 DEF Base, LoginTypeOK, LimiterIInv
  <1>5. Arguments' /\ Paired'
    BY <1>1 DEF Base, Arguments, Paired, At, InFlight, MadeCodes
  <1>6. MadeOnce'
    BY <1>1, <1>3 DEF Base, MadeOnce, LoginTypeOK
  <1> QED
    BY <1>1, <1>3, <1>4, <1>5, <1>6 DEF Base

-----------------------------------------------------------------------------
(* One-time codes are used once.                                              *)

\* What neither stores, matches nor deletes a code keeps the codes in order.
LEMMA CodesQuiet ==
    ASSUME Base, CodeIInv, Base', UNCHANGED <<otp, latest, consumed>>,
           overlapped \subseteq overlapped', MadeCodes \subseteq MadeCodes', time' >= time,
           \A p \in Calls : handlers'[p].at = "delete" =>
              handlers[p].at = "delete" /\ handlers'[p].code = handlers[p].code
    PROVE  CodeIInv'
  <1> USE DEF CodeIInv
  <1>0. time \in Nat /\ time' \in Nat /\ latest.until \in Nat
    BY TimesBounded DEF Base, LoginTypeOK, LimiterTypeOK, Codes
  <1>1. StoredLatest'
    BY DEF StoredLatest
  <1>2. UsersOverlap'
    BY DEF UsersOverlap, At
  <1>3. CodeUsedOnce'
    BY <1>0 DEF CodeUsedOnce
  <1> QED
    BY <1>1, <1>2, <1>3

LEMMA StoreCodeCodes ==
    ASSUME Base, CodeIInv, NEW q \in Calls, StoreCode(q), Base'
    PROVE  CodeIInv'
  <1> USE DEF CodeIInv
  <1>1. /\ Advances(q, handlers[q], "record") /\ handlers[q].at = "store"
        /\ otp' = [code |-> q, until |-> time + CodeLife] /\ latest' = otp'
        /\ made' = made \cup {[call |-> q, at |-> time]}
        /\ UNCHANGED <<consumed, overlapped, time>>
    BY StoreCodeDoes DEF Base, limiterVars
  <1>2. q \notin MadeCodes /\ MadeCodes' = MadeCodes \cup {q}
    <2>1. \A m \in made : m.call # q
      BY <1>1 DEF Base, MadeOnce
    <2> DEFINE new == [call |-> q, at |-> time]
    <2>2. new.call = q /\ made' = made \cup {new}
      BY <1>1
    <2> HIDE DEF new
    <2>3. \A c : c \in MadeCodes' <=> c \in MadeCodes \/ c = q
      BY <2>2 DEF MadeCodes
    <2>4. q \notin MadeCodes
      BY <2>1 DEF MadeCodes
    <2> QED
      BY <2>3, <2>4
  <1>3. StoredLatest'
    BY <1>1, <1>2 DEF StoredLatest
  <1>4. UsersOverlap'
    <2> SUFFICES ASSUME NEW p \in Calls, At(p, "delete")'
                 PROVE  /\ \A x \in consumed : x.code = handlers'[p].code => p = x.call \/ {p, x.call} \in overlapped
                        /\ handlers'[p].code = q \/ {p, q} \in overlapped
      BY <1>1 DEF UsersOverlap
    <2>1. p # q /\ handlers'[p] = handlers[p] /\ At(p, "delete")
      BY <1>1 DEF Advances, At
    <2>2. p \in InFlight /\ q \in InFlight
      BY <1>1, <2>1 DEF InFlight, At
    <2> QED
      BY <2>1, <2>2 DEF UsersOverlap, Base, Paired
  <1>5. CodeUsedOnce'
    BY <1>1 DEF CodeUsedOnce
  <1> QED
    BY <1>3, <1>4, <1>5

LEMMA VerifyCodes ==
    ASSUME Base, CodeIInv, NEW q \in Calls, NEW code \in Calls, NEW d \in Devices, Verify(q, code, d), Base'
    PROVE  CodeIInv'
  <1> USE DEF CodeIInv
  <1>1. PICK h \in Handlers :
           /\ h.code = code /\ h.device = d
           /\ Advances(q, h, IF otp.code = code /\ time < otp.until THEN "delete" ELSE "done")
           /\ handlers[q].at = "idle"
           /\ overlapped' = overlapped \cup {{q, p} : p \in InFlight}
           /\ UNCHANGED <<limiterVars, otp, consumed, made, latest>>
    BY VerifyDoes DEF Base
  <1>2. StoredLatest'
    BY <1>1 DEF StoredLatest, MadeCodes
  <1>3. UsersOverlap'
    <2> SUFFICES ASSUME NEW p \in Calls, At(p, "delete")'
                 PROVE  /\ \A x \in consumed : x.code = handlers'[p].code => p = x.call \/ {p, x.call} \in overlapped'
                        /\ handlers'[p].code = latest.code \/ {p, latest.code} \in overlapped'
      BY <1>1 DEF UsersOverlap
    <2>1. CASE p = q
      <3>1. otp.code = code /\ handlers'[q].code = code /\ code # Nil
        BY <1>1, <2>1, NilIsNil DEF Advances, At
      <3>2. latest.code = code /\ \A x \in consumed : x.code # code
        BY <3>1 DEF StoredLatest, NoCode
      <3> QED
        BY <2>1, <3>1, <3>2
    <2>2. CASE p # q
      BY <1>1, <2>2 DEF UsersOverlap, Advances, At
    <2> QED
      BY <2>1, <2>2
  <1>4. CodeUsedOnce'
    BY <1>1 DEF CodeUsedOnce, limiterVars
  <1> QED
    BY <1>2, <1>3, <1>4

LEMMA DeleteCodeCodes ==
    ASSUME Base, CodeIInv, NEW q \in Calls, DeleteCode(q), Base'
    PROVE  CodeIInv'
  <1> USE DEF CodeIInv
  <1> DEFINE code == handlers[q].code
             new == [call |-> q, code |-> code]
  <1>1. /\ Advances(q, handlers[q], "lookup") /\ handlers[q].at = "delete"
        /\ otp' = NoCode /\ consumed' = consumed \cup {new}
        /\ UNCHANGED <<latest, overlapped, time, made>>
    BY DeleteCodeDoes DEF Base, limiterVars
  <1>2. code \in MadeCodes /\ code \in Calls
    BY <1>1 DEF Base, Arguments, At, MadeCodes, LoginTypeOK
  <1>3. StoredLatest'
    BY <1>1, <1>2, NilIsNil DEF StoredLatest, NoCode, MadeCodes, Base, LoginTypeOK
  <1>4. UsersOverlap'
    <2> SUFFICES ASSUME NEW p \in Calls, At(p, "delete")'
                 PROVE  /\ \A x \in consumed' : x.code = handlers'[p].code => p = x.call \/ {p, x.call} \in overlapped
                        /\ handlers'[p].code = latest.code \/ {p, latest.code} \in overlapped
      BY <1>1 DEF UsersOverlap
    <2>1. p # q /\ handlers'[p] = handlers[p] /\ At(p, "delete")
      BY <1>1 DEF Advances, At
    <2>2. {p, q} \in overlapped
      BY <1>1, <2>1 DEF Base, Paired, InFlight, At
    <2>3. /\ \A x \in consumed : x.code = handlers[p].code => p = x.call \/ {p, x.call} \in overlapped
          /\ handlers[p].code = latest.code \/ {p, latest.code} \in overlapped
      BY <2>1 DEF UsersOverlap
    <2>4. new.call = q
      OBVIOUS
    <2> HIDE DEF new
    <2> QED
      BY <1>1, <2>1, <2>2, <2>3, <2>4
  <1>5. CodeUsedOnce'
    <2>1. ASSUME NEW x \in consumed, x.code = code, x # new PROVE {x.call, q} \in overlapped
      <3>1. x \in [call : Calls, code : Calls]
        BY DEF Base, LoginTypeOK
      <3>2. x.call # q
        BY <2>1, <3>1
      <3>3. {q, x.call} \in overlapped /\ {q, x.call} = {x.call, q}
        BY <1>1, <2>1, <3>2 DEF UsersOverlap, At
      <3> QED
        BY <3>3
    <2>2. \A x, y \in consumed' : x.code = y.code /\ x # y => {x.call, y.call} \in overlapped
      <3> SUFFICES ASSUME NEW x \in consumed', NEW y \in consumed', x.code = y.code, x # y
                   PROVE  {x.call, y.call} \in overlapped
        OBVIOUS
      <3>1. CASE x \in consumed /\ y \in consumed
        BY <3>1 DEF CodeUsedOnce
      <3>2. CASE x = new /\ y \in consumed
        <4>1. {y.call, q} \in overlapped /\ {y.call, q} = {x.call, y.call}
          BY <2>1, <3>2
        <4> QED
          BY <4>1
      <3>3. CASE y = new /\ x \in consumed
        BY <2>1, <3>3
      <3> QED
        BY <1>1, <3>1, <3>2, <3>3
    <2>3. new.code = latest.code \/ {new.call, latest.code} \in overlapped
      BY <1>1 DEF UsersOverlap, At
    <2> HIDE DEF new
    <2> QED
      BY <1>1, <2>2, <2>3 DEF CodeUsedOnce
  <1> QED
    BY <1>3, <1>4, <1>5

LEMMA CodesStep ==
    ASSUME Base, CodeIInv, NEW q \in Calls, Handle(q)
    PROVE  CodeIInv'
  <1>b. Base' /\ LoginTypeOK /\ Arguments /\ MadeOnce
    BY BaseStep DEF Base
  <1>t. time \in Nat
    BY <1>b, TimesBounded DEF LoginTypeOK, LimiterTypeOK
  <1>1. CASE Ask(q)
    <2>1. PICK step \in {"done", "store"} : Advances(q, AtEase, step)
      BY <1>1, <1>b, AskDoes
    <2>2. \A p \in Calls : handlers'[p].at = "delete" =>
              handlers[p].at = "delete" /\ handlers'[p].code = handlers[p].code
      BY <2>1 DEF Advances
    <2> QED
      BY <1>1, <1>b, <1>t, <2>2, AskDoes, CodesQuiet DEF limiterVars, MadeCodes
  <1>2. ASSUME NEW d \in Devices, NEW token \in {i.token : i \in issued[d]}, Refresh(q, d, token)
        PROVE  CodeIInv'
    <2>1. token \in Tokens
      BY <1>b DEF LoginTypeOK
    <2>2. PICK h \in Handlers :
           /\ Advances(q, h, IF session[d] = token THEN "reread" ELSE "done")
           /\ overlapped' = overlapped \cup {{q, p} : p \in InFlight}
           /\ UNCHANGED <<limiterVars, otp, consumed, made, latest>>
      BY <1>2, <1>b, <2>1, RefreshDoes
    <2>3. \A p \in Calls : handlers'[p].at = "delete" =>
              handlers[p].at = "delete" /\ handlers'[p].code = handlers[p].code
      BY <2>2 DEF Advances
    <2> QED
      BY <1>b, <1>t, <2>2, <2>3, CodesQuiet DEF limiterVars, MadeCodes
  <1>3. ASSUME NEW d \in Devices, NEW token, Logout(q, d, token) PROVE CodeIInv'
    <2>1. \A p \in Calls : handlers'[p].at = "delete" =>
              handlers[p].at = "delete" /\ handlers'[p].code = handlers[p].code
      BY <1>3, <1>b, LogoutDoes DEF Advances
    <2> QED
      BY <1>3, <1>b, <1>t, <2>1, LogoutDoes, CodesQuiet DEF limiterVars, MadeCodes
  <1>4. CASE RecordAsk(q) \/ LookUpWorker(q) \/ Register(q) \/ IssueTokens(q) \/ Reread(q) \/ DropToken(q)
             \/ PutToken(q) \/ HandlerFails(q)
    <2>1. PICK step \in Steps \ {"delete"} : Advances(q, handlers[q], step)
      BY <1>4, <1>b, RecordAskDoes, LookUpWorkerDoes, RegisterDoes, IssueTokensDoes, RereadDoes, DropTokenDoes,
         PutTokenDoes, HandlerFailsDoes DEF Steps
    <2>2. \A p \in Calls : handlers'[p].at = "delete" =>
              handlers[p].at = "delete" /\ handlers'[p].code = handlers[p].code
      BY <2>1 DEF Advances
    <2>3. UNCHANGED <<otp, latest, consumed, overlapped, made, time>>
      BY <1>4, <1>b, RecordAskDoes, LookUpWorkerDoes, RegisterDoes, IssueTokensDoes, RereadDoes, DropTokenDoes,
         PutTokenDoes, HandlerFailsDoes DEF histories, limiterVars
    <2> QED
      BY <1>b, <1>t, <2>2, <2>3, CodesQuiet DEF MadeCodes
  <1> QED
    BY <1>b, <1>1, <1>2, <1>3, <1>4, StoreCodeCodes, VerifyCodes, DeleteCodeCodes DEF Handle

-----------------------------------------------------------------------------
(* Requests for a code are bounded.                                           *)

LEMMA CallsOf ==
    ASSUME NEW C, IsFiniteSet(C)
    PROVE  /\ IsFiniteSet({m.call : m \in C})
           /\ Cardinality({m.call : m \in C}) <= Cardinality(C)
  <1> DEFINE f == [m \in C |-> m.call]
             R == {m.call : m \in C}
  <1>1. f \in Surjection(C, R)
    BY DEF Surjection
  <1> HIDE DEF f, R
  <1>2. IsFiniteSet(R) /\ Cardinality(R) <= Cardinality(C)
    BY <1>1, FS_Surjection
  <1> QED
    BY <1>2 DEF R

LEMMA BatchQuiet ==
    ASSUME Base, AsksBounded, made' = made, overlapped \subseteq overlapped',
           \A p \in Calls : handlers[p].at = "failed" => handlers'[p].at = "failed"
    PROVE  AsksBounded'
  <1>0. \A m \in made : m.call \in Calls
    BY DEF Base, LoginTypeOK
  <1> SUFFICES ASSUME NEW t \in 0..MaxTime
               PROVE  LET batch == {m.call : m \in {n \in made : n.at > t - AskWindow + Spread /\ n.at <= t}} IN
                      \/ Cardinality(batch) <= MaxAsks
                      \/ \E p, q \in batch : p # q /\ {p, q} \in overlapped'
                      \/ \E p \in batch : At(p, "failed")'
    BY DEF AsksBounded
  <1> DEFINE batch == {m.call : m \in {n \in made : n.at > t - AskWindow + Spread /\ n.at <= t}}
  <1>1. batch \subseteq Calls
    BY <1>0
  <1>2. \/ Cardinality(batch) <= MaxAsks
        \/ \E p, q \in batch : p # q /\ {p, q} \in overlapped
        \/ \E p \in batch : At(p, "failed")
    BY DEF AsksBounded
  <1> HIDE DEF batch
  <1>3. \/ Cardinality(batch) <= MaxAsks
        \/ \E p, q \in batch : p # q /\ {p, q} \in overlapped'
        \/ \E p \in batch : At(p, "failed")'
    BY <1>1, <1>2 DEF At
  <1> QED
    BY <1>3 DEF batch

\* What neither asks, stores nor records a request lets the set of those alone
\* in a window shrink only.
LEMMA AsksQuiet ==
    ASSUME Base, AskIInv, UNCHANGED <<made, asked>>,
           overlapped \subseteq overlapped', time' \in Nat, time' >= time,
           \A p \in Calls : /\ handlers'[p].at = "store" => handlers[p].at = "store"
                            /\ handlers[p].at = "failed" => handlers'[p].at = "failed"
                            /\ handlers[p].at = "record" => handlers'[p].at \in {"record", "failed"}
    PROVE  AskIInv'
  <1> USE DEF AskIInv
  <1>t. /\ time \in Nat /\ Spread \in Nat /\ AskWindow \in Nat
        /\ \A m \in made : m.call \in Calls /\ m.at \in Nat
    BY TimesBounded, LivesPositive DEF Base, LoginTypeOK, LimiterTypeOK
  <1>1. Recorded'
    <2> SUFFICES ASSUME NEW m \in made
                 PROVE  \/ At(m.call, "record")' \/ At(m.call, "failed")'
                        \/ m.at <= time' - AskWindow + Spread
                        \/ \E a \in asked : a.call = m.call /\ a.at >= m.at
      BY DEF Recorded
    <2>1. m.at <= time - AskWindow + Spread => m.at <= time' - AskWindow + Spread
      BY <1>t
    <2> QED
      BY <1>t, <2>1 DEF Recorded, At
  <1>2. AskedFew'
    <2> SUFFICES ASSUME NEW q \in Calls, At(q, "store")' PROVE Cardinality(Alone(q)') < MaxAsks
      BY DEF AskedFew
    <2>1. At(q, "store") /\ Cardinality(Alone(q)) < MaxAsks
      BY DEF AskedFew, At
    <2>2. Alone(q)' \subseteq Alone(q)
      BY <1>t DEF Alone, At
    <2>3. IsFiniteSet(Alone(q))
      BY FS_Subset DEF Alone
    <2>4. /\ Cardinality(Alone(q)) \in Nat /\ Cardinality(Alone(q)') \in Nat
          /\ Cardinality(Alone(q)') <= Cardinality(Alone(q))
      BY <2>2, <2>3, FS_Subset, FS_CardinalityType
    <2> QED
      BY <2>1, <2>4, LivesPositive
  <1>3. AsksBounded'
    BY BatchQuiet
  <1> QED
    BY <1>1, <1>2, <1>3

LEMMA AloneShrinks ==
    ASSUME AskIInv, NEW p \in Calls, At(p, "store"), Alone(p)' \subseteq Alone(p)
    PROVE  Cardinality(Alone(p)') < MaxAsks
  <1>1. IsFiniteSet(Alone(p)) /\ Cardinality(Alone(p)) < MaxAsks
    BY FS_Subset DEF AskIInv, AskedFew, Alone
  <1>2. /\ Cardinality(Alone(p)) \in Nat /\ Cardinality(Alone(p)') \in Nat
        /\ Cardinality(Alone(p)') <= Cardinality(Alone(p))
    BY <1>1, FS_Subset, FS_CardinalityType
  <1> QED
    BY <1>1, <1>2, LivesPositive

LEMMA AskAsks ==
    ASSUME Base, AskIInv, NEW q \in Calls, Ask(q), Base'
    PROVE  AskIInv'
  <1> USE DEF AskIInv
  <1>1. /\ Advances(q, AtEase, IF Cardinality(Recent(q)) >= MaxAsks THEN "done" ELSE "store")
        /\ handlers[q].at = "idle"
        /\ overlapped' = overlapped \cup {{q, p} : p \in InFlight}
        /\ asked' = Recent(q)
        /\ UNCHANGED <<time, calls, made>>
    BY AskDoes DEF Base, limiterVars
  <1>2. /\ time \in Nat /\ Spread \in Nat /\ AskWindow \in Nat /\ MaxAsks \in Nat
        /\ calls[q].skew \in Nat /\ calls[q].skew <= Spread /\ Clock(q) = time + calls[q].skew
        /\ \A m \in made : m.call \in Calls /\ m.at \in Nat
        /\ \A a \in asked : a.call \in Calls /\ a.at \in Nat
    BY TimesBounded, LivesPositive DEF Base, LoginTypeOK, LimiterTypeOK, Clock
  <1>3. /\ \A m \in made : m.call # q
        /\ \A p \in Calls : p # q => handlers'[p] = handlers[p]
        /\ handlers'[q].at \in {"done", "store"}
    BY <1>1 DEF Base, MadeOnce, Advances
  <1>4. IsFiniteSet(asked') /\ IsFiniteSet(Recent(q))
    BY <1>1, FS_Subset DEF Recent
  <1>5. ASSUME NEW a \in asked, a.at > time - AskWindow + Spread PROVE a \in Recent(q)
    BY <1>2, <1>5 DEF Recent
  <1>6. Recorded'
    <2> SUFFICES ASSUME NEW m \in made
                 PROVE  \/ At(m.call, "record")' \/ At(m.call, "failed")'
                        \/ m.at <= time - AskWindow + Spread
                        \/ \E a \in asked' : a.call = m.call /\ a.at >= m.at
      BY <1>1 DEF Recorded
    <2>1. CASE \E a \in asked : a.call = m.call /\ a.at >= m.at
      <3>1. PICK a \in asked : a.call = m.call /\ a.at >= m.at
        BY <2>1
      <3>2. CASE a.at > time - AskWindow + Spread
        BY <1>1, <1>5, <3>1, <3>2
      <3>3. CASE ~(a.at > time - AskWindow + Spread)
        BY <1>2, <3>1, <3>3
      <3> QED
        BY <3>2, <3>3
    <2>2. CASE ~\E a \in asked : a.call = m.call /\ a.at >= m.at
      BY <1>2, <1>3, <2>2 DEF Recorded, At
    <2> QED
      BY <2>1, <2>2
  <1>7. AskedFew'
    <2> SUFFICES ASSUME NEW p \in Calls, At(p, "store")' PROVE Cardinality(Alone(p)') < MaxAsks
      BY DEF AskedFew
    <2>1. CASE p # q
      <3>1. At(p, "store")
        BY <1>3, <2>1 DEF At
      <3>2. Alone(p)' \subseteq Alone(p)
        BY <1>1, <1>2, <1>3 DEF Alone, At
      <3> QED
        BY <3>1, <3>2, AloneShrinks
    <2>2. CASE p = q
      <3>1. Cardinality(Recent(q)) < MaxAsks
        BY <1>1, <1>2, <1>4, <2>2, FS_CardinalityType DEF Advances, At
      <3> DEFINE S == Alone(q)'
                 stems(m, a) == a.call = m.call
                 f == [m \in S |-> CHOOSE a \in Recent(q) : stems(m, a)]
      <3>2. ASSUME NEW m \in S PROVE \E a \in Recent(q) : stems(m, a)
        <4>1. /\ m \in made /\ m.at > time - AskWindow + Spread
              /\ {m.call, q} \notin overlapped' /\ ~At(m.call, "failed")'
          BY <1>1 DEF Alone
        <4>2. m.call \in Calls /\ m.call # q
          BY <4>1, <1>2, <1>3
        <4>3. ~At(m.call, "record")
          <5>1. SUFFICES ASSUME At(m.call, "record") PROVE FALSE
            OBVIOUS
          <5>2. m.call \in InFlight /\ {m.call, q} = {q, m.call}
            BY <4>2, <5>1 DEF InFlight, At
          <5> QED
            BY <1>1, <4>1, <5>2
        <4>4. ~At(m.call, "failed")
          BY <1>3, <4>1, <4>2 DEF At
        <4>5. PICK a \in asked : a.call = m.call /\ a.at >= m.at
          BY <1>2, <4>1, <4>3, <4>4 DEF Recorded
        <4>6. a.at > time - AskWindow + Spread
          BY <1>2, <4>1, <4>5
        <4> QED
          BY <1>5, <4>5, <4>6
      <3>3. \A m \in S : f[m] \in Recent(q) /\ stems(m, f[m])
        BY <3>2
      <3>4. f \in Injection(S, Recent(q))
        <4>1. f \in [S -> Recent(q)]
          BY <3>3
        <4>2. \A m, n \in S : f[m] = f[n] => m.call = n.call
          BY <3>3
        <4>3. S \subseteq made
          BY <1>1 DEF Alone
        <4>4. \A m, n \in S : f[m] = f[n] => m = n
          BY <4>2, <4>3 DEF Base, MadeOnce
        <4> HIDE DEF f, S
        <4> QED
          BY <4>1, <4>4 DEF Injection, IsInjective
      <3>5. IsFiniteSet(S) /\ Cardinality(S) <= Cardinality(Recent(q))
        <4> HIDE DEF f, S
        <4> QED
          BY <1>4, <3>4, FS_Injection
      <3>6. Cardinality(S) \in Nat /\ Cardinality(Recent(q)) \in Nat
        BY <1>4, <3>5, FS_CardinalityType
      <3> QED
        BY <1>2, <2>2, <3>1, <3>5, <3>6
    <2> QED
      BY <2>1, <2>2
  <1>8. AsksBounded'
    <2>1. \A p \in Calls : handlers[p].at = "failed" => handlers'[p].at = "failed"
      BY <1>1, <1>3
    <2> QED
      BY <1>1, <2>1, BatchQuiet
  <1> QED
    BY <1>1, <1>4, <1>6, <1>7, <1>8

LEMMA RecordAskAsks ==
    ASSUME Base, AskIInv, NEW q \in Calls, RecordAsk(q), Base'
    PROVE  AskIInv'
  <1> USE DEF AskIInv
  <1>1. /\ Advances(q, handlers[q], "done") /\ handlers[q].at = "record"
        /\ asked' = asked \cup {[call |-> q, at |-> Clock(q)]}
        /\ UNCHANGED <<time, calls, made, overlapped>>
    BY RecordAskDoes DEF Base, limiterVars, histories
  <1>2. /\ time \in Nat /\ calls[q].skew \in Nat /\ Clock(q) = time + calls[q].skew
        /\ \A m \in made : m.call \in Calls /\ m.at \in Nat /\ m.at <= time
    BY TimesBounded DEF Base, LoginTypeOK, LimiterTypeOK, Clock, MadeOnce
  <1>3. /\ \A p \in Calls : p # q => handlers'[p] = handlers[p]
        /\ handlers'[q].at = "done"
    BY <1>1 DEF Advances
  <1>4. IsFiniteSet(asked')
    BY <1>1, FS_AddElement
  <1>5. Recorded'
    <2> SUFFICES ASSUME NEW m \in made
                 PROVE  \/ At(m.call, "record")' \/ At(m.call, "failed")'
                        \/ m.at <= time - AskWindow + Spread
                        \/ \E a \in asked' : a.call = m.call /\ a.at >= m.at
      BY <1>1 DEF Recorded
    <2>1. CASE m.call = q
      <3>1. [call |-> q, at |-> Clock(q)] \in asked' /\ Clock(q) >= m.at
        BY <1>1, <1>2
      <3> QED
        BY <2>1, <3>1
    <2>2. CASE m.call # q
      BY <1>1, <1>2, <1>3, <2>2 DEF Recorded, At
    <2> QED
      BY <2>1, <2>2
  <1>6. AskedFew'
    <2> SUFFICES ASSUME NEW p \in Calls, At(p, "store")' PROVE Cardinality(Alone(p)') < MaxAsks
      BY DEF AskedFew
    <2>1. At(p, "store")
      BY <1>3 DEF At
    <2>2. Alone(p)' \subseteq Alone(p)
      BY <1>1, <1>2, <1>3 DEF Alone, At
    <2> QED
      BY <2>1, <2>2, AloneShrinks
  <1>7. AsksBounded'
    <2>1. \A p \in Calls : handlers[p].at = "failed" => handlers'[p].at = "failed"
      BY <1>1, <1>3
    <2> QED
      BY <1>1, <2>1, BatchQuiet
  <1> QED
    BY <1>1, <1>4, <1>5, <1>6, <1>7

LEMMA StoreCodeAsks ==
    ASSUME Base, AskIInv, NEW q \in Calls, StoreCode(q), Base'
    PROVE  AskIInv'
  <1> USE DEF AskIInv
  <1> DEFINE new == [call |-> q, at |-> time]
  <1>1. /\ Advances(q, handlers[q], "record") /\ handlers[q].at = "store"
        /\ made' = made \cup {new}
        /\ UNCHANGED <<time, calls, asked, overlapped>>
        /\ new.call = q /\ new.at = time
    BY StoreCodeDoes DEF Base, limiterVars
  <1> HIDE DEF new
  <1>2. /\ time \in Nat /\ Spread \in Nat /\ AskWindow \in Nat /\ MaxAsks \in Nat
        /\ \A m \in made : m.call \in Calls /\ m.at \in Nat /\ m.at <= time /\ m.call # q
    BY <1>1, TimesBounded, LivesPositive DEF Base, LoginTypeOK, LimiterTypeOK, MadeOnce
  <1>3. /\ \A p \in Calls : p # q => handlers'[p] = handlers[p]
        /\ handlers'[q].at = "record"
    BY <1>1 DEF Advances
  <1>4. IsFiniteSet(made')
    BY <1>1, FS_AddElement
  <1>5. Recorded'
    <2> SUFFICES ASSUME NEW m \in made'
                 PROVE  \/ At(m.call, "record")' \/ At(m.call, "failed")'
                        \/ m.at <= time - AskWindow + Spread
                        \/ \E a \in asked : a.call = m.call /\ a.at >= m.at
      BY <1>1 DEF Recorded
    <2>1. CASE m = new
      BY <2>1, <1>1, <1>3 DEF At
    <2>2. CASE m \in made
      BY <1>2, <1>3, <2>2 DEF Recorded, At
    <2> QED
      BY <1>1, <2>1, <2>2
  <1>6. AskedFew'
    <2> SUFFICES ASSUME NEW p \in Calls, At(p, "store")' PROVE Cardinality(Alone(p)') < MaxAsks
      BY DEF AskedFew
    <2>1. At(p, "store") /\ p # q
      BY <1>3 DEF At
    <2>2. {q, p} \in overlapped
      BY <1>1, <2>1 DEF Base, Paired, InFlight, At
    <2>3. Alone(p)' \subseteq Alone(p)
      BY <1>1, <1>2, <1>3, <2>2 DEF Alone, At
    <2> QED
      BY <2>1, <2>3, AloneShrinks
  <1>7. AsksBounded'
    <2> SUFFICES ASSUME NEW t \in 0..MaxTime
                 PROVE  LET batch == {m.call : m \in {n \in made' : n.at > t - AskWindow + Spread /\ n.at <= t}} IN
                        \/ Cardinality(batch) <= MaxAsks
                        \/ \E a, b \in batch : a # b /\ {a, b} \in overlapped
                        \/ \E a \in batch : At(a, "failed")'
      BY <1>1 DEF AsksBounded
    <2> DEFINE old == {m.call : m \in {n \in made : n.at > t - AskWindow + Spread /\ n.at <= t}}
               batch == {m.call : m \in {n \in made' : n.at > t - AskWindow + Spread /\ n.at <= t}}
    <2>1. old \subseteq Calls /\ q \notin old /\ old \subseteq batch
      BY <1>1, <1>2
    <2>2. \/ Cardinality(old) <= MaxAsks
          \/ \E a, b \in old : a # b /\ {a, b} \in overlapped
          \/ \E a \in old : At(a, "failed")
      BY DEF AsksBounded
    <2>3. (\E a \in old : At(a, "failed")) => \E a \in batch : At(a, "failed")'
      BY <2>1, <1>3 DEF At
    <2>4. CASE ~(time > t - AskWindow + Spread /\ time <= t)
      <3>1. {n \in made' : n.at > t - AskWindow + Spread /\ n.at <= t}
              = {n \in made : n.at > t - AskWindow + Spread /\ n.at <= t}
        BY <1>1, <2>4
      <3>2. batch = old
        BY <3>1
      <3> HIDE DEF old, batch
      <3>3. \/ Cardinality(batch) <= MaxAsks
            \/ \E a, b \in batch : a # b /\ {a, b} \in overlapped
            \/ \E a \in batch : At(a, "failed")'
        BY <2>2, <2>3, <3>2
      <3> QED
        BY <3>3 DEF batch
    <2>5. CASE time > t - AskWindow + Spread /\ time <= t
      <3>1. CASE \E a \in old : At(a, "failed") \/ {a, q} \in overlapped
        <4>1. q \in batch
          BY <1>1, <2>5
        <4> HIDE DEF old, batch
        <4>2. \/ \E a, b \in batch : a # b /\ {a, b} \in overlapped
              \/ \E a \in batch : At(a, "failed")'
          BY <2>1, <2>3, <3>1, <4>1
        <4> QED
          BY <4>2 DEF batch
      <3>2. CASE \A a \in old : ~At(a, "failed") /\ {a, q} \notin overlapped
        <4> DEFINE B == {n \in made : n.at > t - AskWindow + Spread /\ n.at <= t}
        <4>1. B \subseteq Alone(q)
          <5> SUFFICES ASSUME NEW n \in B PROVE n \in Alone(q)
            OBVIOUS
          <5>1. n.call \in old /\ n.at > time - AskWindow + Spread
            BY <1>2, <2>5
          <5>2. n \in made /\ ~At(n.call, "failed") /\ {n.call, q} \notin overlapped
            BY <3>2, <5>1
          <5> QED
            BY <5>1, <5>2 DEF Alone
        <4>2. IsFiniteSet(Alone(q)) /\ Cardinality(Alone(q)) < MaxAsks
          BY <1>1, FS_Subset DEF Alone, AskedFew, At
        <4>3. /\ IsFiniteSet(B) /\ Cardinality(B) \in Nat /\ Cardinality(B) < MaxAsks
          <5> HIDE DEF B
          <5>1. /\ IsFiniteSet(B) /\ Cardinality(B) <= Cardinality(Alone(q))
            BY <4>1, <4>2, FS_Subset
          <5> QED
            BY <1>2, <4>2, <5>1, FS_CardinalityType
        <4> DEFINE C == {n \in made' : n.at > t - AskWindow + Spread /\ n.at <= t}
        <4>4. C = B \cup {new}
          BY <1>1, <2>5
        <4>5. IsFiniteSet(C) /\ Cardinality(C) \in Nat /\ Cardinality(C) <= MaxAsks
          <5> HIDE DEF B, C
          <5>1. IsFiniteSet(C) /\ Cardinality(C) \in Nat /\ Cardinality(C) <= Cardinality(B) + 1
            BY <4>3, <4>4, OneMore
          <5> QED
            BY <1>2, <4>3, <5>1
        <4>6. batch = {m.call : m \in C}
          OBVIOUS
        <4>7. IsFiniteSet(batch) /\ Cardinality(batch) <= Cardinality(C)
          <5> HIDE DEF C, batch
          <5> QED
            BY <4>5, <4>6, CallsOf
        <4>8. Cardinality(batch) <= MaxAsks
          <5> HIDE DEF C, batch
          <5> QED
            BY <1>2, <4>5, <4>7, FS_CardinalityType
        <4> QED
          BY <4>8
      <3> QED
        BY <3>1, <3>2
    <2> QED
      BY <2>4, <2>5
  <1> QED
    BY <1>1, <1>4, <1>5, <1>6, <1>7

LEMMA AsksStep ==
    ASSUME Base, AskIInv, NEW q \in Calls, Handle(q)
    PROVE  AskIInv'
  <1>b. Base' /\ LoginTypeOK /\ Arguments /\ MadeOnce
    BY BaseStep DEF Base
  <1>t. time \in Nat
    BY <1>b, TimesBounded DEF LoginTypeOK, LimiterTypeOK
  <1> DEFINE quiet == \A p \in Calls :
                /\ handlers'[p].at = "store" => handlers[p].at = "store"
                /\ handlers[p].at = "failed" => handlers'[p].at = "failed"
                /\ handlers[p].at = "record" => handlers'[p].at \in {"record", "failed"}
  <1>1. ASSUME NEW code \in Calls, NEW d \in Devices, Verify(q, code, d) PROVE AskIInv'
    <2>1. PICK h \in Handlers :
           /\ Advances(q, h, IF otp.code = code /\ time < otp.until THEN "delete" ELSE "done")
           /\ handlers[q].at = "idle"
           /\ overlapped' = overlapped \cup {{q, p} : p \in InFlight}
           /\ UNCHANGED <<limiterVars, asked, made>>
      BY <1>1, <1>b, VerifyDoes
    <2>2. quiet
      BY <2>1 DEF Advances
    <2> QED
      BY <1>b, <1>t, <2>1, <2>2, AsksQuiet DEF limiterVars
  <1>2. ASSUME NEW d \in Devices, NEW token \in {i.token : i \in issued[d]}, Refresh(q, d, token)
        PROVE  AskIInv'
    <2>1. token \in Tokens
      BY <1>b DEF LoginTypeOK
    <2>2. PICK h \in Handlers :
           /\ Advances(q, h, IF session[d] = token THEN "reread" ELSE "done")
           /\ handlers[q].at = "idle"
           /\ overlapped' = overlapped \cup {{q, p} : p \in InFlight}
           /\ UNCHANGED <<limiterVars, asked, made>>
      BY <1>2, <1>b, <2>1, RefreshDoes
    <2>3. quiet
      BY <2>2 DEF Advances
    <2> QED
      BY <1>b, <1>t, <2>2, <2>3, AsksQuiet DEF limiterVars
  <1>3. ASSUME NEW d \in Devices, NEW token, Logout(q, d, token) PROVE AskIInv'
    <2>1. quiet
      BY <1>3, <1>b, LogoutDoes DEF Advances
    <2> QED
      BY <1>3, <1>b, <1>t, <2>1, LogoutDoes, AsksQuiet DEF limiterVars
  <1>4. CASE DeleteCode(q) \/ LookUpWorker(q) \/ Register(q) \/ IssueTokens(q) \/ Reread(q) \/ DropToken(q)
             \/ PutToken(q) \/ HandlerFails(q)
    <2>1. PICK step \in Steps \ {"store"} :
             /\ Advances(q, handlers[q], step)
             /\ handlers[q].at # "failed"
             /\ handlers[q].at = "record" => step = "failed"
      BY <1>4, <1>b, DeleteCodeDoes, LookUpWorkerDoes, RegisterDoes, IssueTokensDoes, RereadDoes, DropTokenDoes,
         PutTokenDoes, HandlerFailsDoes DEF Steps
    <2>2. quiet
      BY <2>1 DEF Advances
    <2>3. UNCHANGED <<asked, overlapped, made, time>>
      BY <1>4, <1>b, DeleteCodeDoes, LookUpWorkerDoes, RegisterDoes, IssueTokensDoes, RereadDoes, DropTokenDoes,
         PutTokenDoes, HandlerFailsDoes DEF histories, limiterVars
    <2> QED
      BY <1>b, <1>t, <2>2, <2>3, AsksQuiet
  <1> QED
    BY <1>b, <1>1, <1>2, <1>3, <1>4, AskAsks, StoreCodeAsks, RecordAskAsks DEF Handle

-----------------------------------------------------------------------------
(* Refresh tokens are exchanged once.                                         *)

Exchanging == {"reread", "drop", "put"}

\* What hands out no token and starts no exchange keeps the tokens in order.
LEMMA TokensQuiet ==
    ASSUME Base, TokenIInv, UNCHANGED <<issued, rotated>>, overlapped \subseteq overlapped',
           session' \in [Devices -> Tokens \cup {Nil}],
           \A d \in Devices : session'[d] \in {session[d], Nil},
           \A p \in Calls : /\ handlers'[p].at \in Exchanging =>
                                 /\ handlers[p].at \in Exchanging
                                 /\ handlers'[p].device = handlers[p].device
                                 /\ handlers'[p].token = handlers[p].token
                            /\ handlers'[p].at \notin {"done", "failed"} =>
                                 handlers[p].at \notin {"done", "failed"}
    PROVE  TokenIInv'
  <1> USE DEF TokenIInv, Exchanging
  <1>0. /\ \A x \in rotated : x.device \in Devices /\ x.call \in Calls /\ x.token \in Tokens
        /\ \A k \in Tokens : k # Nil
    BY NilIsNil DEF Base, LoginTypeOK, Tokens
  <1>1. IssuedLast'
    BY DEF IssuedLast
  <1>2. Exchanged'
    <2> SUFFICES ASSUME NEW x \in rotated
                 PROVE  /\ session'[x.device] = x.token => IssuedTwice(x.device, x.token)'
                        /\ \A q \in Calls :
                              ( /\ handlers'[q].at \in {"reread", "drop", "put"}
                                /\ handlers'[q].device = x.device /\ handlers'[q].token = x.token ) =>
                              q = x.call \/ {q, x.call} \in overlapped' \/ IssuedTwice(x.device, x.token)'
      BY DEF Exchanged
    <2>1. IssuedTwice(x.device, x.token)' = IssuedTwice(x.device, x.token)
      BY DEF IssuedTwice
    <2>2. session'[x.device] = x.token => session[x.device] = x.token
      BY <1>0
    <2> QED
      BY <2>1, <2>2 DEF Exchanged
  <1>3. TokenRotatedOnce'
    BY DEF TokenRotatedOnce
  <1> QED
    BY <1>1, <1>2, <1>3

LEMMA HandOutTokens ==
    ASSUME Base, TokenIInv, NEW q \in Calls, handlers[q].at \notin {"done", "failed"},
           Advances(q, handlers[q], "done"), NEW d \in Devices, Base',
           session' = [session EXCEPT ![d] = time],
           issued' = [issued EXCEPT ![d] = @ \cup {[call |-> q, token |-> time]}],
           overlapped' = overlapped,
           rotated' = rotated \/ ( /\ handlers[q].at \in Exchanging /\ handlers[q].device = d
                                   /\ rotated' = rotated \cup {[call |-> q, device |-> d, token |-> handlers[q].token]} )
    PROVE  TokenIInv'
  <1> DEFINE rot == [call |-> q, device |-> d, token |-> handlers[q].token]
             new == [call |-> q, token |-> time]
  <1>r. rot.call = q /\ rot.device = d /\ rot.token = handlers[q].token /\ new.call = q /\ new.token = time
    OBVIOUS
  <1>0. /\ \A x \in rotated : x.device \in Devices /\ x.call \in Calls /\ x.token \in Tokens
        /\ time \in Tokens /\ Nil \notin Tokens /\ time # Nil
    BY NilIsNil DEF Base, LoginTypeOK, LimiterTypeOK, Tokens
  <1>1. /\ session'[d] = time /\ \A e \in Devices : e # d => session'[e] = session[e]
        /\ issued'[d] = issued[d] \cup {new}
        /\ \A e \in Devices : e # d => issued'[e] = issued[e]
        /\ \A e \in Devices : issued[e] \subseteq issued'[e]
    BY DEF Base, LoginTypeOK
  <1>2. /\ handlers'[q].at = "done" /\ \A p \in Calls : p # q => handlers'[p] = handlers[p]
    BY DEF Advances
  <1>3. rotated' \subseteq rotated \cup {rot} /\ (rotated' # rotated => handlers[q].at \in Exchanging /\ handlers[q].device = d)
    OBVIOUS
  <1> HIDE DEF rot, new
  <1>4. \A e \in Devices : \A k : IssuedTwice(e, k) => IssuedTwice(e, k)'
    BY <1>1 DEF IssuedTwice
  <1>k. rot \in rotated' /\ rot \notin rotated => \E i \in issued[d] : i.token = rot.token
    BY <1>3, <1>r DEF Base, Arguments, Exchanging
  <1>5. \A x \in rotated' : x.device \in Devices /\ \E i \in issued[x.device] : i.token = x.token
    BY <1>0, <1>3, <1>r, <1>k DEF TokenIInv, IssuedLast
  <1>6. IssuedLast'
    <2>1. \A p \in Calls : handlers'[p].at \notin {"done", "failed"} =>
              \A e \in Devices : \A i \in issued'[e] : i.call # p
      BY <1>1, <1>2, <1>r DEF TokenIInv, IssuedLast
    <2>2. \A e \in Devices : session'[e] # Nil => \E i \in issued'[e] : i.token = session'[e]
      BY <1>1, <1>r DEF TokenIInv, IssuedLast
    <2>3. \A x \in rotated' : \E i \in issued'[x.device] : i.token = x.token
      BY <1>1, <1>5
    <2> QED
      BY <2>1, <2>2, <2>3 DEF IssuedLast
  <1>7. Exchanged'
    <2> SUFFICES ASSUME NEW x \in rotated'
                 PROVE  /\ session'[x.device] = x.token => IssuedTwice(x.device, x.token)'
                        /\ \A p \in Calls :
                              ( /\ handlers'[p].at \in {"reread", "drop", "put"}
                                /\ handlers'[p].device = x.device /\ handlers'[p].token = x.token ) =>
                              p = x.call \/ {p, x.call} \in overlapped \/ IssuedTwice(x.device, x.token)'
      BY DEF Exchanged
    <2>1. session'[x.device] = x.token => IssuedTwice(x.device, x.token)'
      <3>1. CASE x.device = d
        <4> SUFFICES ASSUME x.token = time PROVE IssuedTwice(x.device, x.token)'
          BY <1>1, <3>1
        <4>1. \E i \in issued[d] : i.token = time
          BY <1>5, <3>1
        <4>2. PICK i \in issued[d] : i.token = time
          BY <4>1
        <4>3. i.call # q /\ i \in issued'[d] /\ new \in issued'[d] /\ new.call = q /\ new.token = time
          BY <1>1, <1>r, <4>2 DEF TokenIInv, IssuedLast
        <4>4. i # new
          BY <4>3
        <4> QED
          BY <3>1, <4>2, <4>3, <4>4 DEF IssuedTwice
      <3>2. CASE x.device # d
        <4>1. x \in rotated /\ session'[x.device] = session[x.device]
          BY <1>1, <1>3, <1>5, <1>r, <3>2
        <4> QED
          BY <1>0, <1>4, <4>1 DEF TokenIInv, Exchanged
      <3> QED
        BY <3>1, <3>2
    <2>2. ASSUME NEW p \in Calls, handlers'[p].at \in {"reread", "drop", "put"},
                 handlers'[p].device = x.device, handlers'[p].token = x.token
          PROVE  p = x.call \/ {p, x.call} \in overlapped \/ IssuedTwice(x.device, x.token)'
      <3>1. p # q /\ handlers'[p] = handlers[p]
        BY <1>2, <2>2
      <3>2. CASE x \in rotated
        BY <1>0, <1>4, <2>2, <3>1, <3>2 DEF TokenIInv, Exchanged
      <3>3. CASE x \notin rotated
        <4>1. x = rot /\ x.call = q
          BY <1>3, <1>r, <3>3
        <4>2. {p, q} \in overlapped
          <5>1. handlers[q].at \in Exchanging
            BY <1>3, <3>3
          <5>2. p \in InFlight /\ q \in InFlight
            BY <2>2, <3>1, <5>1 DEF InFlight, Exchanging
          <5> QED
            BY <3>1, <5>2 DEF Base, Paired
        <4> QED
          BY <4>1, <4>2
      <3> QED
        BY <3>2, <3>3
    <2> QED
      BY <2>1, <2>2
  <1>8. TokenRotatedOnce'
    <2>0. \A y \in rotated : (y.device = rot.device /\ y.token = rot.token /\ rot \in rotated' /\ rot \notin rotated) =>
              y.call = q \/ {q, y.call} \in overlapped \/ IssuedTwice(d, rot.token)
      BY <1>3, <1>r DEF TokenIInv, Exchanged, Exchanging
    <2> SUFFICES ASSUME NEW x \in rotated', NEW y \in rotated',
                        x.device = y.device, x.token = y.token, x # y
                 PROVE  {x.call, y.call} \in overlapped \/ IssuedTwice(x.device, x.token)'
      BY DEF TokenRotatedOnce, IssuedTwice
    <2>1. CASE x \in rotated /\ y \in rotated
      <3>1. {x.call, y.call} \in overlapped \/ IssuedTwice(x.device, x.token)
        BY <2>1 DEF TokenIInv, TokenRotatedOnce, IssuedTwice
      <3> QED
        BY <1>0, <1>4, <2>1, <3>1
    <2>2. ASSUME NEW a \in rotated, NEW b \in rotated', b \notin rotated, a.device = b.device, a.token = b.token
          PROVE  {a.call, b.call} \in overlapped \/ IssuedTwice(b.device, b.token)'
      <3>1. b = rot /\ b.call = q /\ b.device = d
        BY <1>3, <1>r, <2>2
      <3>2. a.call # q
        <4>1. a \in [call : Calls, device : Devices, token : Tokens] /\ b \in [call : Calls, device : Devices, token : Tokens]
          BY DEF Base, LoginTypeOK
        <4> QED
          BY <2>2, <3>1, <4>1
      <3>3. {q, a.call} = {a.call, q}
        OBVIOUS
      <3> QED
        BY <1>4, <2>0, <2>2, <3>1, <3>2, <3>3
    <2>3. CASE x \notin rotated /\ y \in rotated
      <3>1. {y.call, x.call} = {x.call, y.call}
        OBVIOUS
      <3> QED
        BY <2>2, <2>3, <3>1
    <2>4. CASE y \notin rotated /\ x \in rotated
      BY <2>2, <2>4
    <2> QED
      BY <1>3, <2>1, <2>3, <2>4
  <1> QED
    BY <1>6, <1>7, <1>8 DEF TokenIInv

LEMMA RefreshTokens ==
    ASSUME Base, TokenIInv, NEW q \in Calls, NEW d \in Devices, NEW token \in Tokens, Refresh(q, d, token), Base'
    PROVE  TokenIInv'
  <1> USE DEF TokenIInv
  <1>1. PICK h \in Handlers :
           /\ h.device = d /\ h.token = token
           /\ Advances(q, h, IF session[d] = token THEN "reread" ELSE "done")
           /\ handlers[q].at = "idle"
           /\ overlapped' = overlapped \cup {{q, p} : p \in InFlight}
           /\ UNCHANGED <<session, issued, rotated>>
    BY RefreshDoes DEF Base
  <1>2. /\ \A p \in Calls : p # q => handlers'[p] = handlers[p]
        /\ handlers'[q].at \in {"reread", "done"}
        /\ handlers'[q].at = "reread" =>
              session[d] = token /\ handlers'[q].device = d /\ handlers'[q].token = token
    BY <1>1 DEF Advances
  <1>3. IssuedLast'
    BY <1>1, <1>2 DEF IssuedLast
  <1>4. Exchanged'
    <2> SUFFICES ASSUME NEW x \in rotated
                 PROVE  /\ session[x.device] = x.token => IssuedTwice(x.device, x.token)
                        /\ \A p \in Calls :
                              ( /\ handlers'[p].at \in {"reread", "drop", "put"}
                                /\ handlers'[p].device = x.device /\ handlers'[p].token = x.token ) =>
                              p = x.call \/ {p, x.call} \in overlapped' \/ IssuedTwice(x.device, x.token)
      BY <1>1 DEF Exchanged, IssuedTwice
    <2> QED
      BY <1>1, <1>2 DEF Exchanged
  <1>5. TokenRotatedOnce'
    BY <1>1 DEF TokenRotatedOnce
  <1> QED
    BY <1>3, <1>4, <1>5

LEMMA TokensStep ==
    ASSUME Base, TokenIInv, NEW q \in Calls, Handle(q)
    PROVE  TokenIInv'
  <1>b. Base' /\ LoginTypeOK /\ LoginTypeOK' /\ Arguments /\ MadeOnce
    BY BaseStep DEF Base
  <1>s. session' \in [Devices -> Tokens \cup {Nil}]
    BY <1>b DEF LoginTypeOK, Tokens
  <1> DEFINE quiet == \A p \in Calls :
                /\ handlers'[p].at \in Exchanging =>
                      /\ handlers[p].at \in Exchanging
                      /\ handlers'[p].device = handlers[p].device
                      /\ handlers'[p].token = handlers[p].token
                /\ handlers'[p].at \notin {"done", "failed"} => handlers[p].at \notin {"done", "failed"}
  <1>1. CASE Ask(q)
    <2>1. PICK step \in {"done", "store"} : Advances(q, AtEase, step)
      BY <1>1, <1>b, AskDoes
    <2>2. quiet
      BY <1>1, <1>b, <2>1, AskDoes DEF Advances, Exchanging
    <2> QED
      BY <1>1, <1>b, <1>s, <2>2, AskDoes, TokensQuiet
  <1>2. ASSUME NEW code \in Calls, NEW d \in Devices, Verify(q, code, d) PROVE TokenIInv'
    <2>1. PICK h \in Handlers :
           /\ Advances(q, h, IF otp.code = code /\ time < otp.until THEN "delete" ELSE "done")
           /\ handlers[q].at = "idle"
           /\ overlapped' = overlapped \cup {{q, p} : p \in InFlight}
           /\ UNCHANGED <<session, issued, rotated>>
      BY <1>2, <1>b, VerifyDoes
    <2>2. quiet
      BY <2>1 DEF Advances, Exchanging
    <2> QED
      BY <1>b, <1>s, <2>1, <2>2, TokensQuiet
  <1>3. ASSUME NEW d \in Devices, NEW token \in {i.token : i \in issued[d]}, Refresh(q, d, token)
        PROVE  TokenIInv'
    <2>1. token \in Tokens
      BY <1>b DEF LoginTypeOK
    <2> QED
      BY <1>3, <1>b, <2>1, RefreshTokens
  <1>4. ASSUME NEW d \in Devices, NEW token, Logout(q, d, token) PROVE TokenIInv'
    <2>1. quiet
      BY <1>4, <1>b, LogoutDoes DEF Advances, Exchanging
    <2>2. \A e \in Devices : session'[e] \in {session[e], Nil}
      BY <1>4, <1>b, LogoutDoes DEF LoginTypeOK
    <2> QED
      BY <1>4, <1>b, <1>s, <2>1, <2>2, LogoutDoes, TokensQuiet
  <1>5. CASE StoreCode(q) \/ RecordAsk(q) \/ DeleteCode(q) \/ LookUpWorker(q) \/ Register(q) \/ HandlerFails(q)
    <2>1. PICK step \in Steps \ Exchanging :
             /\ Advances(q, handlers[q], step)
             /\ handlers[q].at \notin {"done", "failed"}
      BY <1>5, <1>b, StoreCodeDoes, RecordAskDoes, DeleteCodeDoes, LookUpWorkerDoes, RegisterDoes,
         HandlerFailsDoes DEF Steps, Exchanging
    <2>2. quiet
      BY <2>1 DEF Advances, Exchanging
    <2>3. UNCHANGED <<session, issued, rotated, overlapped>>
      BY <1>5, <1>b, StoreCodeDoes, RecordAskDoes, DeleteCodeDoes, LookUpWorkerDoes, RegisterDoes,
         HandlerFailsDoes DEF histories
    <2> QED
      BY <1>b, <1>s, <2>2, <2>3, TokensQuiet
  <1>6. CASE Reread(q) \/ DropToken(q)
    <2>1. PICK step \in {"drop", "put", "done"} :
             /\ Advances(q, handlers[q], step)
             /\ handlers[q].at \in Exchanging
      BY <1>6, <1>b, RereadDoes, DropTokenDoes DEF Exchanging
    <2>2. quiet
      BY <2>1 DEF Advances, Exchanging
    <2>3. UNCHANGED <<issued, rotated, overlapped>>
      BY <1>6, <1>b, RereadDoes, DropTokenDoes DEF histories
    <2>4. \A e \in Devices : session'[e] \in {session[e], Nil}
      BY <1>6, <1>b, RereadDoes, DropTokenDoes DEF LoginTypeOK
    <2> QED
      BY <1>b, <1>s, <2>2, <2>3, <2>4, TokensQuiet
  <1>7. CASE IssueTokens(q)
    <2>1. handlers[q].device \in Devices
      BY <1>7, <1>b, IssueTokensDoes DEF Arguments
    <2>2. PICK d \in Devices : d = handlers[q].device
      BY <2>1
    <2> QED
      BY <1>7, <1>b, <2>2, IssueTokensDoes, HandOutTokens
  <1>8. CASE PutToken(q)
    <2>1. handlers[q].device \in Devices
      BY <1>8, <1>b, PutTokenDoes DEF Arguments
    <2>2. PICK d \in Devices : d = handlers[q].device
      BY <2>1
    <2> QED
      BY <1>8, <1>b, <2>2, PutTokenDoes, HandOutTokens DEF Exchanging
  <1> QED
    BY <1>1, <1>2, <1>3, <1>4, <1>5, <1>6, <1>7, <1>8 DEF Handle

-----------------------------------------------------------------------------
(* A logout ends the session.                                                 *)

LEMMA LogoutQuiet ==
    ASSUME Base, LogoutIInv, ended' = ended, overlapped \subseteq overlapped',
           \A d \in Devices : session'[d] \in {session[d], Nil},
           \A p \in Calls : handlers'[p].at \in Exchanging =>
              /\ handlers[p].at \in Exchanging \/ ended[handlers'[p].device] = {}
                    \/ EndedOverlap(handlers'[p].device)
              /\ handlers[p].at \in Exchanging => handlers'[p].device = handlers[p].device
    PROVE  LogoutIInv'
  <1> USE DEF LogoutIInv, Exchanging
  <1>1. \A d \in Devices : EndedOverlap(d) => EndedOverlap(d)'
    BY DEF EndedOverlap
  <1>2. \A d : EndedOverlap(d) => EndedOverlap(d)'
    BY DEF EndedOverlap
  <1>3. ExchangeOverlaps'
    BY <1>2 DEF ExchangeOverlaps
  <1>4. LoggedOutStays'
    BY <1>1 DEF LoggedOutStays, EndedOverlap
  <1> QED
    BY <1>3, <1>4

LEMMA LogoutStep ==
    ASSUME Base, LogoutIInv, NEW q \in Calls, Handle(q)
    PROVE  LogoutIInv'
  <1>b. Base' /\ LoginTypeOK /\ LoginTypeOK' /\ Arguments /\ MadeOnce
    BY BaseStep DEF Base
  <1> DEFINE quiet == \A p \in Calls : handlers'[p].at \in Exchanging =>
              /\ handlers[p].at \in Exchanging \/ ended[handlers'[p].device] = {}
                    \/ EndedOverlap(handlers'[p].device)
              /\ handlers[p].at \in Exchanging => handlers'[p].device = handlers[p].device
  <1>1. CASE Ask(q)
    <2>1. PICK step \in {"done", "store"} : Advances(q, AtEase, step)
      BY <1>1, <1>b, AskDoes
    <2>2. quiet
      BY <1>1, <1>b, <2>1, AskDoes DEF Advances, Exchanging
    <2> QED
      BY <1>1, <1>b, <2>2, AskDoes, LogoutQuiet
  <1>2. ASSUME NEW code \in Calls, NEW d \in Devices, Verify(q, code, d) PROVE LogoutIInv'
    <2>1. PICK h \in Handlers :
           /\ Advances(q, h, IF otp.code = code /\ time < otp.until THEN "delete" ELSE "done")
           /\ handlers[q].at = "idle"
           /\ overlapped' = overlapped \cup {{q, p} : p \in InFlight}
           /\ UNCHANGED <<session, ended>>
      BY <1>2, <1>b, VerifyDoes
    <2>2. quiet
      BY <2>1 DEF Advances, Exchanging
    <2> QED
      BY <1>b, <2>1, <2>2, LogoutQuiet
  <1>3. ASSUME NEW d \in Devices, NEW token \in {i.token : i \in issued[d]}, Refresh(q, d, token)
        PROVE  LogoutIInv'
    <2>1. token \in Tokens /\ token # Nil
      BY <1>b, NilIsNil DEF LoginTypeOK, Tokens
    <2>2. PICK h \in Handlers :
           /\ h.device = d
           /\ Advances(q, h, IF session[d] = token THEN "reread" ELSE "done")
           /\ handlers[q].at = "idle"
           /\ overlapped' = overlapped \cup {{q, p} : p \in InFlight}
           /\ UNCHANGED <<session, ended>>
      BY <1>3, <1>b, <2>1, RefreshDoes
    <2>3. session[d] = token => ended[d] = {} \/ EndedOverlap(d)
      BY <2>1 DEF LogoutIInv, LoggedOutStays, EndedOverlap
    <2>4. quiet
      BY <2>2, <2>3 DEF Advances, Exchanging
    <2> QED
      BY <1>b, <2>2, <2>4, LogoutQuiet
  <1>4. CASE StoreCode(q) \/ RecordAsk(q) \/ DeleteCode(q) \/ LookUpWorker(q) \/ Register(q) \/ HandlerFails(q)
             \/ Reread(q) \/ DropToken(q)
    <2>1. PICK step \in Steps :
             /\ Advances(q, handlers[q], step)
             /\ step \in Exchanging => handlers[q].at \in Exchanging
      BY <1>4, <1>b, StoreCodeDoes, RecordAskDoes, DeleteCodeDoes, LookUpWorkerDoes, RegisterDoes,
         HandlerFailsDoes, RereadDoes, DropTokenDoes DEF Steps, Exchanging
    <2>2. quiet
      BY <2>1 DEF Advances, Exchanging
    <2>3. UNCHANGED <<ended, overlapped>>
      BY <1>4, <1>b, StoreCodeDoes, RecordAskDoes, DeleteCodeDoes, LookUpWorkerDoes, RegisterDoes,
         HandlerFailsDoes, RereadDoes, DropTokenDoes DEF histories
    <2>4. \A e \in Devices : session'[e] \in {session[e], Nil}
      BY <1>4, <1>b, StoreCodeDoes, RecordAskDoes, DeleteCodeDoes, LookUpWorkerDoes, RegisterDoes,
         HandlerFailsDoes, RereadDoes, DropTokenDoes DEF LoginTypeOK
    <2> QED
      BY <1>b, <2>2, <2>3, <2>4, LogoutQuiet
  <1>5. ASSUME NEW d \in Devices, NEW token, Logout(q, d, token) PROVE LogoutIInv'
    <2>1. /\ Advances(q, AtEase, "done") /\ handlers[q].at = "idle"
          /\ overlapped' = overlapped \cup {{q, p} : p \in InFlight}
          /\ session'[d] = Nil /\ \A e \in Devices : e # d => session'[e] = session[e]
          /\ ended'[d] = ended[d] \cup {q} /\ \A e \in Devices : e # d => ended'[e] = ended[e]
      BY <1>5, <1>b, LogoutDoes DEF LoginTypeOK
    <2>2. \A e \in Devices : e # d /\ EndedOverlap(e) => EndedOverlap(e)'
      BY <2>1 DEF EndedOverlap
    <2>3. ExchangeOverlaps'
      <3> SUFFICES ASSUME NEW p \in Calls, handlers'[p].at \in {"reread", "drop", "put"},
                          NEW e, e = handlers'[p].device, ended'[e] # {}
                   PROVE  EndedOverlap(e)'
        BY DEF ExchangeOverlaps
      <3>1. p # q /\ handlers'[p] = handlers[p] /\ handlers[p].device = e /\ e \in Devices
        BY <1>b, <2>1 DEF Advances, Arguments
      <3>2. CASE e = d
        <4>1. p \in InFlight /\ {q, p} \in overlapped' /\ q \in ended'[d]
          BY <2>1, <3>1 DEF InFlight
        <4> QED
          BY <3>1, <3>2, <4>1 DEF EndedOverlap
      <3>3. CASE e # d
        BY <2>1, <2>2, <3>1, <3>3 DEF LogoutIInv, ExchangeOverlaps
      <3> QED
        BY <3>2, <3>3
    <2>4. LoggedOutStays'
      BY <2>1, <2>2 DEF LogoutIInv, LoggedOutStays, EndedOverlap
    <2> QED
      BY <2>3, <2>4 DEF LogoutIInv
  <1>6. CASE IssueTokens(q)
    <2>1. PICK d \in Devices : d = handlers[q].device
      BY <1>6, <1>b, IssueTokensDoes DEF Arguments
    <2>2. /\ Advances(q, handlers[q], "done") /\ overlapped' = overlapped
          /\ ended'[d] = {} /\ \A e \in Devices : e # d => ended'[e] = ended[e] /\ session'[e] = session[e]
      BY <1>6, <1>b, <2>1, IssueTokensDoes DEF LoginTypeOK
    <2>3. \A e \in Devices : e # d /\ EndedOverlap(e) => EndedOverlap(e)'
      BY <2>2 DEF EndedOverlap
    <2>4. ExchangeOverlaps'
      BY <1>b, <2>2, <2>3 DEF LogoutIInv, ExchangeOverlaps, Advances, Arguments
    <2>5. LoggedOutStays'
      BY <2>2, <2>3 DEF LogoutIInv, LoggedOutStays, EndedOverlap
    <2> QED
      BY <2>4, <2>5 DEF LogoutIInv
  <1>7. CASE PutToken(q)
    <2>1. PICK d \in Devices : d = handlers[q].device
      BY <1>7, <1>b, PutTokenDoes DEF Arguments
    <2>2. /\ Advances(q, handlers[q], "done") /\ overlapped' = overlapped /\ ended' = ended
          /\ handlers[q].at = "put"
          /\ \A e \in Devices : e # d => session'[e] = session[e]
      BY <1>7, <1>b, <2>1, PutTokenDoes DEF LoginTypeOK
    <2>3. \A e : EndedOverlap(e) <=> EndedOverlap(e)'
      BY <2>2 DEF EndedOverlap
    <2>4. ExchangeOverlaps'
      BY <2>2, <2>3 DEF LogoutIInv, ExchangeOverlaps, Advances
    <2>5. ended[d] # {} => EndedOverlap(d)
      BY <2>1, <2>2 DEF LogoutIInv, ExchangeOverlaps
    <2>6. LoggedOutStays'
      BY <2>2, <2>3, <2>5 DEF LogoutIInv, LoggedOutStays, EndedOverlap
    <2> QED
      BY <2>4, <2>6 DEF LogoutIInv
  <1> QED
    BY <1>1, <1>2, <1>3, <1>4, <1>5, <1>6, <1>7 DEF Handle

-----------------------------------------------------------------------------
(* The sessions: the invariant and the theorems.                              *)

LEMMA SessionsInitial ==
    LoginInit => SessionIInv
  <1> SUFFICES ASSUME LoginInit PROVE SessionIInv
    OBVIOUS
  <1>1. LoginTypeOK
    <2>1. LimiterTypeOK
      BY LimiterInitial DEF LoginInit, LimiterIInv
    <2>2. 0 \in Tokens
      BY TimesBounded DEF Tokens
    <2>3. session \in [Devices -> Tokens \cup {Nil}]
      BY <2>2 DEF LoginInit
    <2>4. issued \in [Devices -> SUBSET [call : Calls \cup {Nil}, token : Tokens]]
      BY <2>3 DEF LoginInit
    <2> QED
      BY <2>1, <2>3, <2>4 DEF LoginInit, LoginTypeOK, NoCode, Codes, AtEase, Steps
  <1>2. \A q \in Calls : handlers[q].at = "idle"
    BY DEF LoginInit, AtEase
  <1>3. Arguments /\ Paired /\ MadeOnce
    BY <1>2 DEF LoginInit, Arguments, Paired, MadeOnce, At, InFlight
  <1>4. CodeIInv
    BY <1>1, <1>2, TimesBounded DEF LoginInit, CodeIInv, StoredLatest, UsersOverlap, CodeUsedOnce, At, NoCode
  <1>5. AskIInv
    <2>1. AsksBounded
      <3> SUFFICES ASSUME NEW t \in 0..MaxTime
                   PROVE  Cardinality({m.call : m \in {n \in made : n.at > t - AskWindow + Spread /\ n.at <= t}})
                            <= MaxAsks
        BY DEF AsksBounded
      <3> DEFINE batch == {m.call : m \in {n \in made : n.at > t - AskWindow + Spread /\ n.at <= t}}
      <3>1. batch = {}
        BY DEF LoginInit
      <3> HIDE DEF batch
      <3>2. Cardinality(batch) <= MaxAsks
        BY <3>1, FS_EmptySet, LivesPositive
      <3> QED
        BY <3>2 DEF batch
    <2> QED
      BY <1>2, <2>1, FS_EmptySet DEF LoginInit, AskIInv, Recorded, AskedFew, At
  <1>6. TokenIInv
    <2>1. \A d \in Devices : issued[d] = {[call |-> Nil, token |-> t] : t \in {session[d]} \ {Nil}}
      BY DEF LoginInit
    <2>2. \A q \in Calls, d \in Devices : \A i \in issued[d] : i.call # q
      BY <2>1, NilIsNil
    <2>3. \A d \in Devices : session[d] # Nil => \E i \in issued[d] : i.token = session[d]
      <3> SUFFICES ASSUME NEW d \in Devices, session[d] # Nil PROVE \E i \in issued[d] : i.token = session[d]
        OBVIOUS
      <3>1. [call |-> Nil, token |-> session[d]] \in issued[d]
        BY <2>1
      <3> QED
        BY <3>1
    <2> QED
      BY <2>2, <2>3 DEF LoginInit, TokenIInv, IssuedLast, Exchanged, TokenRotatedOnce
  <1>7. LogoutIInv
    BY <1>2 DEF LoginInit, LogoutIInv, ExchangeOverlaps, LoggedOutStays
  <1> QED
    BY <1>1, <1>3, <1>4, <1>5, <1>6, <1>7 DEF SessionIInv

LEMMA SessionsStep ==
    LimiterIInv /\ SessionIInv /\ [LoginNext]_loginVars => SessionIInv'
  <1> SUFFICES ASSUME LimiterIInv, SessionIInv, [LoginNext]_loginVars PROVE SessionIInv'
    OBVIOUS
  <1>b. Base
    BY DEF Base, SessionIInv
  <1>1. ASSUME [LimiterNext]_limiterVars, UNCHANGED sessionVars PROVE SessionIInv'
    <2>1. /\ Base' /\ time \in Nat /\ time' \in Nat /\ time' >= time
          /\ UNCHANGED <<otp, asked, registered, session, handlers, issued, consumed, rotated, ended,
                         overlapped, made, latest>>
      BY <1>1, <1>b, LimiterOutside
    <2>2. CodeIInv'
      BY <1>b, <2>1, CodesQuiet DEF SessionIInv, MadeCodes
    <2>3. AskIInv'
      <3>1. \A p \in Calls : handlers'[p].at = handlers[p].at
        BY <2>1
      <3> QED
        BY <1>b, <2>1, <3>1, AsksQuiet DEF SessionIInv
    <2>4. TokenIInv'
      BY <1>b, <2>1, TokensQuiet DEF SessionIInv, Base, LoginTypeOK
    <2>5. LogoutIInv'
      BY <1>b, <2>1, LogoutQuiet DEF SessionIInv
    <2> QED
      BY <2>1, <2>2, <2>3, <2>4, <2>5 DEF SessionIInv, Base
  <1>2. ASSUME NEW q \in Calls, Handle(q) PROVE SessionIInv'
    BY <1>2, <1>b, BaseStep, CodesStep, AsksStep, TokensStep, LogoutStep DEF SessionIInv, Base
  <1> QED
    BY <1>1, <1>2 DEF LoginNext, loginVars

\* The invariant of the handlers: what is stored, being asked for, being verified
\* and being rotated agrees with what was done (otp_service.py, token_service.py).
THEOREM SessionInvariant ==
    LoginSpec => []SessionIInv
  <1>1. LoginInit => SessionIInv
    BY SessionsInitial
  <1>2. LimiterIInv /\ SessionIInv /\ [LoginNext]_loginVars => SessionIInv'
    BY SessionsStep
  <1>3. LoginSpec => []LimiterIInv
    BY LimiterInside, LimiterInvariant, PTL
  <1> QED
    BY <1>1, <1>2, <1>3, PTL DEF LoginSpec

\* A code logs in once (verify_otp, delete_otp).
THEOREM CodeUsedOnceAlways ==
    LoginSpec => []CodeUsedOnce
  <1>1. SessionIInv => CodeUsedOnce
    BY DEF SessionIInv, CodeIInv
  <1> QED
    BY <1>1, SessionInvariant, PTL

\* A phone number gets no more codes in a window than the limit (check_rate_limit).
THEOREM AsksBoundedAlways ==
    LoginSpec => []AsksBounded
  <1>1. SessionIInv => AsksBounded
    BY DEF SessionIInv, AskIInv
  <1> QED
    BY <1>1, SessionInvariant, PTL

\* A refresh token is exchanged once (rotate_refresh_token).
THEOREM TokenRotatedOnceAlways ==
    LoginSpec => []TokenRotatedOnce
  <1>1. SessionIInv => TokenRotatedOnce
    BY DEF SessionIInv, TokenIInv
  <1> QED
    BY <1>1, SessionInvariant, PTL

\* A logout ends the session until the next login (logout).
THEOREM LoggedOutStaysAlways ==
    LoginSpec => []LoggedOutStays
  <1>1. SessionIInv => LoggedOutStays
    BY DEF SessionIInv, LogoutIInv
  <1> QED
    BY <1>1, SessionInvariant, PTL

=============================================================================
