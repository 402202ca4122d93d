------------------------- MODULE PrototypePolicies -------------------------
(* Workers and weekly policies of the TypeScript prototype (apps/api), held   *)
(* in the maps of one process.  Every request runs to its end before the      *)
(* next one starts, so that each is one action.                               *)
EXTENDS PrototypeRules, Sequences

CONSTANTS Workers,     \* workers who may register
          Profiles,    \* what a worker may say of itself: zone, consistency, hours,
                       \* verified, age, trust
          NewProfiles, \* those a worker may register with
          Plans,       \* plans on sale, of "basic", "standard" and "pro"
          Week,        \* length of a policy
          Waiting,     \* Waiting[s]: waiting period of a policy sold in segment s
          MaxTime,     \* bound on the clock
          MaxPolicies, \* bound on the number of policies
          MaxChanges,  \* bound on the changes of profiles and of settings
          None         \* no profile

ASSUME PolicyConstants ==
    /\ Plans \subseteq {"basic", "standard", "pro"}
    /\ Week \in Nat \ {0}
    /\ Waiting \in [Segments -> Nat]
    /\ {MaxTime, MaxPolicies, MaxChanges} \subseteq Nat
    /\ NewProfiles \subseteq Profiles /\ None \notin Profiles

VARIABLES now,      \* the clock
          profiles, \* profiles[w]: the profile of worker w
          policies, \* the policies in the order of their creation
          changes   \* changes of profiles and settings so far

policyVars == <<now, profiles, policies, changes>>

PolicyStatuses == {"active", "lapsed", "cancelled"}
\* The weekly covers lie between the smallest and the largest.
Caps == {n \in Nat : n >= 1200 /\ n <= 4500}

Policies == [worker: Workers, zone: {p.zone : p \in Profiles}, cap: Caps,
             waiting: Nat, start: Nat, end: Nat, renewalOf: 0..MaxPolicies, status: PolicyStatuses]

PoliciesTypeOK ==
    /\ now \in Nat
    /\ profiles \in [Workers -> Profiles \cup {None}]
    /\ policies \in Seq(Policies)
    /\ changes \in 0..MaxChanges

Registered(w) == profiles[w] # None

\* Faulty variant: a policy ends before its last instant.
CoversBeforeEnd(policy, at) == policy.start <= at /\ at < policy.end

Covers(policy, at) == policy.start <= at /\ at <= policy.end

\* The policies of w that findActivePolicy may return; the oldest is returned.
CoveringPolicies(w) ==
    {i \in DOMAIN policies : /\ policies[i].worker = w
                             /\ policies[i].status = "active"
                             /\ Covers(policies[i], now)}

Lapsed(policy) == IF policy.status = "active" /\ policy.end < now
                  THEN [policy EXCEPT !.status = "lapsed"] ELSE policy

\* What lapsePolicies makes of the policies of the workers ws.
LapsedOf(ws) == [i \in DOMAIN policies |-> IF policies[i].worker \in ws THEN Lapsed(policies[i])
                                           ELSE policies[i]]

Register(w, p) ==
    /\ ~Registered(w)
    /\ profiles' = [profiles EXCEPT ![w] = p]
    /\ UNCHANGED <<now, policies, changes>>

\* Policies sold before keep the zone, the cover and the waiting period they had.
UpdateProfile(w, p) ==
    /\ Registered(w) /\ profiles[w] # p
    /\ changes < MaxChanges
    /\ changes' = changes + 1
    /\ profiles' = [profiles EXCEPT ![w] = p]
    /\ UNCHANGED <<now, policies>>

\* Bought now for a week, unless a policy covers the worker now.
Purchase(w, plan) ==
    /\ Registered(w)
    /\ CoveringPolicies(w) = {}
    /\ Len(policies) < MaxPolicies
    /\ policies' = Append(policies,
          [worker |-> w, zone |-> profiles[w].zone,
           cap |-> CoverageCap(Segment(profiles[w]), plan),
           waiting |-> Waiting[Segment(profiles[w])],
           start |-> now, end |-> now + Week, renewalOf |-> 0, status |-> "active"])
    /\ UNCHANGED <<now, profiles, changes>>

\* A renewal starts where the renewed policy ends, also when that one has
\* lapsed, was cancelled or was renewed before; only another policy that
\* covers the worker now prevents it.
Renew(i, plan) ==
    LET old == policies[i] IN
    /\ Len(policies) < MaxPolicies
    /\ LET current == LapsedOf({old.worker})
           covering == CoveringPolicies(old.worker)
           first == CHOOSE j \in covering : \A k \in covering : j <= k
       IN  IF covering # {} /\ first # i
           THEN policies' = current
           ELSE policies' = Append(current,
                   [old EXCEPT !.cap = CoverageCap(Segment(profiles[old.worker]), plan),
                               !.start = old.end, !.end = old.end + Week,
                               !.renewalOf = i, !.status = "active"])
    /\ UNCHANGED <<now, profiles, changes>>

Cancel(i) ==
    /\ policies' = [policies EXCEPT ![i].status = "cancelled"]
    /\ UNCHANGED <<now, profiles, changes>>

\* Reading one policy marks it lapsed when it has ended.
ReadPolicy(i) ==
    /\ policies' = [policies EXCEPT ![i] = Lapsed(@)]
    /\ UNCHANGED <<now, profiles, changes>>

\* Listing the policies of a worker, or of all of them, lapses those that have
\* ended; so does POST /policies/lapse/run.
ListPolicies(ws) ==
    /\ policies' = LapsedOf(ws)
    /\ UNCHANGED <<now, profiles, changes>>

Tick ==
    /\ now < MaxTime
    /\ now' = now + 1
    /\ UNCHANGED <<profiles, policies, changes>>

PoliciesInit ==
    /\ now = 0
    /\ profiles = [w \in Workers |-> None]
    /\ policies = <<>>
    /\ changes = 0

PoliciesNext ==
    \/ \E w \in Workers, p \in NewProfiles : Register(w, p)
    \/ \E w \in Workers, p \in Profiles : UpdateProfile(w, p)
    \/ \E w \in Workers, plan \in Plans : Purchase(w, plan)
    \/ \E i \in DOMAIN policies : Cancel(i) \/ ReadPolicy(i) \/ \E plan \in Plans : Renew(i, plan)
    \/ \E w \in Workers : ListPolicies({w})
    \/ ListPolicies(Workers)
    \/ Tick
-----------------------------------------------------------------------------
\* A worker who buys again after a policy ended or was cancelled never holds two
\* bought policies for the same moment; only renewals, which may be asked for
\* twice, can overlap.
PurchasesDisjoint ==
    \A i, j \in DOMAIN policies :
        (/\ i < j
         /\ policies[i].worker = policies[j].worker
         /\ policies[i].renewalOf = 0 /\ policies[j].renewalOf = 0
         /\ policies[i].status # "cancelled")
        => policies[i].end < policies[j].start
=============================================================================
