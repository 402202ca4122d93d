-------------------------- MODULE PrototypeProofs --------------------------
(* What the policies, claims, payouts and ledger of the prototype keep to,   *)
(* for any workers, profiles, plans, lengths, waiting periods, incidents,    *)
(* amounts, thresholds, windows and answers of the payout adapter.           *)
EXTENDS PrototypeClaims, FiniteSetTheorems, TLAPS

\* A policy that was bought (and not renewed) began when it was bought; one
\* that was marked lapsed has ended.
Began == \A i \in DOMAIN policies : policies[i].renewalOf = 0 => policies[i].start <= now
Ended == \A i \in DOMAIN policies : policies[i].status = "lapsed" => policies[i].end < now

\* PurchasesDisjoint is not inductive: that a purchase finds no policy in the
\* way says nothing of one that begins later or was marked lapsed too early.
CoverInv == PoliciesTypeOK /\ Began /\ Ended /\ PurchasesDisjoint

LEMMA SegmentKnown == \A p : Segment(p) \in Segments
  BY DEF Segment, Segments

LEMMA CapRange ==
  ASSUME NEW base \in {1200, 1800, 2500}, NEW factor \in {10, 14, 18}
  PROVE  (base * factor) \div 10 \in Caps
  <1>1. base * factor \in {12000, 16800, 21600, 18000, 25200, 32400, 25000, 35000, 45000}
    OBVIOUS
  <1>2. \A n \in {12000, 16800, 21600, 18000, 25200, 32400, 25000, 35000, 45000} : n \div 10 \in Nat /\ n \div 10 >= 1200 /\ n \div 10 <= 4500
    OBVIOUS
  <1> QED
    BY <1>1, <1>2 DEF Caps

\* The cover of every plan lies between the smallest and the largest.
LEMMA CapBounded ==
  ASSUME NEW s \in Segments, NEW plan \in Plans
  PROVE  CoverageCap(s, plan) \in Caps
  <1> DEFINE base == [low |-> 2500, medium |-> 1800, high |-> 1200][s]
             factor == [basic |-> 10, standard |-> 14, pro |-> 18][plan]
  <1>1. base \in {1200, 1800, 2500}
    BY DEF Segments
  <1>2. factor \in {10, 14, 18}
    BY PolicyConstants
  <1>3. CoverageCap(s, plan) = (base * factor) \div 10
    BY DEF CoverageCap
  <1> HIDE DEF base, factor
  <1> QED
    BY <1>1, <1>2, <1>3, CapRange

LEMMA CoverInit == PoliciesInit => CoverInv
  <1> SUFFICES ASSUME PoliciesInit PROVE CoverInv
    OBVIOUS
  <1>1. PoliciesTypeOK
    BY PolicyConstants DEF PoliciesInit, PoliciesTypeOK
  <1>2. DOMAIN policies = {}
    BY DEF PoliciesInit
  <1>3. QED
    BY <1>1, <1>2 DEF CoverInv, Began, Ended, PurchasesDisjoint

\* Marking a policy as lapsed.
LEMMA LapsedFields ==
  ASSUME NEW p \in Policies, now \in Nat
  PROVE  /\ Lapsed(p) \in Policies
         /\ Lapsed(p).worker = p.worker /\ Lapsed(p).start = p.start /\ Lapsed(p).end = p.end
         /\ Lapsed(p).renewalOf = p.renewalOf
         /\ Lapsed(p).status \in {p.status, "lapsed"}
         /\ Lapsed(p).status # p.status => p.status = "active" /\ p.end < now
  BY SMTT(30) DEF Lapsed, Policies, PolicyStatuses

\* Whatever changes only the status of some policies, to cancelled or, for one
\* that has ended, to lapsed, keeps the invariant.
LEMMA StatusStep ==
  ASSUME CoverInv, now' = now, profiles' = profiles, changes' = changes,
         policies' \in Seq(Policies), DOMAIN policies' = DOMAIN policies,
         \A i \in DOMAIN policies :
            /\ policies'[i].worker = policies[i].worker
            /\ policies'[i].start = policies[i].start
            /\ policies'[i].end = policies[i].end
            /\ policies'[i].renewalOf = policies[i].renewalOf
            /\ \/ policies'[i].status = policies[i].status
               \/ policies'[i].status = "cancelled"
               \/ policies'[i].status = "lapsed" /\ policies[i].status = "active"
                  /\ policies[i].end < now
  PROVE  CoverInv'
  BY DEF CoverInv, PoliciesTypeOK, Began, Ended, PurchasesDisjoint

LEMMA LapsedStep ==
  ASSUME CoverInv, NEW ws
  PROVE  /\ LapsedOf(ws) \in Seq(Policies)
         /\ DOMAIN LapsedOf(ws) = DOMAIN policies /\ Len(LapsedOf(ws)) = Len(policies)
         /\ \A i \in DOMAIN policies :
              /\ LapsedOf(ws)[i].worker = policies[i].worker
              /\ LapsedOf(ws)[i].start = policies[i].start
              /\ LapsedOf(ws)[i].end = policies[i].end
              /\ LapsedOf(ws)[i].renewalOf = policies[i].renewalOf
              /\ \/ LapsedOf(ws)[i].status = policies[i].status
                 \/ LapsedOf(ws)[i].status = "lapsed" /\ policies[i].status = "active"
                    /\ policies[i].end < now
  <1>1. policies \in Seq(Policies) /\ now \in Nat
    BY DEF CoverInv, PoliciesTypeOK
  <1>2. \A i \in DOMAIN policies : policies[i] \in Policies
    BY <1>1
  <1>3. \A i \in DOMAIN policies : LapsedOf(ws)[i] \in {policies[i], Lapsed(policies[i])}
    BY DEF LapsedOf
  <1>4. \A i \in DOMAIN policies : LapsedOf(ws)[i] \in Policies
    BY <1>1, <1>2, <1>3, LapsedFields
  <1>5. DOMAIN policies = 1..Len(policies) /\ Len(policies) \in Nat
    BY <1>1
  <1>6. DOMAIN LapsedOf(ws) = DOMAIN policies
    BY DEF LapsedOf
  <1>7. LapsedOf(ws) = [i \in DOMAIN policies |-> LapsedOf(ws)[i]]
    BY DEF LapsedOf
  <1>8. LapsedOf(ws) \in [1..Len(policies) -> Policies]
    BY <1>4, <1>5, <1>7
  <1>9. LapsedOf(ws) \in Seq(Policies) /\ Len(LapsedOf(ws)) = Len(policies)
    BY <1>5, <1>8
  <1>10. QED
    BY <1>1, <1>2, <1>3, <1>6, <1>9, LapsedFields

\* A policy that is added keeps the invariant if, as a bought one, it begins now
\* and no other bought policy of its worker is in the way.
LEMMA AppendStep ==
  ASSUME CoverInv, NEW p \in Policies, p.status = "active", now' = now,
         policies' = Append(policies, p),
         profiles' = profiles, changes' = changes,
         p.renewalOf = 0 =>
            /\ p.start = now
            /\ \A i \in DOMAIN policies :
                  policies[i].worker = p.worker /\ policies[i].renewalOf = 0
                  /\ policies[i].status # "cancelled" => policies[i].end < now
  PROVE  CoverInv'
  <1>1. policies \in Seq(Policies) /\ now \in Nat /\ p.start \in Nat
    BY DEF CoverInv, PoliciesTypeOK, Policies
  <1>2. policies' \in Seq(Policies) /\ Len(policies') = Len(policies) + 1
    BY <1>1
  <1>3. \A i \in DOMAIN policies : policies'[i] = policies[i]
    BY <1>1
  <1>4. policies'[Len(policies) + 1] = p
    BY <1>1
  <1>5. \A i \in DOMAIN policies' : i \in DOMAIN policies \/ i = Len(policies) + 1
    BY <1>1, <1>2
  <1>6. PoliciesTypeOK'
    BY <1>2 DEF CoverInv, PoliciesTypeOK
  <1>7. Began'
    BY <1>1, <1>3, <1>4, <1>5 DEF CoverInv, Began
  <1>8. Ended'
    BY <1>3, <1>4, <1>5 DEF CoverInv, Ended
  <1>9. PurchasesDisjoint'
    <2> SUFFICES ASSUME NEW i \in DOMAIN policies', NEW j \in DOMAIN policies', i < j,
                        policies'[i].worker = policies'[j].worker,
                        policies'[i].renewalOf = 0, policies'[j].renewalOf = 0,
                        policies'[i].status # "cancelled"
                 PROVE  policies'[i].end < policies'[j].start
      BY DEF PurchasesDisjoint
    <2>1. i \in DOMAIN policies
      BY <1>1, <1>2, <1>5
    <2>2. CASE j \in DOMAIN policies
      BY <1>3, <2>1, <2>2 DEF CoverInv, PurchasesDisjoint
    <2>3. CASE j = Len(policies) + 1
      BY <1>3, <1>4, <2>1, <2>3
    <2>4. QED
      BY <1>5, <2>2, <2>3
  <1>10. QED
    BY <1>6, <1>7, <1>8, <1>9 DEF CoverInv

LEMMA PurchaseStep ==
  ASSUME CoverInv, NEW w \in Workers, NEW plan \in Plans, Purchase(w, plan)
  PROVE  CoverInv'
  <1> DEFINE cap == CoverageCap(Segment(profiles[w]), plan)
             p == [worker |-> w, zone |-> profiles[w].zone,
                   cap |-> cap, waiting |-> Waiting[Segment(profiles[w])],
                   start |-> now, end |-> now + Week, renewalOf |-> 0, status |-> "active"]
  <1>1. policies \in Seq(Policies) /\ now \in Nat /\ profiles[w] \in Profiles
    BY DEF CoverInv, PoliciesTypeOK, Purchase, Registered
  <1>2. Segment(profiles[w]) \in Segments
    BY SegmentKnown
  <1>3. cap \in Caps /\ Waiting[Segment(profiles[w])] \in Nat
    BY <1>2, CapBounded, PolicyConstants
  <1>4. now + Week \in Nat
    BY <1>1, PolicyConstants
  <1> HIDE DEF cap
  <1>5. p \in Policies
    BY <1>1, <1>3, <1>4, PolicyConstants DEF Policies, PolicyStatuses, Caps
  <1>6. \A i \in DOMAIN policies :
           policies[i].worker = w /\ policies[i].renewalOf = 0 /\ policies[i].status # "cancelled"
           => policies[i].end < now
    <2> SUFFICES ASSUME NEW i \in DOMAIN policies, policies[i].worker = w,
                        policies[i].renewalOf = 0, policies[i].status # "cancelled"
                 PROVE  policies[i].end < now
      OBVIOUS
    <2>1. policies[i] \in Policies
      BY <1>1
    <2>2. CASE policies[i].status = "lapsed"
      BY <2>2 DEF CoverInv, Ended
    <2>3. CASE policies[i].status = "active"
      <3>1. ~Covers(policies[i], now)
        BY <2>3 DEF Purchase, CoveringPolicies
      <3>2. policies[i].start <= now
        BY DEF CoverInv, Began
      <3>3. QED
        BY <1>1, <2>1, <3>1, <3>2 DEF Covers, Policies
    <2>4. QED
      BY <2>1, <2>2, <2>3 DEF Policies, PolicyStatuses
  <1>7. policies' = Append(policies, p) /\ now' = now /\ profiles' = profiles /\ changes' = changes
    BY DEF Purchase, cap
  <1>8. p.worker = w /\ p.start = now /\ p.status = "active"
    OBVIOUS
  <1> HIDE DEF p
  <1>9. QED
    BY <1>5, <1>6, <1>7, <1>8, AppendStep

\* Policy p renewed for a week, as the i-th policy's successor.
Renewed(p, cap, i) ==
  [p EXCEPT !.cap = cap, !.start = p.end, !.end = p.end + Week, !.renewalOf = i, !.status = "active"]

LEMMA RenewedFields ==
  ASSUME NEW p \in Policies, NEW cap \in Caps, NEW i \in 1..MaxPolicies
  PROVE  /\ Renewed(p, cap, i) \in Policies
         /\ Renewed(p, cap, i).renewalOf = i
         /\ Renewed(p, cap, i).status = "active"
  <1> DEFINE start == p.end
             end == p.end + Week
             a == [p EXCEPT !.cap = cap]
             b == [a EXCEPT !.start = start]
             c == [b EXCEPT !.end = end]
             d == [c EXCEPT !.renewalOf = i]
             e == [d EXCEPT !.status = "active"]
  <1>1. start \in Nat /\ end \in Nat
    <2>1. p.end \in Nat
      BY DEF Policies
    <2>2. QED
      BY <2>1, PolicyConstants
  <1>2. i \in 0..MaxPolicies
    BY PolicyConstants
  <1>3. Renewed(p, cap, i) = e
    BY DEF Renewed
  <1> HIDE DEF start, end
  <1>4. a \in Policies
    BY DEF Policies, Caps
  <1> HIDE DEF a
  <1>5. b \in Policies
    BY <1>1, <1>4, SMTT(30) DEF Policies
  <1> HIDE DEF b
  <1>6. c \in Policies
    BY <1>1, <1>5, SMTT(30) DEF Policies
  <1> HIDE DEF c
  <1>7. d \in Policies /\ d.renewalOf = i
    BY <1>2, <1>6, SMTT(30) DEF Policies
  <1> HIDE DEF d
  <1>8. e \in Policies /\ e.renewalOf = i /\ e.status = "active"
    BY <1>7, SMTT(30) DEF Policies, PolicyStatuses
  <1>9. QED
    BY <1>3, <1>8

\* The policies that were there are lapsed where they have ended, and a renewal is added.
LEMMA RenewStep ==
  ASSUME CoverInv, NEW i \in DOMAIN policies, NEW plan \in Plans, Renew(i, plan)
  PROVE  CoverInv'
  <1> DEFINE current == LapsedOf({policies[i].worker})
             cap == CoverageCap(Segment(profiles[policies[i].worker]), plan)
             new == Renewed(policies[i], cap, i)
  <1>1. policies \in Seq(Policies) /\ policies[i] \in Policies /\ now \in Nat
    BY DEF CoverInv, PoliciesTypeOK
  <1>2. cap \in Caps
    BY SegmentKnown, CapBounded
  <1>3. i \in 1..Len(policies) /\ Len(policies) \in Nat /\ Len(policies) < MaxPolicies
    <2>1. Len(policies) < MaxPolicies
      BY DEF Renew
    <2>2. QED
      BY <1>1, <2>1
  <1>4. i \in 0..MaxPolicies /\ i # 0
    BY <1>3, PolicyConstants
  <1> HIDE DEF cap
  <1>5. new \in Policies /\ new.renewalOf = i /\ new.status = "active"
    <2>1. i \in 1..MaxPolicies
      BY <1>3, PolicyConstants
    <2>2. QED
      BY <1>1, <1>2, <2>1, RenewedFields
  <1>6. now' = now /\ profiles' = profiles /\ changes' = changes
    BY DEF Renew
  <1>7. policies' = current \/ policies' = Append(current, new)
    BY DEF Renew, Renewed, cap
  <1> HIDE DEF current, new
  <1>8. CASE policies' = current
    <2>1. policies' = LapsedOf({policies[i].worker})
      BY <1>8 DEF current
    <2>2. QED
      BY <1>6, <2>1, LapsedStep, StatusStep
  <1>9. CASE policies' = Append(current, new)
    <2>1. /\ current \in Seq(Policies) /\ DOMAIN current = DOMAIN policies
          /\ Len(current) = Len(policies)
          /\ \A k \in DOMAIN policies :
               /\ current[k].worker = policies[k].worker
               /\ current[k].start = policies[k].start
               /\ current[k].end = policies[k].end
               /\ current[k].renewalOf = policies[k].renewalOf
               /\ \/ current[k].status = policies[k].status
                  \/ current[k].status = "lapsed" /\ policies[k].status = "active"
                     /\ policies[k].end < now
      BY LapsedStep DEF current
    <2>2. policies' \in Seq(Policies) /\ Len(policies') = Len(policies) + 1
      BY <1>5, <1>9, <2>1
    <2>3. \A k \in DOMAIN policies : policies'[k] = current[k]
      BY <1>1, <1>9, <2>1
    <2>4. policies'[Len(policies) + 1] = new
      BY <1>1, <1>9, <2>1
    <2>5. \A k \in DOMAIN policies' : k \in DOMAIN policies \/ k = Len(policies) + 1
      BY <1>1, <2>2
    <2>6. PoliciesTypeOK'
      BY <1>6, <2>2 DEF CoverInv, PoliciesTypeOK
    <2>7. Began'
      BY <1>4, <1>5, <1>6, <2>1, <2>3, <2>4, <2>5 DEF CoverInv, Began
    <2>8. Ended'
      BY <1>5, <1>6, <2>1, <2>3, <2>4, <2>5 DEF CoverInv, Ended
    <2>9. PurchasesDisjoint'
      BY <1>4, <1>5, <2>1, <2>3, <2>4, <2>5, SMTT(30) DEF CoverInv, PurchasesDisjoint
    <2>10. QED
      BY <2>6, <2>7, <2>8, <2>9 DEF CoverInv
  <1>10. QED
    BY <1>7, <1>8, <1>9

LEMMA CoverStep == CoverInv /\ [PoliciesNext]_policyVars => CoverInv'
  <1> SUFFICES ASSUME CoverInv, [PoliciesNext]_policyVars PROVE CoverInv'
    OBVIOUS
  <1>1. policies \in Seq(Policies) /\ now \in Nat
    BY DEF CoverInv, PoliciesTypeOK
  <1>2. \A i \in DOMAIN policies : policies[i] \in Policies
    BY <1>1
  <1>3. ASSUME NEW w \in Workers, NEW p \in NewProfiles, Register(w, p) PROVE CoverInv'
    BY <1>3, PolicyConstants DEF Register, CoverInv, PoliciesTypeOK, Began, Ended, PurchasesDisjoint
  <1>4. ASSUME NEW w \in Workers, NEW p \in Profiles, UpdateProfile(w, p) PROVE CoverInv'
    BY <1>4, PolicyConstants DEF UpdateProfile, CoverInv, PoliciesTypeOK, Began, Ended, PurchasesDisjoint
  <1>5. ASSUME NEW w \in Workers, NEW plan \in Plans, Purchase(w, plan) PROVE CoverInv'
    BY <1>5, PurchaseStep
  <1>6. ASSUME NEW i \in DOMAIN policies, NEW plan \in Plans, Renew(i, plan) PROVE CoverInv'
    BY <1>6, RenewStep
  <1>7. ASSUME NEW i \in DOMAIN policies, Cancel(i) PROVE CoverInv'
    <2> DEFINE dead == [policies[i] EXCEPT !.status = "cancelled"]
    <2>1. dead \in Policies /\ dead.worker = policies[i].worker /\ dead.start = policies[i].start
          /\ dead.end = policies[i].end /\ dead.renewalOf = policies[i].renewalOf
          /\ dead.status = "cancelled"
      BY <1>2 DEF Policies, PolicyStatuses
    <2>2. policies' = [policies EXCEPT ![i] = dead]
      BY <1>7 DEF Cancel
    <2> HIDE DEF dead
    <2>3. policies' \in Seq(Policies) /\ DOMAIN policies' = DOMAIN policies
      BY <1>1, <2>1, <2>2
    <2>4. now' = now /\ profiles' = profiles /\ changes' = changes
      BY <1>7 DEF Cancel
    <2>5. QED
      BY <1>1, <2>1, <2>2, <2>3, <2>4, StatusStep
  <1>8. ASSUME NEW i \in DOMAIN policies, ReadPolicy(i) PROVE CoverInv'
    <2>1. policies' = [policies EXCEPT ![i] = Lapsed(policies[i])]
      BY <1>8 DEF ReadPolicy
    <2>2. Lapsed(policies[i]) \in Policies
      BY <1>1, <1>2, LapsedFields
    <2>3. policies' \in Seq(Policies) /\ DOMAIN policies' = DOMAIN policies
      BY <1>1, <2>1, <2>2
    <2>4. now' = now /\ profiles' = profiles /\ changes' = changes
      BY <1>8 DEF ReadPolicy
    <2>5. QED
      BY <1>1, <1>2, <2>1, <2>3, <2>4, LapsedFields, StatusStep
  <1>9. ASSUME NEW ws, ListPolicies(ws) PROVE CoverInv'
    <2>1. policies' = LapsedOf(ws) /\ now' = now /\ profiles' = profiles /\ changes' = changes
      BY <1>9 DEF ListPolicies
    <2>2. QED
      BY <2>1, LapsedStep, StatusStep
  <1>10. CASE Tick
    <2>1. now' = now + 1 /\ policies' = policies /\ profiles' = profiles /\ changes' = changes
      BY <1>10 DEF Tick
    <2>2. PoliciesTypeOK' /\ PurchasesDisjoint'
      BY <1>1, <2>1 DEF CoverInv, PoliciesTypeOK, PurchasesDisjoint
    <2>3. \A i \in DOMAIN policies : policies[i].start \in Nat /\ policies[i].end \in Nat
      BY <1>2 DEF Policies
    <2>4. Began' /\ Ended'
      BY <1>1, <2>1, <2>3 DEF CoverInv, Began, Ended
    <2>5. QED
      BY <2>2, <2>4 DEF CoverInv
  <1>11. CASE UNCHANGED policyVars
    BY <1>11 DEF policyVars, CoverInv, PoliciesTypeOK, Began, Ended, PurchasesDisjoint
  <1>12. QED
    BY <1>3, <1>4, <1>5, <1>6, <1>7, <1>8, <1>9, <1>10, <1>11 DEF PoliciesNext

\* What the claims do leaves the policies alone, but for the count of changes.
LEMMA ClaimsCoverStep == CoverInv /\ [Next]_vars => CoverInv'
  <1> SUFFICES ASSUME CoverInv, [Next]_vars PROVE CoverInv'
    OBVIOUS
  <1>1. CASE UNCHANGED policyVars
    BY <1>1, CoverStep
  <1>2. CASE PoliciesNext
    BY <1>2, CoverStep
  <1>3. ASSUME NEW t \in Thresholds, SetThresholds(t) PROVE CoverInv'
    BY <1>3, PolicyConstants
    DEF SetThresholds, CoverInv, PoliciesTypeOK, Began, Ended, PurchasesDisjoint
  <1>4. ASSUME NEW i \in DOMAIN policies, NEW e \in Incidents, NEW a \in Amounts, NEW o \in Answers,
               Initiate(i, e, a, o)
        PROVE  UNCHANGED policyVars
    BY <1>4 DEF Initiate
  <1>5. ASSUME NEW e \in Incidents, NEW o \in Answers, Ingest(e, o) PROVE UNCHANGED policyVars
    BY <1>5 DEF Ingest
  <1>6. ASSUME NEW c \in DOMAIN claims, Reject(c) \/ \E o \in Answers : Approve(c, o)
        PROVE  UNCHANGED policyVars
    BY <1>6, Zenon DEF Reject, Approve
  <1>7. ASSUME NEW p \in DOMAIN payouts, NEW o, RetryPayout(p, o) \/ ResolvePayout(p, o)
        PROVE  UNCHANGED policyVars
    BY <1>7, Zenon DEF RetryPayout, ResolvePayout, Settle
  <1>8. ASSUME AutoInitiate \/ Answer PROVE UNCHANGED policyVars
    <2>1. CASE AutoInitiate
      BY <2>1 DEF AutoInitiate
    <2>2. CASE Answer
      BY <2>2 DEF Answer
    <2>3. QED
      BY <1>8, <2>1, <2>2
  <1>9. UNCHANGED vars => UNCHANGED policyVars
    BY DEF vars
  <1>10. CASE Request
    BY <1>1, <1>2, <1>3, <1>4, <1>5, <1>6, <1>7, <1>10 DEF Request
  <1>11. QED
    BY <1>1, <1>8, <1>9, <1>10 DEF Next

\* Type correctness of the policies of the prototype.
THEOREM PrototypePoliciesTyped == Spec => []PoliciesTypeOK
  <1>1. Init => CoverInv
    BY CoverInit DEF Init
  <1>2. CoverInv => PoliciesTypeOK
    BY DEF CoverInv
  <1>3. QED
    BY <1>1, <1>2, ClaimsCoverStep, PTL DEF Spec

\* Policies that a worker buys, whatever is renewed, cancelled, lapsed, read and
\* claimed in between, never cover one moment twice.
THEOREM PrototypePurchasesDisjoint == Spec => []PurchasesDisjoint
  <1>1. Init => CoverInv
    BY CoverInit DEF Init
  <1>2. CoverInv => PurchasesDisjoint
    BY DEF CoverInv
  <1>3. QED
    BY <1>1, <1>2, ClaimsCoverStep, PTL DEF Spec

-----------------------------------------------------------------------------
\* Claims, payouts and the ledger.

ClaimStatuses == {"in_review", "approved", "rejected", "paid"}
Verdicts == {"none", "approve", "reject"}
ClaimType == [worker : Workers, policy : Nat, incident : Incidents, type : Types, at : Nat,
              lane : Lanes, status : ClaimStatuses, verdict : Verdicts]
PayoutType == [claim : Nat, key : Workers \X Nat \X Incidents, status : Outcomes]
EntryType == [payout : Nat, status : {"pending", "settled", "failed"}]

\* Types; and what was approved at once and never looked at is approved or paid.
ClaimsTyped ==
    /\ claims \in Seq(ClaimType) /\ payouts \in Seq(PayoutType) /\ ledger \in Seq(EntryType)
    /\ request \in [incident : Incidents \cup {"none"}, next : Nat, outcome : Outcomes]
    /\ \A c \in DOMAIN claims : /\ claims[c].at <= now
                                /\ claims[c].lane = "approved" /\ claims[c].verdict = "none"
                                      => claims[c].status \in {"approved", "paid"}

\* Claims of w that no reviewer has seen, within a burst's time up to t.
Unseen(w, t) ==
    {d \in Of(w) : /\ claims[d].lane = "approved" /\ claims[d].verdict = "none"
                   /\ claims[d].at \in (t - BurstWindow)..t}
BurstInv == \A w \in Workers, t \in Int : Cardinality(Unseen(w, t)) < BurstLimit

\* One ledger entry per payout, in the same order and with its outcome.
BooksInv ==
    /\ Len(ledger) = Len(payouts)
    /\ \A p \in DOMAIN payouts : /\ ledger[p].payout = p
                                 /\ ledger[p].status = LedgerStatus(payouts[p].status)

\* No two claims have one key: a manual one is refused, and an ingested trigger
\* has a new id and meets a policy once.
KeysInv ==
    /\ \A c, d \in DOMAIN claims : Key(claims[c]) = Key(claims[d]) => c = d
    /\ request.next > 0 =>
          /\ request.incident \in Incidents
          /\ \A c \in DOMAIN claims :
                claims[c].incident = request.incident => claims[c].policy < request.next

\* A payout is of the claim it is keyed by, and a claim has at most one.
OwnedInv ==
    /\ \A p \in DOMAIN payouts : /\ payouts[p].claim \in DOMAIN claims
                                 /\ payouts[p].key = Key(claims[payouts[p].claim])
    /\ \A p, q \in DOMAIN payouts : payouts[p].claim = payouts[q].claim => p = q

\* Claims are paid by their payouts.
PaidInv ==
    /\ \A c \in DOMAIN claims : claims[c].status = "paid" =>
          \E p \in DOMAIN payouts : payouts[p].claim = c /\ payouts[p].status = "success"
    /\ \A p \in DOMAIN payouts :
          /\ payouts[p].status = "success" =>
                \/ claims[payouts[p].claim].status = "paid"
                \/ /\ claims[payouts[p].claim].status = "rejected"
                   /\ claims[payouts[p].claim].verdict = "reject"
          /\ claims[payouts[p].claim].lane # "approved" => claims[payouts[p].claim].verdict # "none"

ClaimsInv == ClaimsTyped /\ BurstInv /\ BooksInv /\ KeysInv /\ OwnedInv /\ PaidInv

-----------------------------------------------------------------------------
\* The payout of a claim.

LEMMA MadeUnder ==
  ASSUME ClaimsTyped, KeysInv, OwnedInv, NEW c \in DOMAIN claims
  PROVE  \A p \in DOMAIN payouts : p \in Made(Key(claims[c])) <=> payouts[p].claim = c
  BY DEF Made, KeysInv, OwnedInv

LEMMA MadeUnderNone ==
  ASSUME OwnedInv, NEW key, ~Known(key)
  PROVE  Made(key) = {}
  BY DEF Made, OwnedInv, Known

\* A payout made for claim c under its key, when there was none.
LEMMA PayoutAppended ==
  ASSUME ClaimsTyped, NEW key \in Workers \X Nat \X Incidents, NEW c \in Nat, NEW outcome \in Outcomes,
         Made(key) = {}, ProcessPayout(key, c, outcome), NEW n, n = Len(payouts) + 1
  PROVE  /\ payouts' \in Seq(PayoutType) /\ ledger' \in Seq(EntryType)
         /\ n \in Nat /\ DOMAIN payouts = 1..(n - 1) /\ DOMAIN payouts' = 1..n
         /\ \A p \in DOMAIN payouts : payouts'[p] = payouts[p]
         /\ payouts'[n].claim = c /\ payouts'[n].key = key /\ payouts'[n].status = outcome
         /\ Len(payouts') = n /\ Len(ledger') = Len(ledger) + 1
         /\ \A l \in DOMAIN ledger : ledger'[l] = ledger[l]
         /\ ledger'[Len(ledger) + 1].payout = n
         /\ ledger'[Len(ledger) + 1].status = LedgerStatus(outcome)
  <1> DEFINE payout == [claim |-> c, key |-> key, status |-> outcome]
             entry == [payout |-> n, status |-> LedgerStatus(outcome)]
  <1>1. payouts' = Append(payouts, payout) /\ ledger' = Append(ledger, entry)
    BY DEF ProcessPayout
  <1>2. payouts \in Seq(PayoutType) /\ ledger \in Seq(EntryType)
    BY DEF ClaimsTyped
  <1>3. payout \in PayoutType /\ n \in Nat
    BY <1>2 DEF PayoutType
  <1>4. entry \in EntryType
    BY <1>3 DEF EntryType, LedgerStatus, Outcomes
  <1> HIDE DEF payout, entry
  <1>5. /\ payouts' \in Seq(PayoutType) /\ Len(payouts') = Len(payouts) + 1
        /\ DOMAIN payouts = 1..Len(payouts) /\ DOMAIN payouts' = 1..(Len(payouts) + 1)
        /\ \A p \in DOMAIN payouts : payouts'[p] = payouts[p]
        /\ payouts'[Len(payouts) + 1] = payout
    BY <1>1, <1>2, <1>3
  <1>6. /\ ledger' \in Seq(EntryType) /\ Len(ledger') = Len(ledger) + 1
        /\ \A l \in DOMAIN ledger : ledger'[l] = ledger[l]
        /\ ledger'[Len(ledger) + 1] = entry
    BY <1>1, <1>2, <1>4
  <1>7. DOMAIN payouts = 1..(n - 1)
    BY <1>2, <1>5
  <1> QED
    BY <1>3, <1>5, <1>6, <1>7 DEF payout, entry

LEMMA BooksAppended ==
  ASSUME ClaimsTyped, BooksInv, NEW key \in Workers \X Nat \X Incidents, NEW c \in Nat,
         NEW outcome \in Outcomes, Made(key) = {}, ProcessPayout(key, c, outcome)
  PROVE  BooksInv'
  <1>1. PICK n : n = Len(payouts) + 1
    OBVIOUS
  <1>2. /\ n \in Nat /\ DOMAIN payouts = 1..(n - 1) /\ DOMAIN payouts' = 1..n
        /\ \A p \in DOMAIN payouts : payouts'[p] = payouts[p]
        /\ payouts'[n].claim = c /\ payouts'[n].key = key /\ payouts'[n].status = outcome
        /\ Len(payouts') = n /\ Len(ledger') = Len(ledger) + 1
        /\ \A l \in DOMAIN ledger : ledger'[l] = ledger[l]
        /\ ledger'[Len(ledger) + 1].payout = n
        /\ ledger'[Len(ledger) + 1].status = LedgerStatus(outcome)
    BY <1>1, PayoutAppended
  <1>3. Len(ledger) + 1 = n /\ DOMAIN ledger = DOMAIN payouts
    BY <1>1 DEF BooksInv, ClaimsTyped
  <1>4. \A p \in DOMAIN payouts' : p \in DOMAIN payouts \/ p = n
    BY <1>2
  <1> QED
    BY <1>2, <1>3, <1>4 DEF BooksInv, LedgerStatus

-----------------------------------------------------------------------------
\* A new claim.

LEMMA LaneKnown ==
  ASSUME NEW w, NEW score
  PROVE  Lane(w, score) \in Lanes /\ (Lane(w, score) = "approved" => ~Burst(w))
  BY DEF Lane, Lanes

\* What a claim and its payout look like when it enters.
LEMMA EnterDoes ==
  ASSUME ClaimsTyped, PoliciesTypeOK, NEW i \in DOMAIN policies, NEW e \in Incidents, NEW type \in Types,
         NEW lane \in Lanes, NEW outcome \in Outcomes, Made(<<policies[i].worker, i, e>>) = {},
         Enter(NewClaim(i, e, type, lane), outcome)
  PROVE  \E claim \in ClaimType :
           /\ claims' = Append(claims, claim)
           /\ claim.worker = policies[i].worker /\ claim.policy = i /\ claim.incident = e
           /\ claim.at = now /\ claim.lane = lane /\ claim.verdict = "none"
           /\ lane = "approved" =>
                /\ claim.status = IF outcome = "success" THEN "paid" ELSE "approved"
                /\ ProcessPayout(<<policies[i].worker, i, e>>, Len(claims) + 1, outcome)
           /\ lane # "approved" =>
                claim.status \in {"in_review", "rejected"} /\ UNCHANGED <<payouts, ledger>>
  <1> DEFINE w == policies[i].worker
             new == [worker |-> w, policy |-> i, incident |-> e, type |-> type,
                     at |-> now, lane |-> lane, status |-> "in_review", verdict |-> "none"]
             as(s) == [worker |-> w, policy |-> i, incident |-> e, type |-> type,
                       at |-> now, lane |-> lane, status |-> s, verdict |-> "none"]
  <1>1. w \in Workers /\ i \in Nat /\ now \in Nat
    <2>1. policies \in Seq(Policies) /\ now \in Nat
      BY DEF PoliciesTypeOK
    <2>2. policies[i] \in Policies /\ i \in Nat
      BY <2>1
    <2> QED
      BY <2>1, <2>2 DEF Policies
  <1>2. NewClaim(i, e, type, lane) = new /\ Key(new) = <<w, i, e>> /\ new.lane = lane
    BY DEF NewClaim, Key
  <1>3. \A s \in ClaimStatuses : as(s) \in ClaimType /\ [new EXCEPT !.status = s] = as(s)
    BY <1>1 DEF ClaimType, Verdicts
  <1>4. new = as("in_review")
    OBVIOUS
  <1>5. PayoutStatus(<<w, i, e>>, outcome) = outcome
    BY DEF PayoutStatus
  <1>6. CASE lane = "approved"
    <2> DEFINE s == IF outcome = "success" THEN "paid" ELSE "approved"
    <2>1. s \in ClaimStatuses
      BY DEF ClaimStatuses
    <2>2. /\ claims' = Append(claims, [new EXCEPT !.status = s])
          /\ ProcessPayout(<<w, i, e>>, Len(claims) + 1, outcome)
      BY <1>2, <1>5, <1>6 DEF Enter
    <2>3. claims' = Append(claims, as(s)) /\ as(s) \in ClaimType
      BY <1>3, <2>1, <2>2
    <2>4. /\ as(s).worker = w /\ as(s).policy = i /\ as(s).incident = e /\ as(s).at = now
          /\ as(s).lane = lane /\ as(s).verdict = "none" /\ as(s).status = s
      OBVIOUS
    <2> HIDE DEF as
    <2> QED
      BY <1>6, <2>2, <2>3, <2>4
  <1>7. CASE lane # "approved"
    <2> DEFINE s == IF lane = "critical" THEN "rejected" ELSE "in_review"
    <2>1. s \in ClaimStatuses
      BY DEF ClaimStatuses
    <2>2. /\ claims' = Append(claims, IF lane = "critical" THEN [new EXCEPT !.status = "rejected"] ELSE new)
          /\ UNCHANGED <<payouts, ledger>>
      BY <1>2, <1>7 DEF Enter
    <2>3. claims' = Append(claims, as(s)) /\ as(s) \in ClaimType
      BY <1>3, <1>4, <2>1, <2>2 DEF ClaimStatuses
    <2>4. /\ as(s).worker = w /\ as(s).policy = i /\ as(s).incident = e /\ as(s).at = now
          /\ as(s).lane = lane /\ as(s).verdict = "none" /\ as(s).status = s
      OBVIOUS
    <2> HIDE DEF as
    <2> QED
      BY <1>7, <2>2, <2>3, <2>4
  <1> QED
    BY <1>6, <1>7

LEMMA ClaimAppended ==
  ASSUME ClaimsTyped, NEW claim \in ClaimType, claims' = Append(claims, claim)
  PROVE  /\ claims' \in Seq(ClaimType) /\ Len(claims) \in Nat
         /\ DOMAIN claims = 1..Len(claims) /\ DOMAIN claims' = 1..(Len(claims) + 1)
         /\ \A c \in DOMAIN claims : claims'[c] = claims[c]
         /\ claims'[Len(claims) + 1] = claim
  BY DEF ClaimsTyped

LEMMA UnseenFinite == ASSUME ClaimsTyped, NEW S \in SUBSET DOMAIN claims PROVE IsFiniteSet(S) /\ Cardinality(S) \in Nat
  <1>1. DOMAIN claims = 1..Len(claims) /\ Len(claims) \in Nat
    BY DEF ClaimsTyped
  <1>2. IsFiniteSet(DOMAIN claims)
    BY <1>1, FS_Interval
  <1> QED
    BY <1>2, FS_Subset, FS_CardinalityType

\* A claim that enters approved is not the last of a burst.
LEMMA BurstEnter ==
  ASSUME ClaimsTyped, BurstInv, PoliciesTypeOK, NEW claim \in ClaimType, claims' = Append(claims, claim),
         claim.at = now, claim.lane = "approved" => ~Burst(claim.worker)
  PROVE  BurstInv'
  <1> DEFINE n == Len(claims) + 1
  <1>1. /\ n \in Nat /\ n \notin DOMAIN claims /\ DOMAIN claims' = DOMAIN claims \cup {n}
        /\ \A c \in DOMAIN claims : claims'[c] = claims[c]
        /\ claims'[n] = claim
    BY ClaimAppended
  <1>2. now \in Nat /\ BurstWindow \in Nat /\ BurstLimit \in Nat
    BY ClaimConstants DEF PoliciesTypeOK
  <1>3. \A c \in DOMAIN claims : claims[c].at \in Nat /\ claims[c].at <= now
    <2>1. \A c \in DOMAIN claims : claims[c] \in ClaimType
      BY DEF ClaimsTyped
    <2> QED
      BY <2>1 DEF ClaimsTyped, ClaimType
  <1> HIDE DEF n
  <1> SUFFICES ASSUME NEW w \in Workers, NEW t \in Int
               PROVE  Cardinality(Unseen(w, t)') < BurstLimit
    BY Zenon DEF BurstInv
  <1>4. Cardinality(Unseen(w, t)) < BurstLimit /\ Unseen(w, t) \subseteq DOMAIN claims
    BY DEF BurstInv, Unseen, Of
  <1>5. CASE n \notin Unseen(w, t)'
    <2>1. Unseen(w, t)' = Unseen(w, t)
      BY <1>1, <1>5 DEF Unseen, Of
    <2> QED
      BY <1>4, <2>1
  <1>6. CASE n \in Unseen(w, t)'
    <2> DEFINE recent == {c \in Of(w) \cap Since(BurstWindow) : claims[c].status # "rejected"}
    <2>1. /\ claim.worker = w /\ claim.lane = "approved"
          /\ t - BurstWindow <= now /\ now <= t
      BY <1>1, <1>2, <1>6 DEF Unseen, Of
    <2>2. recent \in SUBSET DOMAIN claims
      BY DEF Of
    <2>3. IsFiniteSet(recent) /\ Cardinality(recent) \in Nat
      BY <2>2, UnseenFinite
    <2>4. Cardinality(recent) + 1 < BurstLimit
      BY <1>2, <2>1, <2>3 DEF Burst
    <2>5. Unseen(w, t)' \subseteq recent \cup {n}
      <3> SUFFICES ASSUME NEW d \in Unseen(w, t)', d # n PROVE d \in recent
        OBVIOUS
      <3>1. /\ d \in DOMAIN claims /\ claims'[d] = claims[d] /\ claims[d].worker = w
            /\ claims[d].lane = "approved" /\ claims[d].verdict = "none"
            /\ claims[d].at >= t - BurstWindow
        BY <1>1, <1>2 DEF Unseen, Of
      <3>2. claims[d].at >= now - BurstWindow
        BY <1>2, <1>3, <2>1, <3>1
      <3>3. claims[d].status \in {"approved", "paid"}
        BY <3>1 DEF ClaimsTyped
      <3> QED
        BY <3>1, <3>2, <3>3 DEF Of, Since
    <2>6. n \notin recent
      BY <1>1, <2>2
    <2> HIDE DEF recent
    <2>7. /\ IsFiniteSet(recent \cup {n})
          /\ Cardinality(recent \cup {n}) = Cardinality(recent) + 1
      BY <2>3, <2>6, FS_AddElement
    <2>8. /\ Cardinality(Unseen(w, t)') <= Cardinality(recent \cup {n})
          /\ Cardinality(Unseen(w, t)') \in Nat
      BY <2>5, <2>7, FS_Subset, FS_CardinalityType
    <2> QED
      BY <1>2, <2>3, <2>4, <2>7, <2>8
  <1> QED
    BY <1>5, <1>6

RequestType == [incident : Incidents \cup {"none"}, next : Nat, outcome : Outcomes]

LEMMA EnterStep ==
  ASSUME ClaimsInv, PoliciesTypeOK, NEW i \in DOMAIN policies, NEW e \in Incidents, NEW type \in Types,
         NEW lane \in Lanes, NEW outcome \in Outcomes, ~Known(<<policies[i].worker, i, e>>),
         lane = "approved" => ~Burst(policies[i].worker),
         Enter(NewClaim(i, e, type, lane), outcome), now' = now, request' \in RequestType,
         request'.next > 0 =>
            /\ request'.incident \in Incidents
            /\ e = request'.incident => i < request'.next
            /\ \A c \in DOMAIN claims :
                  claims[c].incident = request'.incident => claims[c].policy < request'.next
  PROVE  ClaimsInv'
  <1> DEFINE key == <<policies[i].worker, i, e>>
             n == Len(claims) + 1
  <1>1. ClaimsTyped /\ BurstInv /\ BooksInv /\ KeysInv /\ OwnedInv /\ PaidInv
    BY DEF ClaimsInv
  <1>2. Made(key) = {}
    BY <1>1, MadeUnderNone
  <1>3. PICK claim \in ClaimType :
          /\ claims' = Append(claims, claim)
          /\ claim.worker = policies[i].worker /\ claim.policy = i /\ claim.incident = e
          /\ claim.at = now /\ claim.lane = lane /\ claim.verdict = "none"
          /\ lane = "approved" =>
               /\ claim.status = IF outcome = "success" THEN "paid" ELSE "approved"
               /\ ProcessPayout(key, n, outcome)
          /\ lane # "approved" =>
               claim.status \in {"in_review", "rejected"} /\ UNCHANGED <<payouts, ledger>>
    BY <1>1, <1>2, EnterDoes
  <1>4. /\ claims' \in Seq(ClaimType) /\ n \in Nat
        /\ n \notin DOMAIN claims /\ DOMAIN claims' = DOMAIN claims \cup {n}
        /\ \A c \in DOMAIN claims : claims'[c] = claims[c]
        /\ claims'[n] = claim
    BY <1>1, <1>3, ClaimAppended
  <1>5. BurstInv'
    BY <1>1, <1>3, BurstEnter
  <1>6. key = Key(claim) /\ key \in Workers \X Nat \X Incidents
    BY <1>3 DEF Key, ClaimType
  <1>7. \A c \in DOMAIN claims : Key(claims[c]) # key
    BY DEF Known
  <1> HIDE DEF n, key
  <1>8. KeysInv'
    <2>1. \A c, d \in DOMAIN claims' : Key(claims'[c]) = Key(claims'[d]) => c = d
      BY <1>1, <1>4, <1>6, <1>7 DEF KeysInv
    <2>2. request'.next > 0 =>
            /\ request'.incident \in Incidents
            /\ \A c \in DOMAIN claims' :
                  claims'[c].incident = request'.incident => claims'[c].policy < request'.next
      BY <1>3, <1>4
    <2> QED
      BY <2>1, <2>2 DEF KeysInv, Key
  <1>9. \A c \in DOMAIN claims' : /\ claims'[c].at <= now'
                                  /\ claims'[c].lane = "approved" /\ claims'[c].verdict = "none"
                                        => claims'[c].status \in {"approved", "paid"}
    <2>1. now \in Nat
      BY DEF PoliciesTypeOK
    <2>2. claim.at <= now' /\ (claim.lane = "approved" => claim.status \in {"approved", "paid"})
      BY <1>3, <2>1
    <2> QED
      BY <1>1, <1>4, <2>2 DEF ClaimsTyped
  <1>10. CASE lane # "approved"
    <2>1. UNCHANGED <<payouts, ledger>> /\ claim.status # "paid"
      BY <1>3, <1>10
    <2>2. ClaimsTyped' /\ BooksInv'
      BY <1>1, <1>4, <1>9, <2>1 DEF ClaimsTyped, BooksInv, RequestType
    <2>3. OwnedInv'
      BY <1>1, <1>4, <2>1 DEF OwnedInv, Key
    <2>4. PaidInv'
      BY <1>1, <1>4, <2>1 DEF PaidInv, OwnedInv
    <2> QED
      BY <1>5, <1>8, <2>2, <2>3, <2>4 DEF ClaimsInv
  <1>11. CASE lane = "approved"
    <2>1. PICK m : m = Len(payouts) + 1
      OBVIOUS
    <2>2. /\ claim.status = IF outcome = "success" THEN "paid" ELSE "approved"
          /\ ProcessPayout(key, n, outcome)
      BY <1>3, <1>11
    <2>3. /\ payouts' \in Seq(PayoutType) /\ ledger' \in Seq(EntryType)
          /\ m \in Nat /\ DOMAIN payouts = 1..(m - 1) /\ DOMAIN payouts' = 1..m
          /\ \A p \in DOMAIN payouts : payouts'[p] = payouts[p]
          /\ payouts'[m].claim = n /\ payouts'[m].key = key /\ payouts'[m].status = outcome
      BY <1>1, <1>2, <1>4, <1>6, <2>1, <2>2, PayoutAppended
    <2>4. m \notin DOMAIN payouts /\ DOMAIN payouts' = DOMAIN payouts \cup {m}
      <3>1. m \in Nat /\ m >= 1 /\ DOMAIN payouts = 1..(m - 1) /\ DOMAIN payouts' = 1..m
        BY <1>1, <2>1, <2>3 DEF ClaimsTyped
      <3> QED
        BY <3>1
    <2>5. /\ payouts' \in Seq(PayoutType) /\ ledger' \in Seq(EntryType)
          /\ m \notin DOMAIN payouts /\ DOMAIN payouts' = DOMAIN payouts \cup {m}
          /\ \A p \in DOMAIN payouts : payouts'[p] = payouts[p]
      BY <2>3, <2>4
    <2>6. payouts'[m].claim = n /\ payouts'[m].key = key /\ payouts'[m].status = outcome
      BY <2>3
    <2>7. ClaimsTyped'
      <3>1. request' \in RequestType /\ claims' \in Seq(ClaimType)
        BY <1>4
      <3>2. payouts' \in Seq(PayoutType) /\ ledger' \in Seq(EntryType)
        BY <2>5
      <3> QED
        BY <1>9, <3>1, <3>2 DEF ClaimsTyped, RequestType
    <2>8. BooksInv'
      BY <1>1, <1>2, <1>4, <1>6, <2>2, BooksAppended
    <2>9. OwnedInv'
      BY <1>1, <1>4, <1>6, <2>5, <2>6 DEF OwnedInv, Key
    <2>10. PaidInv'
      <3>1. ASSUME NEW c \in DOMAIN claims', claims'[c].status = "paid"
            PROVE  \E p \in DOMAIN payouts' : payouts'[p].claim = c /\ payouts'[p].status = "success"
        <4>1. CASE c = n
          BY <1>4, <2>2, <2>5, <2>6, <3>1, <4>1
        <4>2. CASE c # n
          BY <1>1, <1>4, <2>5, <3>1, <4>2 DEF PaidInv
        <4> QED
          BY <4>1, <4>2
      <3>2. ASSUME NEW p \in DOMAIN payouts'
            PROVE  LET c == claims'[payouts'[p].claim]
                   IN  /\ payouts'[p].status = "success" =>
                            c.status = "paid" \/ (c.status = "rejected" /\ c.verdict = "reject")
                       /\ c.lane # "approved" => c.verdict # "none"
        <4>1. CASE p = m
          BY <1>3, <1>4, <1>11, <2>2, <2>6, <4>1
        <4>2. CASE p # m
          <5>1. /\ p \in DOMAIN payouts /\ payouts'[p] = payouts[p]
                /\ payouts[p].claim \in DOMAIN claims
                /\ claims'[payouts[p].claim] = claims[payouts[p].claim]
            BY <1>1, <1>4, <2>5, <4>2 DEF OwnedInv
          <5> QED
            BY <1>1, <5>1 DEF PaidInv
        <4> QED
          BY <4>1, <4>2
      <3> QED
        BY <3>1, <3>2 DEF PaidInv
    <2> QED
      BY <1>5, <1>8, <2>7, <2>8, <2>9, <2>10 DEF ClaimsInv
  <1> QED
    BY <1>10, <1>11

-----------------------------------------------------------------------------
\* A claim that is decided or paid.

\* The claim with another status and verdict.
Row(claim, s, v) == [claim EXCEPT !.status = s, !.verdict = v]

LEMMA RowFields ==
  ASSUME NEW claim \in ClaimType, NEW s \in ClaimStatuses, NEW v \in Verdicts
  PROVE  /\ Row(claim, s, v) \in ClaimType /\ Row(claim, s, v).worker = claim.worker
         /\ Row(claim, s, v).policy = claim.policy /\ Row(claim, s, v).incident = claim.incident
         /\ Row(claim, s, v).at = claim.at /\ Row(claim, s, v).lane = claim.lane
         /\ Row(claim, s, v).status = s /\ Row(claim, s, v).verdict = v
  BY DEF ClaimType, Row

LEMMA RowOf ==
  ASSUME NEW claim \in ClaimType, NEW s
  PROVE  [claim EXCEPT !.status = s] = Row(claim, s, claim.verdict)
  BY DEF ClaimType, Row

LEMMA ApprovedRow ==
  ASSUME NEW claim \in ClaimType, NEW s, NEW row, row = [claim EXCEPT !.verdict = "approve", !.status = s]
  PROVE  row = Row(claim, s, "approve")
  BY DEF ClaimType, Row

\* What changes status and verdict of claim c to s and v.
Relabels(c, s, v) == claims' = [claims EXCEPT ![c] = Row(claims[c], s, v)]

LEMMA Relabeled ==
  ASSUME ClaimsTyped, BurstInv, KeysInv, NEW c \in DOMAIN claims, NEW s \in ClaimStatuses,
         NEW v \in Verdicts, Relabels(c, s, v), UNCHANGED <<now, request>>,
         v = "none" => claims[c].verdict = "none" /\ s = "paid"
  PROVE  /\ claims' \in Seq(ClaimType) /\ DOMAIN claims' = DOMAIN claims
         /\ \A d \in DOMAIN claims : /\ Key(claims'[d]) = Key(claims[d])
                                     /\ claims'[d].lane = claims[d].lane
                                     /\ d # c => claims'[d] = claims[d]
                                     /\ claims'[d].at <= now'
                                     /\ claims'[d].lane = "approved" /\ claims'[d].verdict = "none"
                                           => claims'[d].status \in {"approved", "paid"}
         /\ claims'[c].status = s /\ claims'[c].verdict = v
         /\ BurstInv' /\ KeysInv'
  <1>1. PICK row : row = Row(claims[c], s, v)
    OBVIOUS
  <1>2. claims[c] \in ClaimType /\ claims \in Seq(ClaimType)
    BY DEF ClaimsTyped
  <1>3. claims' = [claims EXCEPT ![c] = row]
    BY <1>1 DEF Relabels
  <1>4. /\ row \in ClaimType /\ row.worker = claims[c].worker /\ row.policy = claims[c].policy
        /\ row.incident = claims[c].incident /\ row.at = claims[c].at /\ row.lane = claims[c].lane
        /\ row.status = s /\ row.verdict = v
    BY <1>1, <1>2, RowFields
  <1>5. /\ claims' \in Seq(ClaimType) /\ DOMAIN claims' = DOMAIN claims
        /\ claims'[c] = row /\ \A d \in DOMAIN claims : d # c => claims'[d] = claims[d]
    BY <1>2, <1>4, <1>3
  <1>6. \A d \in DOMAIN claims :
          /\ claims'[d].worker = claims[d].worker /\ claims'[d].policy = claims[d].policy
          /\ claims'[d].incident = claims[d].incident /\ claims'[d].at = claims[d].at
          /\ claims'[d].lane = claims[d].lane
          /\ claims'[d].verdict = "none" => claims[d].verdict = "none"
    BY <1>4, <1>5
  <1>7. KeysInv'
    BY <1>5, <1>6 DEF KeysInv, Key
  <1>8. ASSUME NEW w \in Workers, NEW t \in Int
        PROVE  Cardinality(Unseen(w, t)') < BurstLimit
    <2>1. Unseen(w, t)' \subseteq Unseen(w, t) /\ Unseen(w, t) \in SUBSET DOMAIN claims
      BY <1>5, <1>6 DEF Unseen, Of
    <2>2. IsFiniteSet(Unseen(w, t)) /\ Cardinality(Unseen(w, t)) \in Nat
      BY <2>1, UnseenFinite
    <2>3. /\ Cardinality(Unseen(w, t)') <= Cardinality(Unseen(w, t))
          /\ Cardinality(Unseen(w, t)') \in Nat
      BY <2>1, <2>2, FS_Subset, FS_CardinalityType
    <2>4. Cardinality(Unseen(w, t)) < BurstLimit /\ BurstLimit \in Nat
      BY ClaimConstants DEF BurstInv
    <2> QED
      BY <2>2, <2>3, <2>4
  <1>9. BurstInv'
    BY <1>8, Zenon DEF BurstInv
  <1>10. \A d \in DOMAIN claims : /\ claims'[d].at <= now'
                                  /\ claims'[d].lane = "approved" /\ claims'[d].verdict = "none"
                                        => claims'[d].status \in {"approved", "paid"}
    BY <1>4, <1>5, <1>6 DEF ClaimsTyped
  <1>11. \A d \in DOMAIN claims : Key(claims'[d]) = Key(claims[d])
    BY <1>6 DEF Key
  <1> QED
    BY <1>4, <1>5, <1>6, <1>7, <1>9, <1>10, <1>11

\* A decision or a payout keeps the claims' rows typed.
LEMMA RelabeledTyped ==
  ASSUME ClaimsTyped, BurstInv, KeysInv, NEW c \in DOMAIN claims, NEW s \in ClaimStatuses,
         NEW v \in Verdicts, Relabels(c, s, v), UNCHANGED <<now, request>>,
         v = "none" => claims[c].verdict = "none" /\ s = "paid",
         payouts' \in Seq(PayoutType), ledger' \in Seq(EntryType)
  PROVE  ClaimsTyped'
  <1>1. /\ claims' \in Seq(ClaimType) /\ DOMAIN claims' = DOMAIN claims
        /\ \A d \in DOMAIN claims : /\ claims'[d].at <= now'
                                    /\ claims'[d].lane = "approved" /\ claims'[d].verdict = "none"
                                           => claims'[d].status \in {"approved", "paid"}
    BY Relabeled
  <1>2. request' \in [incident : Incidents \cup {"none"}, next : Nat, outcome : Outcomes]
    BY DEF ClaimsTyped
  <1> QED
    BY <1>1, <1>2 DEF ClaimsTyped

LEMMA RejectStep ==
  ASSUME ClaimsInv, NEW c \in DOMAIN claims, Reject(c)
  PROVE  ClaimsInv'
  <1>1. ClaimsTyped /\ BurstInv /\ BooksInv /\ KeysInv /\ OwnedInv /\ PaidInv
    BY DEF ClaimsInv
  <1>2. claims \in Seq(ClaimType) /\ claims[c] \in ClaimType
    BY <1>1 DEF ClaimsTyped
  <1>3. Relabels(c, "rejected", "reject")
    BY <1>2 DEF Reject, Relabels, Row
  <1>4. UNCHANGED <<now, payouts, ledger, request>>
    BY DEF Reject, policyVars
  <1>5. "rejected" \in ClaimStatuses /\ "reject" \in Verdicts
    BY DEF ClaimStatuses, Verdicts
  <1>6. /\ DOMAIN claims' = DOMAIN claims
        /\ \A d \in DOMAIN claims : /\ Key(claims'[d]) = Key(claims[d])
                                    /\ claims'[d].lane = claims[d].lane
                                    /\ d # c => claims'[d] = claims[d]
        /\ claims'[c].status = "rejected" /\ claims'[c].verdict = "reject"
        /\ BurstInv' /\ KeysInv'
    BY <1>1, <1>3, <1>4, <1>5, Relabeled
  <1>7. ClaimsTyped'
    BY <1>1, <1>3, <1>4, <1>5, RelabeledTyped DEF ClaimsTyped
  <1>8. BooksInv'
    BY <1>1, <1>4 DEF BooksInv
  <1>9. OwnedInv'
    BY <1>1, <1>4, <1>6 DEF OwnedInv
  <1>10. PaidInv'
    BY <1>1, <1>4, <1>6 DEF PaidInv, OwnedInv
  <1> QED
    BY <1>6, <1>7, <1>8, <1>9, <1>10 DEF ClaimsInv

\* An approval pays a claim that has no payout, and else answers with the payout
\* it has.
LEMMA ApproveStep ==
  ASSUME ClaimsInv, NEW c \in DOMAIN claims, NEW outcome \in Outcomes, Approve(c, outcome)
  PROVE  ClaimsInv'
  <1>1. ClaimsTyped /\ BurstInv /\ BooksInv /\ KeysInv /\ OwnedInv /\ PaidInv
    BY DEF ClaimsInv
  <1>2. claims \in Seq(ClaimType) /\ claims[c] \in ClaimType /\ c \in Nat
    BY <1>1 DEF ClaimsTyped
  <1>3. PICK key : key = Key(claims[c])
    OBVIOUS
  <1>4. PICK s : s = IF PayoutStatus(key, outcome) = "success" THEN "paid" ELSE "approved"
    OBVIOUS
  <1>5. s \in ClaimStatuses /\ "approve" \in Verdicts
    BY <1>4 DEF ClaimStatuses, Verdicts
  <1>6. claims' = [claims EXCEPT ![c].verdict = "approve", ![c].status = s]
    BY <1>3, <1>4 DEF Approve
  <1>7. PICK row : row = [claims[c] EXCEPT !.verdict = "approve", !.status = s]
    OBVIOUS
  <1>8. Relabels(c, s, "approve")
    <2>1. row = Row(claims[c], s, "approve")
      BY <1>2, <1>7, ApprovedRow
    <2>2. claims' = [claims EXCEPT ![c] = row]
      BY <1>2, <1>6, <1>7
    <2> QED
      BY <2>1, <2>2 DEF Relabels
  <1>9. ProcessPayout(key, c, outcome) /\ UNCHANGED <<now, request>>
    BY <1>3 DEF Approve, policyVars
  <1>10. /\ DOMAIN claims' = DOMAIN claims
         /\ \A d \in DOMAIN claims : /\ Key(claims'[d]) = Key(claims[d])
                                     /\ claims'[d].lane = claims[d].lane
                                     /\ d # c => claims'[d] = claims[d]
         /\ claims'[c].status = s /\ claims'[c].verdict = "approve"
         /\ BurstInv' /\ KeysInv'
    BY <1>1, <1>5, <1>8, <1>9, Relabeled
  <1>11. key \in Workers \X Nat \X Incidents
    BY <1>2, <1>3 DEF Key, ClaimType
  <1>12. \A p \in DOMAIN payouts : p \in Made(key) <=> payouts[p].claim = c
    BY <1>1, <1>3, MadeUnder
  <1>13. CASE Made(key) = {}
    <2>1. PICK m : m = Len(payouts) + 1
      OBVIOUS
    <2>2. /\ payouts' \in Seq(PayoutType) /\ ledger' \in Seq(EntryType)
          /\ m \in Nat /\ DOMAIN payouts = 1..(m - 1) /\ DOMAIN payouts' = 1..m
          /\ \A p \in DOMAIN payouts : payouts'[p] = payouts[p]
          /\ payouts'[m].claim = c /\ payouts'[m].key = key /\ payouts'[m].status = outcome
      BY <1>1, <1>2, <1>9, <1>11, <1>13, <2>1, PayoutAppended
    <2>3. m \notin DOMAIN payouts /\ DOMAIN payouts' = DOMAIN payouts \cup {m}
      <3>1. Len(payouts) \in Nat
        BY <1>1 DEF ClaimsTyped
      <3> QED
        BY <2>1, <2>2, <3>1
    <2>4. s = IF outcome = "success" THEN "paid" ELSE "approved"
      BY <1>4, <1>13 DEF PayoutStatus
    <2>5. \A p \in DOMAIN payouts : payouts[p].claim # c
      BY <1>12, <1>13
    <2>6. ClaimsTyped'
      BY <1>1, <1>5, <1>8, <1>9, <2>2, RelabeledTyped
    <2>7. BooksInv'
      BY <1>1, <1>2, <1>9, <1>11, <1>13, BooksAppended
    <2>8. OwnedInv'
      BY <1>1, <1>3, <1>10, <2>2, <2>3, <2>5, SMTT(30) DEF OwnedInv
    <2>9. PaidInv'
      <3>1. ASSUME NEW d \in DOMAIN claims', claims'[d].status = "paid"
            PROVE  \E p \in DOMAIN payouts' : payouts'[p].claim = d /\ payouts'[p].status = "success"
        <4>1. CASE d = c
          BY <1>10, <2>2, <2>3, <2>4, <3>1, <4>1
        <4>2. CASE d # c
          BY <1>1, <1>10, <2>2, <2>3, <3>1, <4>2 DEF PaidInv
        <4> QED
          BY <4>1, <4>2
      <3>2. ASSUME NEW p \in DOMAIN payouts
            PROVE  /\ payouts'[p] = payouts[p] /\ payouts[p].claim \in DOMAIN claims
                   /\ claims'[payouts[p].claim] = claims[payouts[p].claim]
        BY <1>1, <1>10, <2>2, <2>5 DEF OwnedInv
      <3>3. ASSUME NEW p \in DOMAIN payouts'
            PROVE  /\ payouts'[p].status = "success" =>
                         \/ claims'[payouts'[p].claim].status = "paid"
                         \/ /\ claims'[payouts'[p].claim].status = "rejected"
                            /\ claims'[payouts'[p].claim].verdict = "reject"
                   /\ claims'[payouts'[p].claim].lane # "approved" =>
                         claims'[payouts'[p].claim].verdict # "none"
        <4>1. CASE p = m
          BY <1>10, <2>2, <2>4, <4>1
        <4>2. CASE p # m
          BY <1>1, <2>3, <3>2, <4>2 DEF PaidInv
        <4> QED
          BY <4>1, <4>2
      <3> QED
        BY <3>1, <3>3 DEF PaidInv
    <2> QED
      BY <1>10, <2>6, <2>7, <2>8, <2>9 DEF ClaimsInv
  <1>14. CASE Made(key) # {}
    <2>1. UNCHANGED <<payouts, ledger>>
      BY <1>9, <1>14 DEF ProcessPayout
    <2>2. PICK q \in Made(key) : q = CHOOSE p \in Made(key) : TRUE
      BY <1>14
    <2>3. q \in DOMAIN payouts /\ payouts[q].claim = c
      BY <1>12, <2>2 DEF Made
    <2>4. \A p \in DOMAIN payouts : payouts[p].claim = c => p = q
      BY <1>1, <2>3 DEF OwnedInv
    <2>5. s = IF payouts[q].status = "success" THEN "paid" ELSE "approved"
      BY <1>4, <1>14, <2>2 DEF PayoutStatus
    <2>6. ClaimsTyped'
      BY <1>1, <1>5, <1>8, <1>9, <2>1, RelabeledTyped DEF ClaimsTyped
    <2>7. BooksInv'
      BY <1>1, <2>1 DEF BooksInv
    <2>8. OwnedInv'
      BY <1>1, <1>10, <2>1 DEF OwnedInv
    <2>9. PaidInv'
      <3>1. ASSUME NEW d \in DOMAIN claims', claims'[d].status = "paid"
            PROVE  \E p \in DOMAIN payouts' : payouts'[p].claim = d /\ payouts'[p].status = "success"
        <4>1. CASE d = c
          BY <1>10, <2>1, <2>3, <2>5, <3>1, <4>1
        <4>2. CASE d # c
          BY <1>1, <1>10, <2>1, <3>1, <4>2 DEF PaidInv
        <4> QED
          BY <4>1, <4>2
      <3>2. ASSUME NEW p \in DOMAIN payouts'
            PROVE  /\ payouts'[p].status = "success" =>
                         \/ claims'[payouts'[p].claim].status = "paid"
                         \/ /\ claims'[payouts'[p].claim].status = "rejected"
                            /\ claims'[payouts'[p].claim].verdict = "reject"
                   /\ claims'[payouts'[p].claim].lane # "approved" =>
                         claims'[payouts'[p].claim].verdict # "none"
        <4>1. CASE p = q
          BY <1>10, <2>1, <2>3, <2>5, <4>1
        <4>2. CASE p # q
          <5>1. /\ p \in DOMAIN payouts /\ payouts'[p] = payouts[p]
                /\ payouts[p].claim \in DOMAIN claims /\ payouts[p].claim # c
            BY <1>1, <2>1, <2>4, <4>2 DEF OwnedInv
          <5>2. claims'[payouts[p].claim] = claims[payouts[p].claim]
            BY <1>10, <5>1
          <5> QED
            BY <1>1, <5>1, <5>2 DEF PaidInv
        <4> QED
          BY <4>1, <4>2
      <3> QED
        BY <3>1, <3>2 DEF PaidInv
    <2> QED
      BY <1>10, <2>6, <2>7, <2>8, <2>9 DEF ClaimsInv
  <1> QED
    BY <1>13, <1>14

\* Either payout route: a payout it takes is not a success yet.
LEMMA SettleStep ==
  ASSUME ClaimsInv, NEW p \in DOMAIN payouts, NEW taken \in BOOLEAN, NEW outcome \in Outcomes,
         taken => payouts[p].status # "success", Settle(p, taken, outcome)
  PROVE  ClaimsInv'
  <1>1. ClaimsTyped /\ BurstInv /\ BooksInv /\ KeysInv /\ OwnedInv /\ PaidInv
    BY DEF ClaimsInv
  <1>2. /\ payouts \in Seq(PayoutType) /\ payouts[p] \in PayoutType
        /\ ledger \in Seq(EntryType) /\ claims \in Seq(ClaimType)
    BY <1>1 DEF ClaimsTyped
  <1>3. PICK s : s = IF taken THEN outcome ELSE payouts[p].status
    OBVIOUS
  <1>4. s \in Outcomes
    BY <1>2, <1>3 DEF PayoutType
  <1>5. PICK c \in DOMAIN claims : c = payouts[p].claim
    BY <1>1 DEF OwnedInv
  <1>6. /\ payouts' = [payouts EXCEPT ![p].status = s]
        /\ claims' = IF s = "success" THEN [claims EXCEPT ![c].status = "paid"] ELSE claims
        /\ UNCHANGED <<now, request>>
    BY <1>3, <1>5 DEF Settle, policyVars
  <1>7. /\ payouts' \in Seq(PayoutType) /\ DOMAIN payouts' = DOMAIN payouts
        /\ Len(payouts') = Len(payouts)
        /\ \A q \in DOMAIN payouts : /\ payouts'[q].claim = payouts[q].claim
                                     /\ payouts'[q].key = payouts[q].key
                                     /\ q # p => payouts'[q] = payouts[q]
        /\ payouts'[p].status = s
    <2>1. PICK row : row = [payouts[p] EXCEPT !.status = s]
      OBVIOUS
    <2>2. row \in PayoutType /\ row.claim = payouts[p].claim /\ row.key = payouts[p].key /\ row.status = s
      BY <1>2, <1>4, <2>1 DEF PayoutType
    <2>3. payouts' = [payouts EXCEPT ![p] = row]
      BY <1>6, <2>1
    <2>4. payouts' \in Seq(PayoutType) /\ DOMAIN payouts' = DOMAIN payouts /\ Len(payouts') = Len(payouts)
      BY <1>2, <2>2, <2>3
    <2>5. payouts'[p] = row /\ \A q \in DOMAIN payouts : q # p => payouts'[q] = payouts[q]
      BY <1>2, <2>3
    <2> QED
      BY <2>2, <2>4, <2>5
  <1>8. /\ ledger' \in Seq(EntryType) /\ BooksInv'
    <2>1. CASE ~taken
      <3>1. ledger' = ledger /\ s = payouts[p].status
        BY <1>3, <2>1 DEF Settle
      <3> QED
        BY <1>1, <1>2, <1>7, <3>1, SMTT(30) DEF BooksInv
    <2>2. CASE taken
      <3>1. PICK b : b = LedgerStatus(outcome)
        OBVIOUS
      <3>2. b \in {"pending", "settled", "failed"} /\ s = outcome
        BY <1>3, <2>2, <3>1 DEF LedgerStatus, Outcomes
      <3>3. ledger' = [l \in DOMAIN ledger |-> IF ledger[l].payout = p
                                               THEN [ledger[l] EXCEPT !.status = b] ELSE ledger[l]]
        BY <2>2, <3>1 DEF Settle
      <3>4. Len(ledger) = Len(payouts) /\ DOMAIN ledger = 1..Len(ledger) /\ Len(ledger) \in Nat
            /\ DOMAIN ledger = DOMAIN payouts
        BY <1>1, <1>2 DEF BooksInv
      <3>5. ASSUME NEW l \in DOMAIN ledger
            PROVE  /\ ledger'[l] \in EntryType /\ ledger'[l].payout = ledger[l].payout
                   /\ ledger'[l].status = IF ledger[l].payout = p THEN b ELSE ledger[l].status
        <4>1. ledger[l] \in EntryType
          BY <1>2
        <4>2. PICK row : row = [ledger[l] EXCEPT !.status = b]
          OBVIOUS
        <4>3. row \in EntryType /\ row.payout = ledger[l].payout /\ row.status = b
          BY <3>2, <4>1, <4>2 DEF EntryType
        <4>4. ledger'[l] = IF ledger[l].payout = p THEN row ELSE ledger[l]
          BY <3>3, <4>2
        <4> QED
          BY <4>1, <4>3, <4>4
      <3>6. DOMAIN ledger' = DOMAIN ledger
        BY <3>3
      <3>7. ledger' \in Seq(EntryType) /\ Len(ledger') = Len(ledger)
        <4>1. ledger' = [l \in 1..Len(ledger) |-> ledger'[l]]
          BY <3>3, <3>4
        <4>2. \A l \in 1..Len(ledger) : ledger'[l] \in EntryType
          BY <3>4, <3>5
        <4>3. PICK n \in Nat : n = Len(ledger)
          BY <3>4
        <4>4. /\ ledger' = [l \in 1..n |-> ledger'[l]] /\ \A l \in 1..n : ledger'[l] \in EntryType
          BY <4>1, <4>2, <4>3
        <4>5. ledger' \in Seq(EntryType)
          BY <4>3, <4>4
        <4> QED
          BY <3>4, <3>6, <4>3, <4>5
      <3>8. \A q \in DOMAIN payouts' : /\ ledger'[q].payout = q
                                       /\ ledger'[q].status = LedgerStatus(payouts'[q].status)
        BY <1>1, <1>7, <3>1, <3>2, <3>4, <3>5 DEF BooksInv
      <3> QED
        BY <1>7, <3>4, <3>7, <3>8 DEF BooksInv
    <2> QED
      BY <2>1, <2>2
  <1>9. CASE s = "success"
    <2>1. PICK v : v = claims[c].verdict
      OBVIOUS
    <2>2. claims[c] \in ClaimType /\ v \in Verdicts /\ "paid" \in ClaimStatuses
      <3>1. claims[c] \in ClaimType
        BY <1>2
      <3>2. claims[c].verdict \in Verdicts
        BY <3>1 DEF ClaimType
      <3> QED
        BY <2>1, <3>1, <3>2 DEF ClaimStatuses
    <2>3. Relabels(c, "paid", v)
      <3>1. PICK row : row = [claims[c] EXCEPT !.status = "paid"]
        OBVIOUS
      <3>2. row = Row(claims[c], "paid", v)
        BY <2>1, <2>2, <3>1, RowOf
      <3>3. claims' = [claims EXCEPT ![c] = row]
        BY <1>6, <1>9, <3>1
      <3> QED
        BY <3>2, <3>3 DEF Relabels
    <2>4. /\ DOMAIN claims' = DOMAIN claims
          /\ \A d \in DOMAIN claims : /\ Key(claims'[d]) = Key(claims[d])
                                      /\ claims'[d].lane = claims[d].lane
                                      /\ d # c => claims'[d] = claims[d]
          /\ claims'[c].status = "paid" /\ claims'[c].verdict = v
          /\ BurstInv' /\ KeysInv'
      <3>1. v = "none" => claims[c].verdict = "none" /\ "paid" = "paid"
        BY <2>1
      <3>2. ClaimsTyped /\ BurstInv /\ KeysInv /\ UNCHANGED <<now, request>>
        BY <1>1, <1>6
      <3> QED
        BY <2>2, <2>3, <3>1, <3>2, Relabeled
    <2>5. ClaimsTyped'
      BY <1>1, <1>6, <1>7, <1>8, <2>1, <2>2, <2>3, RelabeledTyped
    <2>6. OwnedInv'
      BY <1>1, <1>7, <2>4, SMTT(30) DEF OwnedInv
    <2>7. PaidInv'
      <3>1. ASSUME NEW d \in DOMAIN claims', claims'[d].status = "paid"
            PROVE  \E q \in DOMAIN payouts' : payouts'[q].claim = d /\ payouts'[q].status = "success"
        <4>1. CASE d = c
          BY <1>5, <1>7, <1>9, <4>1
        <4>2. CASE d # c
          <5>1. d \in DOMAIN claims /\ claims[d].status = "paid"
            BY <2>4, <3>1, <4>2
          <5>2. PICK q \in DOMAIN payouts : payouts[q].claim = d /\ payouts[q].status = "success"
            BY <1>1, <5>1 DEF PaidInv
          <5> QED
            BY <1>5, <1>7, <4>2, <5>2
        <4> QED
          BY <4>1, <4>2
      <3>2. ASSUME NEW q \in DOMAIN payouts'
            PROVE  /\ payouts'[q].status = "success" =>
                         \/ claims'[payouts'[q].claim].status = "paid"
                         \/ /\ claims'[payouts'[q].claim].status = "rejected"
                            /\ claims'[payouts'[q].claim].verdict = "reject"
                   /\ claims'[payouts'[q].claim].lane # "approved" =>
                         claims'[payouts'[q].claim].verdict # "none"
        <4>1. CASE q = p
          BY <1>1, <1>5, <1>7, <2>1, <2>4, <4>1 DEF PaidInv
        <4>2. CASE q # p
          <5>1. /\ q \in DOMAIN payouts /\ payouts'[q] = payouts[q]
                /\ payouts[q].claim \in DOMAIN claims /\ payouts[q].claim # c
            BY <1>1, <1>5, <1>7, <4>2 DEF OwnedInv
          <5>2. claims'[payouts[q].claim] = claims[payouts[q].claim]
            BY <2>4, <5>1
          <5> QED
            BY <1>1, <5>1, <5>2 DEF PaidInv
        <4> QED
          BY <4>1, <4>2
      <3> QED
        BY <3>1, <3>2 DEF PaidInv
    <2> QED
      BY <1>8, <2>4, <2>5, <2>6, <2>7 DEF ClaimsInv
  <1>10. CASE s # "success"
    <2>1. claims' = claims
      BY <1>6, <1>10
    <2>2. payouts[p].status # "success"
      BY <1>3, <1>10
    <2>3. ClaimsTyped'
      BY <1>1, <1>6, <1>7, <1>8, <2>1 DEF ClaimsTyped
    <2>4. BurstInv'
      BY <1>1, <2>1, Zenon DEF BurstInv, Unseen, Of
    <2>5. KeysInv'
      BY <1>1, <1>6, <2>1 DEF KeysInv, Key
    <2>6. OwnedInv'
      BY <1>1, <1>7, <2>1 DEF OwnedInv, Key
    <2>7. PaidInv'
      <3>1. ASSUME NEW d \in DOMAIN claims', claims'[d].status = "paid"
            PROVE  \E q \in DOMAIN payouts' : payouts'[q].claim = d /\ payouts'[q].status = "success"
        <4>1. PICK q \in DOMAIN payouts : payouts[q].claim = d /\ payouts[q].status = "success"
          BY <1>1, <2>1, <3>1 DEF PaidInv
        <4> QED
          BY <1>7, <2>2, <4>1
      <3>2. ASSUME NEW q \in DOMAIN payouts', payouts'[q].status = "success"
            PROVE  payouts[q].status = "success"
        BY <1>7, <1>10, <3>2
      <3> QED
        BY <1>1, <1>7, <2>1, <3>1, <3>2 DEF PaidInv
    <2> QED
      BY <1>8, <2>3, <2>4, <2>5, <2>6, <2>7 DEF ClaimsInv
  <1> QED
    BY <1>9, <1>10

-----------------------------------------------------------------------------
\* Steps that leave claims, payouts and ledger as they are, and every step.

LEMMA KeptStep ==
  ASSUME ClaimsInv, PoliciesTypeOK, UNCHANGED <<claims, payouts, ledger>>,
         now' \in Nat, now <= now', request' \in RequestType,
         request'.next > 0 =>
            /\ request'.incident \in Incidents
            /\ \A c \in DOMAIN claims :
                  claims[c].incident = request'.incident => claims[c].policy < request'.next
  PROVE  ClaimsInv'
  <1>1. ClaimsTyped /\ BurstInv /\ BooksInv /\ KeysInv /\ OwnedInv /\ PaidInv
    BY DEF ClaimsInv
  <1>2. \A c \in DOMAIN claims : claims[c].at \in Nat
    <2>1. \A c \in DOMAIN claims : claims[c] \in ClaimType
      BY <1>1 DEF ClaimsTyped
    <2> QED
      BY <2>1 DEF ClaimType
  <1>3. ClaimsTyped'
    BY <1>1, <1>2 DEF ClaimsTyped, RequestType, PoliciesTypeOK
  <1>4. BurstInv'
    BY <1>1, Zenon DEF BurstInv, Unseen, Of
  <1>5. KeysInv'
    BY <1>1 DEF KeysInv, Key
  <1>6. BooksInv' /\ OwnedInv' /\ PaidInv'
    BY <1>1 DEF BooksInv, OwnedInv, Key, PaidInv
  <1> QED
    BY <1>3, <1>4, <1>5, <1>6 DEF ClaimsInv

\* A worker's claim: no other request is going over the policies.
LEMMA InitiateStep ==
  ASSUME ClaimsInv, PoliciesTypeOK, request = NoRequest, NEW i \in DOMAIN policies, NEW e \in Incidents,
         NEW a \in Amounts, NEW outcome \in Outcomes, Initiate(i, e, a, outcome)
  PROVE  ClaimsInv'
  <1>1. PICK score : Enter(NewClaim(i, e, "manual", Lane(policies[i].worker, score)), outcome)
    BY DEF Initiate
  <1>2. PICK lane : lane = Lane(policies[i].worker, score)
    OBVIOUS
  <1>3. lane \in Lanes /\ (lane = "approved" => ~Burst(policies[i].worker))
    BY <1>2, LaneKnown
  <1>4. Enter(NewClaim(i, e, "manual", lane), outcome)
    BY <1>1, <1>2
  <1>5. ~Known(<<policies[i].worker, i, e>>) /\ now' = now /\ request' = request
    BY DEF Initiate, policyVars
  <1>6. request' \in RequestType /\ ~(request'.next > 0)
    BY <1>5 DEF NoRequest, RequestType, Outcomes
  <1>7. request'.next > 0 =>
            /\ request'.incident \in Incidents
            /\ e = request'.incident => i < request'.next
            /\ \A c \in DOMAIN claims :
                  claims[c].incident = request'.incident => claims[c].policy < request'.next
    BY <1>6
  <1>8. "manual" \in Types
    BY DEF Types
  <1> QED
    BY <1>3, <1>4, <1>5, <1>6, <1>7, <1>8, EnterStep

\* A policy of an ingested trigger: the claims of its incident are on policies
\* that come before.
LEMMA AutoInitiateStep ==
  ASSUME ClaimsInv, PoliciesTypeOK, AutoInitiate
  PROVE  ClaimsInv'
  <1>1. ClaimsTyped /\ KeysInv
    BY DEF ClaimsInv
  <1>2. PICK i : i = request.next
    OBVIOUS
  <1>3. PICK e : e = request.incident
    OBVIOUS
  <1>4. PICK outcome : outcome = request.outcome
    OBVIOUS
  <1>5. i \in DOMAIN policies /\ i \in Nat /\ i > 0
    BY <1>2 DEF AutoInitiate, PoliciesTypeOK
  <1>6. e \in Incidents /\ outcome \in Outcomes
    BY <1>1, <1>2, <1>3, <1>4, <1>5 DEF ClaimsTyped, KeysInv
  <1>7. \A c \in DOMAIN claims : claims[c].incident = e => claims[c].policy < i
    BY <1>1, <1>2, <1>3, <1>5 DEF KeysInv
  <1>8. \A c \in DOMAIN claims : claims[c].policy \in Nat
    <2>1. \A c \in DOMAIN claims : claims[c] \in ClaimType
      BY <1>1 DEF ClaimsTyped
    <2> QED
      BY <2>1 DEF ClaimType
  <1>9. ~Known(<<policies[i].worker, i, e>>)
    BY <1>5, <1>7, <1>8 DEF Known, Key
  <1>10. now' = now /\ request' = [request EXCEPT !.next = @ + 1]
    BY DEF AutoInitiate, policyVars
  <1>11. request' \in RequestType /\ request'.next = i + 1 /\ request'.incident = e
    BY <1>1, <1>2, <1>3, <1>10 DEF ClaimsTyped, RequestType
  <1>12. request'.next > 0 =>
            /\ request'.incident \in Incidents
            /\ e = request'.incident => i < request'.next
            /\ \A c \in DOMAIN claims :
                  claims[c].incident = request'.incident => claims[c].policy < request'.next
    BY <1>5, <1>6, <1>7, <1>8, <1>11
  <1>13. CASE Eligible(i, e) /\ Claimable(i, e)
    <2>1. PICK lane : /\ \E score : lane = Lane(policies[i].worker, score)
                      /\ Enter(NewClaim(i, e, Event[e].type, lane), outcome)
      BY <1>2, <1>3, <1>4, <1>13 DEF AutoInitiate
    <2>2. lane \in Lanes /\ (lane = "approved" => ~Burst(policies[i].worker))
      BY <2>1, LaneKnown
    <2>3. Event[e].type \in Types
      BY <1>6 DEF Types
    <2> QED
      BY <1>5, <1>6, <1>9, <1>10, <1>11, <1>12, <2>1, <2>2, <2>3, EnterStep
  <1>14. CASE ~(Eligible(i, e) /\ Claimable(i, e))
    <2>1. UNCHANGED <<claims, payouts, ledger>>
      BY <1>2, <1>3, <1>14 DEF AutoInitiate
    <2>2. now' \in Nat /\ now <= now'
      BY <1>10 DEF PoliciesTypeOK
    <2> QED
      BY <1>11, <1>12, <2>1, <2>2, KeptStep
  <1> QED
    BY <1>13, <1>14

\* What the policies do takes no time back.
LEMMA PoliciesTime ==
  ASSUME PoliciesTypeOK, PoliciesNext
  PROVE  now' \in Nat /\ now <= now'
  <1>1. now \in Nat
    BY DEF PoliciesTypeOK
  <1>2. now' = now \/ now' = now + 1
    BY DEF PoliciesNext, Register, UpdateProfile, Purchase, Renew, Cancel, ReadPolicy, ListPolicies, Tick
  <1> QED
    BY <1>1, <1>2

LEMMA ClaimsInit == Init => ClaimsInv
  <1> SUFFICES ASSUME Init PROVE ClaimsInv
    OBVIOUS
  <1>1. claims = <<>> /\ payouts = <<>> /\ ledger = <<>> /\ request = NoRequest
    BY DEF Init
  <1>2. DOMAIN claims = {} /\ DOMAIN payouts = {} /\ Len(ledger) = 0 /\ Len(payouts) = 0
    BY <1>1
  <1>3. request \in RequestType /\ ~(request.next > 0)
    BY <1>1 DEF NoRequest, RequestType, Outcomes
  <1>4. ClaimsTyped
    BY <1>1, <1>2, <1>3 DEF ClaimsTyped, RequestType
  <1>5. BurstInv
    <2>1. ASSUME NEW w \in Workers, NEW t \in Int PROVE Cardinality(Unseen(w, t)) < BurstLimit
      <3>1. Unseen(w, t) = {}
        BY <1>2 DEF Unseen, Of
      <3> QED
        BY <3>1, FS_EmptySet, ClaimConstants
    <2> QED
      BY <2>1 DEF BurstInv
  <1>6. BooksInv /\ KeysInv /\ OwnedInv /\ PaidInv
    BY <1>2, <1>3 DEF BooksInv, KeysInv, OwnedInv, PaidInv
  <1> QED
    BY <1>4, <1>5, <1>6 DEF ClaimsInv

LEMMA ClaimsStep == CoverInv /\ ClaimsInv /\ [Next]_vars => ClaimsInv'
  <1> SUFFICES ASSUME CoverInv, ClaimsInv, [Next]_vars PROVE ClaimsInv'
    OBVIOUS
  <1>1. PoliciesTypeOK /\ now \in Nat /\ request \in RequestType /\ KeysInv
    BY DEF CoverInv, PoliciesTypeOK, ClaimsInv, ClaimsTyped, RequestType
  <1>2. Answers \subseteq Outcomes
    BY ClaimConstants DEF Outcomes
  <1>3. NoRequest \in RequestType /\ ~(NoRequest.next > 0)
    BY DEF NoRequest, RequestType, Outcomes
  <1>4. CASE request = NoRequest /\ Request
    <2>1. ASSUME PoliciesNext, UNCHANGED claimVars PROVE ClaimsInv'
      BY <1>1, <1>3, <1>4, <2>1, PoliciesTime, KeptStep DEF claimVars
    <2>2. ASSUME NEW i \in DOMAIN policies, NEW e \in Incidents, NEW a \in Amounts, NEW o \in Answers,
                 Initiate(i, e, a, o)
          PROVE  ClaimsInv'
      BY <1>1, <1>2, <1>4, <2>2, InitiateStep
    <2>3. ASSUME NEW e \in Incidents, NEW o \in Answers, Ingest(e, o) PROVE ClaimsInv'
      <3>1. request' = [incident |-> e, next |-> 1, outcome |-> o]
        BY <2>3 DEF Ingest
      <3>2. request' \in RequestType /\ request'.incident = e
        BY <1>2, <3>1 DEF RequestType
      <3>3. UNCHANGED <<now, claims, payouts, ledger>> /\ \A c \in DOMAIN claims : claims[c].incident # e
        BY <2>3 DEF Ingest, policyVars
      <3> QED
        BY <1>1, <3>2, <3>3, KeptStep
    <2>4. ASSUME NEW c \in DOMAIN claims, Reject(c) PROVE ClaimsInv'
      BY <2>4, RejectStep
    <2>5. ASSUME NEW c \in DOMAIN claims, NEW o \in Answers, Approve(c, o) PROVE ClaimsInv'
      BY <1>2, <2>5, ApproveStep
    <2>6. ASSUME NEW p \in DOMAIN payouts, NEW o \in Answers, RetryPayout(p, o) PROVE ClaimsInv'
      <3>1. PICK taken \in BOOLEAN : taken = (payouts[p].status = "failed")
        OBVIOUS
      <3>2. Settle(p, taken, o) /\ o \in Outcomes
        BY <1>2, <2>6, <3>1 DEF RetryPayout
      <3> QED
        BY <3>1, <3>2, SettleStep
    <2>7. ASSUME NEW p \in DOMAIN payouts, NEW o \in {"success", "failed"}, ResolvePayout(p, o)
          PROVE  ClaimsInv'
      <3>1. PICK taken \in BOOLEAN : taken = (payouts[p].status = "pending")
        OBVIOUS
      <3>2. Settle(p, taken, o) /\ o \in Outcomes
        BY <2>7, <3>1 DEF ResolvePayout, Outcomes
      <3> QED
        BY <3>1, <3>2, SettleStep
    <2>8. ASSUME NEW t \in Thresholds, SetThresholds(t) PROVE ClaimsInv'
      BY <1>1, <1>3, <1>4, <2>8, KeptStep DEF SetThresholds
    <2> QED
      BY <1>4, <2>1, <2>2, <2>3, <2>4, <2>5, <2>6, <2>7, <2>8 DEF Request
  <1>5. CASE AutoInitiate
    BY <1>1, <1>5, AutoInitiateStep
  <1>6. CASE Answer
    <2>1. request' = NoRequest /\ UNCHANGED <<now, claims, payouts, ledger>>
      BY <1>6 DEF Answer, policyVars
    <2> QED
      BY <1>1, <1>3, <2>1, KeptStep
  <1>7. CASE UNCHANGED vars
    <2>1. UNCHANGED <<now, claims, payouts, ledger, request>>
      BY <1>7 DEF vars, policyVars, claimVars
    <2> QED
      BY <1>1, <2>1, KeptStep DEF KeysInv
  <1> QED
    BY <1>4, <1>5, <1>6, <1>7 DEF Next

LEMMA PrototypeInvariant == Spec => [](CoverInv /\ ClaimsInv)
  <1>1. Init => CoverInv /\ ClaimsInv
    BY CoverInit, ClaimsInit DEF Init
  <1> QED
    BY <1>1, ClaimsCoverStep, ClaimsStep, PTL DEF Spec

\* However a worker's claims come, by hand or from triggers, on one policy or on
\* several, fewer than a burst of them are approved within a burst's time when no
\* reviewer has looked at them.
THEOREM BurstsAreBounded == Spec => []BurstBounded
  <1>1. ClaimsInv => BurstBounded
    <2> SUFFICES ASSUME ClaimsInv, NEW c \in DOMAIN claims
                 PROVE  Cardinality(Unseen(claims[c].worker, claims[c].at)) < BurstLimit
      BY DEF BurstBounded, Unseen
    <2>1. claims[c] \in ClaimType
      BY DEF ClaimsInv, ClaimsTyped
    <2>2. claims[c].worker \in Workers /\ claims[c].at \in Int
      BY <2>1 DEF ClaimType
    <2> QED
      BY <2>2 DEF ClaimsInv, BurstInv
  <1> QED
    BY <1>1, PrototypeInvariant, PTL

\* Whatever the payout adapter answers, and however often payouts are retried or
\* resolved and claims decided again, payouts and ledger agree, a claim is paid
\* by one payout that succeeded, and no payout is made for a claim that was
\* neither approved at once nor decided by a reviewer.
THEOREM MoneyIsAccounted == Spec => []MoneyAccounted
  <1>1. ClaimsInv => MoneyAccounted
    <2> SUFFICES ASSUME ClaimsInv PROVE MoneyAccounted
      OBVIOUS
    <2>1. ClaimsTyped /\ BooksInv /\ KeysInv /\ OwnedInv /\ PaidInv
      BY DEF ClaimsInv
    <2>2. DOMAIN ledger = DOMAIN payouts
      BY <2>1 DEF ClaimsTyped, BooksInv
    <2>3. \A p \in DOMAIN payouts :
             \E l \in DOMAIN ledger : /\ ledger[l].payout = p
                                      /\ ledger[l].status = LedgerStatus(payouts[p].status)
                                      /\ \A k \in DOMAIN ledger : ledger[k].payout = p => k = l
      BY <2>1, <2>2 DEF BooksInv
    <2>4. \A p, q \in DOMAIN payouts :
             payouts[p].claim = payouts[q].claim \/ payouts[p].key = payouts[q].key => p = q
      BY <2>1 DEF OwnedInv, KeysInv
    <2>5. BooksAgree
      BY <2>3, <2>4 DEF BooksAgree
    <2> QED
      BY <2>1, <2>5 DEF MoneyAccounted, PaidInv
  <1> QED
    BY <1>1, PrototypeInvariant, PTL

=============================================================================
