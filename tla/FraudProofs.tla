----------------------------- MODULE FraudProofs -----------------------------
(***************************************************************************)
(* Proofs about the stand-alone fraud service, the analysis of fraud       *)
(* clusters, and the lists that are read page by page, for any claims,     *)
(* signals, workers, rows, page sizes and concurrent requests.             *)
(***************************************************************************)
EXTENDS FraudService, FraudClusters, Listings, FiniteSetTheorems, TLAPS

-----------------------------------------------------------------------------
(* The fraud service.                                                      *)

Severities == {"LOW", "MEDIUM", "HIGH", "CRITICAL"}

(* What DecisionsGrounded asks of a stored assessment. *)
Grounded(r) == IF r.decision = "block" THEN Critical(r.flags) \/ Four(r.flags)
               ELSE r.own = "rejected"

(* A result is grounded from the moment it is worked out. *)
ScoreInv ==
  /\ standing \in [Filed -> Standings \cup {"absent"}]
  /\ DOMAIN scoring = Scorings /\ DOMAIN assessed = Asked
  /\ \A q \in Scorings :
        scoring[q].step # "rest" => scoring[q].result.claim \in Asked /\ Grounded(scoring[q].result)
  /\ \A c \in Asked : assessed[c] # NoResult => Grounded(assessed[c])

(* Below 25.5 tenths the rules alone do not reach the highest tier: without *)
(* one of the four that can trigger, the weights add up to 24 at most.       *)
LEMMA FourNeeded ==
  ASSUME NEW f, f.travel = "LOW",
         f.velocity \in Severities \ {"CRITICAL"}, f.device \in Severities \ {"CRITICAL", "HIGH"},
         f.beneficiary \in Severities \ {"CRITICAL"}, f.timing \in Severities \ {"CRITICAL"},
         ~Critical(f), RuleScore(f) >= 8500
  PROVE  Four(f)
<1>1. /\ Weight(f.travel) = 0 /\ Weight(f.device) \in {0, 5}
      /\ Weight(f.velocity) \in {0, 5, 8} /\ Weight(f.beneficiary) \in {0, 5, 8}
      /\ Weight(f.timing) \in {0, 5, 8}
  BY DEF Weight, Severities
<1>2. \A s \in {"LOW"} : Weight(s) = 0
  BY DEF Weight
<1>3. WeightSum(f) \in Nat /\ (1000 * WeightSum(f) + 1) \div 3 >= 8500
  BY <1>1 DEF RuleScore, Cap, WeightSum
<1>4. WeightSum(f) >= 25
  <2>1. \A n \in Nat : n \div 3 >= 8500 => n >= 25500
    OBVIOUS
  <2>2. 1000 * WeightSum(f) + 1 \in Nat
    BY <1>3
  <2> QED
    BY <1>3, <2>1, <2>2
<1>5. /\ Weight(f.velocity) # 0 /\ Weight(f.device) # 0
      /\ Weight(f.beneficiary) # 0 /\ Weight(f.timing) # 0
  <2>1. \A v, d, b, t \in Int :
          /\ v \in {0, 5, 8} /\ d \in {0, 5} /\ b \in {0, 5, 8} /\ t \in {0, 5, 8}
          /\ v + d + 0 + b + t >= 25
          => v # 0 /\ d # 0 /\ b # 0 /\ t # 0
    OBVIOUS
  <2> QED
    BY <2>1, <1>1, <1>4 DEF WeightSum
<1> QED
  BY <1>2, <1>5 DEF Four

(* The model's part of the score stays below the highest tier. *)
LEMMA ModelBelow ==
  ASSUME ScoringAssumption, NEW s \in Signals
  PROVE  (6 * ModelScore(s)) \div 10 \in Int /\ (6 * ModelScore(s)) \div 10 <= 6000
<1>1. s.ml \in Int /\ s.ml <= 10000
  <2>1. s \in SignalType
    BY DEF ScoringAssumption
  <2> QED
    BY <2>1 DEF SignalType
<1>2. ModelScore(s) \in Int /\ ModelScore(s) <= 10000
  BY <1>1 DEF ModelScore
<1>3. \A n \in Int : n <= 10000 => (6 * n) \div 10 \in Int /\ (6 * n) \div 10 <= 6000
  <2>1. ASSUME NEW k \in Int, k <= 60000 PROVE k \div 10 <= 6000
    BY <2>1
  <2>2. ASSUME NEW n \in Int, n <= 10000 PROVE (6 * n) \div 10 <= 6000
    <3>1. 6 * n \in Int /\ 6 * n <= 60000
      BY <2>2
    <3> QED
      BY <3>1, <2>1
  <2>3. ASSUME NEW n \in Int PROVE (6 * n) \div 10 \in Int
    OBVIOUS
  <2> QED
    BY <2>2, <2>3
<1> QED
  BY <1>2, <1>3

(* Whatever is read, a result is grounded. *)
LEMMA AssessmentGrounded ==
  ASSUME ScoringAssumption, NEW c \in Asked, NEW s \in Signals, standing[c] # "absent"
  PROVE  Assessment(c, s).claim = c /\ Grounded(Assessment(c, s))
<1> DEFINE f == RunRules(c, s)
           score == FinalScore(f, ModelScore(s))
<1>1. c \in Filed /\ s \in SignalType
  BY DEF ScoringAssumption
<1>2. /\ f.travel = "LOW"
      /\ f.velocity \in Severities \ {"CRITICAL"} /\ f.device \in Severities \ {"CRITICAL", "HIGH"}
      /\ f.beneficiary \in Severities /\ f.timing \in Severities \ {"CRITICAL"}
  BY DEF RunRules, ImpossibleTravel, Velocity, DeviceConsistency, BeneficiaryReuse, TimingAbuse,
         Severity, Severities
<1>3. CASE Critical(f)
  <2>1. score = 10000
    BY <1>3 DEF FinalScore
  <2>2. Decide(RiskTier(score)) = "block"
    BY <2>1 DEF RiskTier, Decide
  <2> QED
    BY <1>3, <2>2 DEF Assessment, Grounded
<1>4. CASE ~Critical(f)
  <2>1. standing[c] = "rejected"
    <3>1. f.duplicate # "CRITICAL"
      BY <1>4 DEF Critical
    <3> QED
      BY <3>1, <1>1 DEF RunRules, DuplicateClaim, Severity
  <2>2. ASSUME Decide(RiskTier(score)) = "block" PROVE Four(f)
    <3>1. RiskTier(score) = "CRITICAL"
      BY <2>2 DEF Decide
    <3>2. score >= 8500
      BY <3>1 DEF RiskTier
    <3>3. RuleScore(f) >= 8500
      <4>1. (6 * ModelScore(s)) \div 10 <= 6000 /\ (6 * ModelScore(s)) \div 10 \in Int
        BY ModelBelow
      <4> DEFINE x == (6 * ModelScore(s)) \div 10
      <4>3. score = IF RuleScore(f) >= x THEN RuleScore(f) ELSE x
        BY <1>4 DEF FinalScore
      <4>4. \A n \in Int : n <= 6000 => ~(n >= 8500)
        OBVIOUS
      <4>5. ~(x >= 8500)
        BY <4>1, <4>4
      <4> HIDE DEF x, f, score
      <4> QED
        BY <3>2, <4>3, <4>5
    <3>4. f.beneficiary # "CRITICAL"
      BY <1>4 DEF Critical
    <3> HIDE DEF f
    <3> QED
      BY <1>2, <1>4, <3>3, <3>4, FourNeeded
  <2> QED
    BY <2>1, <2>2 DEF Assessment, Grounded
<1> QED
  BY <1>3, <1>4

LEMMA ScoringStarts == ASSUME ScoringInit PROVE ScoreInv
BY DEF ScoringInit, ScoreInv, AtRest

LEMMA ScoringStep ==
  ASSUME ScoringAssumption, ScoreInv, [ScoringNext]_scoringVars
  PROVE  ScoreInv'
<1> USE DEF ScoreInv
<1>1. ASSUME NEW q \in Scorings, NEW c \in Asked, ReadAndScore(q, c) PROVE ScoreInv'
  <2>1. PICK s \in Signals : Continue(q, "store", Assessment(c, s))
    BY <1>1 DEF ReadAndScore
  <2>2. Assessment(c, s).claim = c /\ Grounded(Assessment(c, s))
    BY <1>1, AssessmentGrounded DEF ReadAndScore
  <2> QED
    BY <1>1, <2>1, <2>2 DEF ReadAndScore, Continue, Grounded
<1>2. ASSUME NEW q \in Scorings, StoreAssessment(q) PROVE ScoreInv'
  <2>1. scoring[q].result.claim \in Asked /\ Grounded(scoring[q].result)
    BY <1>2 DEF StoreAssessment
  <2> QED
    BY <1>2, <2>1 DEF StoreAssessment, Continue, Grounded
<1>3. ASSUME NEW q \in Scorings, AnnounceScore(q) \/ ScoringFails(q) PROVE ScoreInv'
  BY <1>3 DEF AnnounceScore, ScoringFails, Continue, Grounded
<1>4. CASE ServiceRestarts
  BY <1>4 DEF ServiceRestarts, AtRest, Grounded
<1>5. ASSUME NEW c \in Filed, FileClaim(c) \/ MoveClaim(c) PROVE ScoreInv'
  <2>1. standing' \in [Filed -> Standings \cup {"absent"}]
    BY <1>5 DEF FileClaim, MoveClaim, ScoringAssumption
  <2> QED
    BY <1>5, <2>1 DEF FileClaim, MoveClaim, Grounded
<1>6. CASE ReplaceModelFile \/ DayPasses \/ UNCHANGED scoringVars
  BY <1>6 DEF ReplaceModelFile, DayPasses, scoringVars, Grounded
<1> QED
  BY <1>1, <1>2, <1>3, <1>4, <1>5, <1>6 DEF ScoringNext

(* A stored decision to block rests on a critical rule or on all four      *)
(* others, and what is not blocked had been rejected, for any claims,      *)
(* signals, requests, failures and restarts of the service.                *)
THEOREM DecisionsAreGrounded == ScoringSpec => []DecisionsGrounded
<1>1. ScoreInv => DecisionsGrounded
  BY DEF ScoreInv, DecisionsGrounded, Grounded
<1> QED
  BY <1>1, ScoringStarts, ScoringStep, ScoringAssumption, PTL DEF ScoringSpec

-----------------------------------------------------------------------------
(* The analysis of fraud clusters.                                         *)

FoundType == [node: Fingerprints \cup Zones, members: SUBSET Couriers]

RowType == [node: Fingerprints \cup Zones, members: SUBSET Couriers,
            open: SUBSET Incidents, by: Analyses]

OneRowPerNode(S) == \A r, q \in S : r.node = q.node => r = q

OwnedByMembers(r) == \A i \in r.open : By[i] \in r.members

(* What an open transaction holds: every node at most once, either still to *)
(* be looked at or added; until it commits, nothing of its own stands under *)
(* the nodes it has added.                                                  *)
AnalysisInv(s) ==
  LET a == analysis[s] IN
  /\ a.step = "none" => a = NotRunning
  /\ a.step = "zones" => (\A f \in a.found : f.node \in Fingerprints) /\ a.added = {}
  /\ OneRowPerNode(a.found) /\ OneRowPerNode(a.added)
  /\ \A f \in a.found, r \in a.added : f.node # r.node
  /\ a.tags = UNION {r.open : r \in a.added}
  /\ \A r \in a.added : r.by = s /\ OwnedByMembers(r)
  /\ \A r \in a.added, q \in clusters : q.by = s => q.node # r.node

AnalysisType == [step: {"none", "zones", "persist"}, found: SUBSET FoundType,
                 added: SUBSET RowType, tags: SUBSET Incidents]

GraphTyped ==
  /\ filing \in [Incidents -> {"absent", "in_review", "settled"}]
  /\ late \subseteq Incidents /\ clusters \subseteq RowType
  /\ analysis \in [Analyses -> AnalysisType]

GraphInv ==
  /\ GraphTyped
  /\ ClustersConsistent
  /\ \A s \in Analyses : AnalysisInv(s)

LEMMA FoundTyped ==
  ASSUME ClusterAssumption, GraphTyped
  PROVE  /\ DeviceClusters \subseteq FoundType /\ ZoneClusters \subseteq FoundType
         /\ \A f \in DeviceClusters : f.node \in Fingerprints
         /\ \A f \in ZoneClusters : f.node \in Zones
         /\ OneRowPerNode(DeviceClusters) /\ OneRowPerNode(ZoneClusters)
<1>1. \A z : Bursting(z) \subseteq Couriers
  BY DEF Bursting, ClusterAssumption, GraphTyped
<1>2. DeviceClusters \subseteq FoundType /\ \A f \in DeviceClusters : f.node \in Fingerprints
  <2>1. \A d : Sharing(d) \subseteq Couriers
    BY DEF Sharing
  <2> QED
    BY <2>1 DEF DeviceClusters, FoundType
<1>3. ZoneClusters \subseteq FoundType /\ \A f \in ZoneClusters : f.node \in Zones
  BY <1>1 DEF ZoneClusters, FoundType
<1>4. \A f \in DeviceClusters : f = [node |-> f.node, members |-> Sharing(f.node)]
  BY DEF DeviceClusters
<1>5. \A f \in ZoneClusters : f = [node |-> f.node, members |-> Bursting(f.node)]
  BY DEF ZoneClusters
<1> QED
  BY <1>2, <1>3, <1>4, <1>5 DEF OneRowPerNode

LEMMA GraphStarts == ASSUME GraphInit PROVE GraphInv
BY DEF GraphInit, GraphInv, GraphTyped, AnalysisType, NotRunning, ClustersConsistent, AnalysisInv, OneRowPerNode

(* A step of one analysis that leaves what is committed alone. *)
LEMMA OnlyOne ==
  ASSUME GraphInv, NEW s \in Analyses, NEW a,
         analysis' = [analysis EXCEPT ![s] = a],
         UNCHANGED <<filing, late, tagged, clusters>>, GraphTyped',
         AnalysisInv(s)'
  PROVE  GraphInv'
<1>1. ClustersConsistent'
  BY DEF GraphInv, ClustersConsistent
<1>2. ASSUME NEW t \in Analyses, t # s PROVE AnalysisInv(t)'
  <2>1. analysis'[t] = analysis[t]
    BY <1>2 DEF GraphInv, GraphTyped
  <2> QED
    BY <2>1 DEF GraphInv, AnalysisInv, OneRowPerNode, OwnedByMembers, NotRunning
<1> QED
  BY <1>1, <1>2 DEF GraphInv

LEMMA BuildStep ==
  ASSUME ClusterAssumption, GraphInv, NEW s \in Analyses, BuildGraph(s)
  PROVE  GraphInv'
<1> DEFINE a == [analysis[s] EXCEPT !.step = "zones", !.found = DeviceClusters]
<1>1. /\ analysis' = [analysis EXCEPT ![s] = a]
      /\ a.step = "zones" /\ a.found = DeviceClusters /\ a.added = {} /\ a.tags = {}
  BY DEF BuildGraph, Holds, GraphInv, GraphTyped, AnalysisType, NotRunning
<1>2. /\ DeviceClusters \subseteq FoundType /\ OneRowPerNode(DeviceClusters)
      /\ \A f \in DeviceClusters : f.node \in Fingerprints
  BY FoundTyped DEF GraphInv
<1>3. GraphTyped' /\ analysis'[s] = a
  BY <1>1, <1>2 DEF BuildGraph, Holds, GraphInv, GraphTyped, AnalysisType
<1>4. AnalysisInv(s)'
  BY <1>1, <1>2, <1>3 DEF AnalysisInv, OneRowPerNode
<1> QED
  BY <1>1, <1>3, <1>4, OnlyOne DEF BuildGraph, Holds

LEMMA BurstStep ==
  ASSUME ClusterAssumption, GraphInv, NEW s \in Analyses, FindBursts(s)
  PROVE  GraphInv'
<1> DEFINE a == [analysis[s] EXCEPT !.step = "persist", !.found = @ \cup ZoneClusters]
<1>1. /\ analysis' = [analysis EXCEPT ![s] = a]
      /\ a.step = "persist" /\ a.found = analysis[s].found \cup ZoneClusters
      /\ a.added = {} /\ a.tags = analysis[s].tags
  <2>1. analysis[s] \in AnalysisType
    BY DEF GraphInv, GraphTyped
  <2>2. analysis[s].added = {}
    BY DEF FindBursts, Holds, GraphInv, AnalysisInv
  <2> QED
    BY <2>1, <2>2 DEF FindBursts, Holds, AnalysisType
<1>2. /\ ZoneClusters \subseteq FoundType /\ OneRowPerNode(ZoneClusters)
      /\ \A f \in ZoneClusters : f.node \in Zones
  BY FoundTyped DEF GraphInv
<1>3. GraphTyped' /\ analysis'[s] = a
  <2>1. analysis[s] \in AnalysisType
    BY DEF GraphInv, GraphTyped
  <2>2. a \in AnalysisType
    BY <1>1, <1>2, <2>1 DEF AnalysisType
  <2> HIDE DEF a
  <2> QED
    BY <1>1, <2>2 DEF FindBursts, Holds, GraphInv, GraphTyped
<1>4. OneRowPerNode(a.found)
  <2>1. /\ OneRowPerNode(analysis[s].found)
        /\ \A f \in analysis[s].found : f.node \in Fingerprints
    BY DEF FindBursts, Holds, GraphInv, AnalysisInv
  <2> QED
    BY <1>1, <1>2, <2>1 DEF OneRowPerNode, ClusterAssumption
<1>5. AnalysisInv(s)'
  <2>1. analysis[s].tags = UNION {r.open : r \in analysis[s].added} /\ analysis[s].added = {}
    BY DEF FindBursts, Holds, GraphInv, AnalysisInv
  <2> HIDE DEF a
  <2> QED
    BY <1>1, <1>3, <1>4, <2>1 DEF AnalysisInv, OneRowPerNode
<1> QED
  BY <1>1, <1>3, <1>5, OnlyOne DEF FindBursts, Holds

LEMMA SkipStep ==
  ASSUME GraphInv, NEW s \in Analyses, SkipCluster(s)
  PROVE  GraphInv'
<1>1. PICK f \in analysis[s].found : Holds(s, [analysis[s] EXCEPT !.found = @ \ {f}])
  BY DEF SkipCluster, Holds
<1> DEFINE a == [analysis[s] EXCEPT !.found = @ \ {f}]
<1>2. /\ analysis' = [analysis EXCEPT ![s] = a]
      /\ a.step = "persist" /\ a.found = analysis[s].found \ {f}
      /\ a.added = analysis[s].added /\ a.tags = analysis[s].tags
  <2>1. analysis[s] \in AnalysisType
    BY DEF GraphInv, GraphTyped
  <2> QED
    BY <1>1, <2>1 DEF SkipCluster, Holds, AnalysisType
<1>3. GraphTyped' /\ analysis'[s] = a
  <2>1. analysis[s] \in AnalysisType
    BY DEF GraphInv, GraphTyped
  <2>2. a \in AnalysisType
    BY <1>1, <1>2, <2>1 DEF AnalysisType
  <2> HIDE DEF a
  <2> QED
    BY <1>2, <2>2 DEF SkipCluster, Holds, GraphInv, GraphTyped
<1>4. AnalysisInv(s)'
  <2> HIDE DEF a
  <2>1. clusters' = clusters /\ AnalysisInv(s)
    BY DEF SkipCluster, GraphInv
  <2> QED
    BY <1>2, <1>3, <2>1 DEF AnalysisInv, OneRowPerNode, OwnedByMembers
<1> QED
  BY <1>2, <1>3, <1>4, OnlyOne DEF SkipCluster, Holds

LEMMA PersistStep ==
  ASSUME GraphInv, NEW s \in Analyses, PersistCluster(s)
  PROVE  GraphInv'
<1>1. PICK f \in analysis[s].found :
         LET open == OpenClaims(f.members)
             row == [node |-> f.node, members |-> f.members, open |-> open, by |-> s]
         IN  /\ ~AlreadyExists(f.node)
             /\ Holds(s, [analysis[s] EXCEPT !.found = @ \ {f}, !.added = @ \cup {row},
                                             !.tags = @ \cup open])
  BY DEF PersistCluster, Holds
<1> DEFINE open == OpenClaims(f.members)
           row == [node |-> f.node, members |-> f.members, open |-> open, by |-> s]
           a == [analysis[s] EXCEPT !.found = @ \ {f}, !.added = @ \cup {row}, !.tags = @ \cup open]
<1>2. /\ analysis' = [analysis EXCEPT ![s] = a]
      /\ a.step = "persist" /\ a.found = analysis[s].found \ {f}
      /\ a.added = analysis[s].added \cup {row} /\ a.tags = analysis[s].tags \cup open
  <2>1. analysis[s] \in AnalysisType
    BY DEF GraphInv, GraphTyped
  <2> QED
    BY <1>1, <2>1 DEF PersistCluster, Holds, AnalysisType
<1>3. f \in FoundType /\ row \in RowType /\ OwnedByMembers(row) /\ row.node = f.node /\ row.by = s
      /\ row.open = open /\ open \subseteq Incidents
  BY DEF GraphInv, GraphTyped, AnalysisType, FoundType, RowType, OpenClaims, OwnedByMembers
<1>4. GraphTyped' /\ analysis'[s] = a
  <2>1. analysis[s] \in AnalysisType
    BY DEF GraphInv, GraphTyped
  <2> HIDE DEF row, open
  <2>2. a \in AnalysisType
    BY <1>3, <2>1 DEF AnalysisType
  <2> HIDE DEF a
  <2> QED
    BY <1>2, <2>2 DEF PersistCluster, Holds, GraphInv, GraphTyped
<1>5. \A q \in clusters : q.node # f.node
  BY <1>1 DEF AlreadyExists
<1>6. /\ OneRowPerNode(analysis[s].found) /\ OneRowPerNode(analysis[s].added)
      /\ \A g \in analysis[s].found, r \in analysis[s].added : g.node # r.node
      /\ analysis[s].tags = UNION {r.open : r \in analysis[s].added}
      /\ \A r \in analysis[s].added : r.by = s /\ OwnedByMembers(r)
      /\ \A r \in analysis[s].added, q \in clusters : q.by = s => q.node # r.node
  BY DEF GraphInv, AnalysisInv
<1>7. AnalysisInv(s)'
  <2> HIDE DEF a, row, open
  <2>1. UNION {r.open : r \in analysis[s].added \cup {row}}
        = (UNION {r.open : r \in analysis[s].added}) \cup row.open
    OBVIOUS
  <2>2. clusters' = clusters
    BY DEF PersistCluster, Holds
  <2>3. /\ OneRowPerNode(a.found) /\ OneRowPerNode(a.added)
        /\ \A g \in a.found, r \in a.added : g.node # r.node
    BY <1>2, <1>3, <1>6 DEF OneRowPerNode
  <2>4. a.tags = UNION {r.open : r \in a.added}
    BY <1>2, <1>3, <1>6, <2>1
  <2>5. /\ \A r \in a.added : r.by = s /\ \A i \in r.open : By[i] \in r.members
        /\ \A r \in a.added, q \in clusters : q.by = s => q.node # r.node
    BY <1>2, <1>3, <1>5, <1>6 DEF OwnedByMembers
  <2>6. AnalysisInv(s)' <=>
          /\ a.step = "none" => a = NotRunning
          /\ a.step = "zones" => (\A g \in a.found : g.node \in Fingerprints) /\ a.added = {}
          /\ OneRowPerNode(a.found) /\ OneRowPerNode(a.added)
          /\ \A g \in a.found, r \in a.added : g.node # r.node
          /\ a.tags = UNION {r.open : r \in a.added}
          /\ \A r \in a.added : r.by = s /\ \A i \in r.open : By[i] \in r.members
          /\ \A r \in a.added, q \in clusters : q.by = s => q.node # r.node
    BY <1>4, <2>2 DEF AnalysisInv, OneRowPerNode, OwnedByMembers, NotRunning
  <2> QED
    BY <1>2, <2>3, <2>4, <2>5, <2>6
<1> QED
  BY <1>2, <1>4, <1>7, OnlyOne DEF PersistCluster, Holds

LEMMA RestingInv ==
  ASSUME NEW s \in Analyses, analysis[s] = NotRunning
  PROVE  AnalysisInv(s)
BY DEF AnalysisInv, NotRunning, OneRowPerNode

LEMMA CommitStep ==
  ASSUME GraphInv, NEW s \in Analyses, CommitAnalysis(s)
  PROVE  GraphInv'
<1> DEFINE new == analysis[s].added
<1>1. /\ clusters' = clusters \cup new /\ tagged' = tagged \cup analysis[s].tags
      /\ analysis' = [analysis EXCEPT ![s] = NotRunning]
  BY DEF CommitAnalysis, Holds
<1>2. /\ OneRowPerNode(new) /\ analysis[s].tags = UNION {r.open : r \in new}
      /\ \A r \in new : r.by = s /\ OwnedByMembers(r)
      /\ \A r \in new, q \in clusters : q.by = s => q.node # r.node
  BY DEF GraphInv, AnalysisInv
<1>3. new \subseteq RowType
  BY DEF GraphInv, GraphTyped, AnalysisType
<1>4. GraphTyped'
  BY <1>1, <1>3 DEF CommitAnalysis, Holds, GraphInv, GraphTyped, AnalysisType, NotRunning
<1>5. ClustersConsistent'
  <2> HIDE DEF new
  <2>1. \A r, q \in clusters \cup new : r.node = q.node /\ r.by = q.by => r = q
    BY <1>2 DEF GraphInv, ClustersConsistent, OneRowPerNode
  <2>2. tagged' = UNION {r.open : r \in clusters \cup new}
    BY <1>1, <1>2 DEF GraphInv, ClustersConsistent
  <2>3. \A r \in clusters \cup new : OwnedByMembers(r)
    BY <1>2 DEF GraphInv, ClustersConsistent, OwnedByMembers
  <2> QED
    BY <1>1, <2>1, <2>2, <2>3 DEF ClustersConsistent, OwnedByMembers
<1>6. ASSUME NEW t \in Analyses PROVE AnalysisInv(t)'
  <2>1. CASE t = s
    <3>1. analysis'[s] = NotRunning
      BY <1>1 DEF GraphInv, GraphTyped
    <3> QED
      BY <2>1, <3>1 DEF AnalysisInv, NotRunning, OneRowPerNode
  <2>2. CASE t # s
    <3>1. analysis'[t] = analysis[t]
      BY <1>1, <2>2 DEF GraphInv, GraphTyped
    <3>2. \A r \in analysis[t].added, q \in clusters' : q.by = t => q.node # r.node
      BY <1>1, <1>2, <2>2 DEF GraphInv, AnalysisInv
    <3> QED
      BY <3>1, <3>2 DEF GraphInv, AnalysisInv, OneRowPerNode, OwnedByMembers, NotRunning
  <2> QED
    BY <2>1, <2>2
<1> QED
  BY <1>4, <1>5, <1>6 DEF GraphInv

LEMMA GraphStep ==
  ASSUME ClusterAssumption, GraphInv, [GraphNext]_graphVars
  PROVE  GraphInv'
<1>1. ASSUME NEW s \in Analyses, AnalysisFails(s) PROVE GraphInv'
  <2>1. GraphTyped' /\ analysis'[s] = NotRunning
    BY <1>1 DEF AnalysisFails, Holds, GraphInv, GraphTyped, AnalysisType, NotRunning
  <2>2. AnalysisInv(s)'
    BY <2>1 DEF AnalysisInv, NotRunning, OneRowPerNode
  <2> QED
    BY <1>1, <2>1, <2>2, OnlyOne DEF AnalysisFails, Holds
<1>2. ASSUME UNCHANGED <<tagged, clusters, analysis>>, GraphTyped' PROVE GraphInv'
  BY <1>2 DEF GraphInv, ClustersConsistent, AnalysisInv, OneRowPerNode, OwnedByMembers, NotRunning
<1>3. ASSUME NEW w \in Couriers, NEW d \in Fingerprints, SeedWorker(w, d) PROVE GraphInv'
  <2>1. GraphTyped'
    BY <1>3 DEF SeedWorker, GraphInv, GraphTyped
  <2> QED
    BY <1>2, <1>3, <2>1 DEF SeedWorker
<1>4. ASSUME NEW i \in Incidents, FileIncident(i) \/ MoveIncident(i) PROVE GraphInv'
  <2>1. GraphTyped'
    BY <1>4 DEF FileIncident, MoveIncident, GraphInv, GraphTyped
  <2> QED
    BY <1>2, <1>4, <2>1 DEF FileIncident, MoveIncident
<1>5. CASE HalfHourPasses \/ UNCHANGED graphVars
  <2>1. GraphTyped'
    BY <1>5 DEF HalfHourPasses, graphVars, GraphInv, GraphTyped
  <2> QED
    BY <1>2, <1>5, <2>1 DEF HalfHourPasses, graphVars
<1> QED
  BY <1>1, <1>3, <1>4, <1>5, BuildStep, BurstStep, SkipStep, PersistStep, CommitStep DEF GraphNext

(* Rows and tags agree, a tag goes to a member's claim, and a node has at   *)
(* most one row of each analysis, for any workers, devices, zones, claims,  *)
(* sizes and analyses at once.                                              *)
THEOREM ClustersStayConsistent == GraphSpec => []ClustersConsistent
<1>1. GraphInv => ClustersConsistent
  BY DEF GraphInv
<1> QED
  BY <1>1, GraphStarts, GraphStep, ClusterAssumption, PTL DEF GraphSpec

-----------------------------------------------------------------------------
(* Lists read page by page.                                                *)

Tied(r) == \E s \in rows \ {r} : s.at = r.at

(* The rows that come before r whatever the order of rows of one time. *)
Before(r) == {q \in rows : q.at > r.at}

(* A first page: what it does not show lies beyond the row it ends with. *)
PageInv(a) ==
  /\ a.page \subseteq rows /\ a.known \subseteq rows
  /\ a.next \in rows \cup {NoCursor}
  /\ \A r \in a.known \ a.page : a.next # NoCursor /\ Newer(a.next, r)
  /\ a.next # NoCursor => \A r \in a.page : ~Newer(a.next, r)

(* What a reader by cursor has not seen lies beyond its cursor. *)
CursorInv(w) ==
  /\ w.shown \subseteq rows /\ w.known \subseteq rows
  /\ w.cursor \in rows \cup {NoCursor} /\ (w.done <=> w.cursor = NoCursor)
  /\ \A r \in w.known \ w.shown : ~w.done /\ Newer(w.cursor, r)
  /\ w.cursor # NoCursor => \A r \in w.shown : ~Newer(w.cursor, r)

(* What a reader by offset has not seen has, unless it shares its time,     *)
(* enough rows before it to come on a later page.                          *)
OffsetInv(w) ==
  /\ w.cursor = NoCursor /\ w.pages \in Nat /\ w.known \subseteq rows
  /\ \A r \in w.known \ w.shown :
        Tied(r) \/ (~w.done /\ Cardinality(Before(r)) >= w.pages * Limit)

ReaderInv(w) == IF w.by = "cursor" THEN CursorInv(w)
                ELSE OffsetInv(w) /\ (w.by = "offset" \/ w.known = {})

ListInv ==
  /\ rows \subseteq Rows /\ IsFiniteSet(rows)
  /\ \A a \in unsaved \cup {firstPage} : PageInv(a)
  /\ DOMAIN reader = Readers
  /\ \A v \in Readers : ReaderInv(reader[v])

(* The order of the rows. *)
LEMMA NewerOrder ==
  ASSUME ListingAssumption, NEW r \in Rows, NEW s \in Rows
  PROVE  /\ ~Newer(r, r) /\ (Newer(r, s) => ~Newer(s, r))
         /\ r.at \in Nat /\ s.at \in Nat
BY DEF ListingAssumption, Newer

(* What a page that answers a query leaves out lies beyond its last row. *)
LEMMA AnswerLeaves ==
  ASSUME ListingAssumption, NEW S \in SUBSET Rows, NEW a, a.page \subseteq S, Answers(a, S),
         NoCursor \notin S
  PROVE  /\ a.next \in S \cup {NoCursor}
         /\ \A r \in S \ a.page : a.next # NoCursor /\ Newer(a.next, r)
         /\ a.next # NoCursor => \A r \in a.page : ~Newer(a.next, r)
<1>1. CASE Cardinality(S) <= Limit
  BY <1>1 DEF Answers
<1>2. CASE ~(Cardinality(S) <= Limit)
  <2>1. a.next \in a.page /\ \A p \in a.page : p = a.next \/ Newer(p, a.next)
    BY <1>2 DEF Answers
  <2>2. \A r \in a.page : ~Newer(a.next, r)
    BY <2>1, NewerOrder
  <2>3. \A r \in S \ a.page : Newer(a.next, r)
    BY <2>1 DEF Answers
  <2> QED
    BY <2>1, <2>2, <2>3
<1> QED
  BY <1>1, <1>2

LEMMA ListStarts == ASSUME ListInit PROVE ListInv
<1>1. IsFiniteSet(rows) /\ rows \subseteq Rows
  BY FS_EmptySet DEF ListInit
<1>2. PageInv(NoPage)
  BY DEF PageInv, NoPage
<1>3. ReaderInv(Fresh) /\ Fresh.by = "none"
  BY DEF ReaderInv, OffsetInv, Fresh
<1> QED
  BY <1>1, <1>2, <1>3 DEF ListInv, ListInit

LEMMA AddStep ==
  ASSUME ListingAssumption, ListInv, AddRow
  PROVE  ListInv'
<1>1. PICK n \in Rows \ rows : rows' = rows \cup {n}
  BY DEF AddRow
<1>2. IsFiniteSet(rows') /\ rows' \subseteq Rows /\ rows \subseteq rows'
  BY <1>1, FS_AddElement DEF ListInv
<1>3. \A a \in unsaved \cup {firstPage} : PageInv(a)'
  BY <1>2 DEF ListInv, PageInv, AddRow, Newer
<1>4. ASSUME NEW v \in Readers PROVE ReaderInv(reader[v])'
  <2> DEFINE w == reader[v]
  <2>1. reader' = reader
    BY DEF AddRow
  <2>2. CASE w.by = "cursor"
    BY <1>2, <2>1, <2>2 DEF ListInv, ReaderInv, CursorInv, Newer
  <2>3. CASE w.by # "cursor"
    <3>1. OffsetInv(w) /\ (w.by = "offset" \/ w.known = {})
      BY <2>3 DEF ListInv, ReaderInv
    <3>2. ASSUME NEW r \in w.known \ w.shown, ~Tied(r)'
          PROVE  ~w.done /\ Cardinality(Before(r)') >= w.pages * Limit
      <4>1. ~Tied(r)
        BY <3>2, <1>2 DEF Tied
      <4>2. ~w.done /\ Cardinality(Before(r)) >= w.pages * Limit
        BY <3>1, <3>2, <4>1 DEF OffsetInv
      <4>3. Before(r) \subseteq Before(r)' /\ IsFiniteSet(Before(r)') /\ IsFiniteSet(Before(r))
        BY <1>2, FS_Subset DEF Before, ListInv
      <4>4. /\ Cardinality(Before(r)) <= Cardinality(Before(r)')
            /\ Cardinality(Before(r)) \in Nat /\ Cardinality(Before(r)') \in Nat
        BY <4>3, FS_Subset, FS_CardinalityType
      <4>5. w.pages * Limit \in Nat
        BY <3>1 DEF OffsetInv, ListingAssumption
      <4> HIDE DEF w
      <4> QED
        BY <4>2, <4>4, <4>5
    <3>3. w.known \subseteq rows'
      BY <3>1, <1>2 DEF OffsetInv
    <3>4. OffsetInv(w)'
      <4>1. Limit \in Nat /\ w.pages \in Nat /\ w.cursor = NoCursor
        BY <3>1 DEF OffsetInv, ListingAssumption
      <4> QED
        BY <2>1, <3>2, <3>3, <4>1 DEF OffsetInv
    <3> QED
      BY <2>1, <2>3, <3>1, <3>4 DEF ReaderInv
  <2> QED
    BY <2>2, <2>3
<1> QED
  BY <1>2, <1>3, <1>4 DEF ListInv, AddRow

(* A reader's step that adds no row; the pages kept are in order. *)
LEMMA ReadStep ==
  ASSUME ListInv, NEW v \in Readers, NEW w,
         reader' = [reader EXCEPT ![v] = w], rows' = rows,
         \A a \in unsaved' \cup {firstPage'} : PageInv(a),
         ReaderInv(w)
  PROVE  ListInv'
<1>1. \A a : PageInv(a)' <=> PageInv(a)
  BY DEF PageInv, Newer
<1>2. \A x : ReaderInv(x)' <=> ReaderInv(x)
  BY DEF ReaderInv, CursorInv, OffsetInv, Tied, Before, Newer
<1> QED
  BY <1>1, <1>2 DEF ListInv

(* A first page, read now or kept, turns a fresh reader. *)
LEMMA FirstTurn ==
  ASSUME ListingAssumption, ListInv, NEW v \in Readers, NEW a, PageInv(a),
         reader[v] = Fresh
  PROVE  CursorInv([by |-> "cursor", shown |-> reader[v].shown \cup a.page, cursor |-> a.next,
                    pages |-> reader[v].pages + 1, known |-> a.known, done |-> a.next = NoCursor])
<1> DEFINE w == [by |-> "cursor", shown |-> reader[v].shown \cup a.page, cursor |-> a.next,
                 pages |-> reader[v].pages + 1, known |-> a.known, done |-> a.next = NoCursor]
<1>1. reader[v].shown = {}
  BY DEF Fresh
<1>2. /\ w.shown = a.page /\ w.cursor = a.next /\ w.known = a.known
      /\ (w.done <=> a.next = NoCursor)
  BY <1>1
<1> HIDE DEF w
<1>3. CursorInv(w)
  BY <1>2 DEF CursorInv, PageInv
<1> QED
  BY <1>3 DEF w

LEMMA CachedStep ==
  ASSUME ListingAssumption, ListInv, NEW v \in Readers, CachedFirstPage(v)
  PROVE  ListInv'
<1> DEFINE w == [by |-> "cursor", shown |-> reader[v].shown \cup firstPage.page,
                 cursor |-> firstPage.next, pages |-> reader[v].pages + 1,
                 known |-> firstPage.known, done |-> firstPage.next = NoCursor]
<1>1. reader' = [reader EXCEPT ![v] = w]
  BY DEF CachedFirstPage, Turn
<1>2. CursorInv(w) /\ w.by = "cursor"
  BY FirstTurn DEF CachedFirstPage, ListInv
<1>3. ReaderInv(w)
  BY <1>2 DEF ReaderInv
<1> HIDE DEF w
<1>4. rows' = rows /\ \A a \in unsaved' \cup {firstPage'} : PageInv(a)
  BY DEF CachedFirstPage, ListInv
<1> QED
  BY <1>1, <1>3, <1>4, ReadStep

LEMMA FirstStep ==
  ASSUME ListingAssumption, ListInv, NEW v \in Readers, FirstPage(v)
  PROVE  ListInv'
<1>1. PICK page \in SUBSET rows, next \in rows \cup {NoCursor} :
         LET a == [page |-> page, next |-> next, known |-> rows] IN
         Answers(a, rows) /\ Turn(v, a, rows) /\ unsaved' = unsaved \cup {a}
  BY DEF FirstPage
<1> DEFINE a == [page |-> page, next |-> next, known |-> rows]
           w == [by |-> "cursor", shown |-> reader[v].shown \cup a.page, cursor |-> a.next,
                 pages |-> reader[v].pages + 1, known |-> a.known, done |-> a.next = NoCursor]
<1>2. rows \in SUBSET Rows /\ NoCursor \notin rows
  BY DEF ListInv, ListingAssumption
<1>3. PageInv(a)
  <2>1. a.page \subseteq rows /\ a.known = rows /\ Answers(a, rows)
    BY <1>1
  <2> HIDE DEF a
  <2>2. /\ a.next \in rows \cup {NoCursor}
        /\ \A r \in rows \ a.page : a.next # NoCursor /\ Newer(a.next, r)
        /\ a.next # NoCursor => \A r \in a.page : ~Newer(a.next, r)
    BY <1>2, <2>1, AnswerLeaves
  <2> QED
    BY <2>1, <2>2 DEF PageInv
<1>4. reader' = [reader EXCEPT ![v] = w]
  BY <1>1 DEF Turn
<1>5. ReaderInv(w)
  <2>1. w.by = "cursor"
    OBVIOUS
  <2> HIDE DEF a
  <2>2. CursorInv(w)
    BY <1>3, FirstTurn DEF FirstPage
  <2> QED
    BY <2>1, <2>2 DEF ReaderInv
<1>6. unsaved' = unsaved \cup {a} /\ firstPage' = firstPage /\ rows' = rows
  BY <1>1 DEF FirstPage
<1> HIDE DEF a, w
<1> QED
  BY <1>3, <1>4, <1>5, <1>6, ReadStep DEF ListInv

LEMMA NextStep ==
  ASSUME ListingAssumption, ListInv, NEW v \in Readers, NextPage(v)
  PROVE  ListInv'
<1> DEFINE r0 == reader[v]
           S == Beyond(r0.cursor)
<1>1. PICK page \in SUBSET rows, next \in rows \cup {NoCursor} :
         LET a == [page |-> page, next |-> next] IN
         Answers(a, S) /\ Turn(v, a, r0.known)
  BY DEF NextPage
<1> DEFINE a == [page |-> page, next |-> next]
           w == [by |-> "cursor", shown |-> r0.shown \cup a.page, cursor |-> a.next,
                 pages |-> r0.pages + 1, known |-> r0.known, done |-> a.next = NoCursor]
<1>2. /\ S \in SUBSET Rows /\ NoCursor \notin rows /\ S \subseteq rows
      /\ CursorInv(r0) /\ ~r0.done
  BY DEF ListInv, ListingAssumption, Beyond, NextPage, ReaderInv
<1>3. r0.cursor \in rows /\ r0.cursor # NoCursor /\ \A r \in rows : r \in S <=> Newer(r0.cursor, r)
  BY <1>2 DEF CursorInv, Beyond
<1>4. a.page = page /\ a.next = next /\ Answers(a, S)
  BY <1>1
<1>5. reader' = [reader EXCEPT ![v] = w]
  BY <1>1 DEF Turn
<1>6. /\ w.by = "cursor" /\ w.shown = r0.shown \cup page /\ w.cursor = next
      /\ w.known = r0.known /\ (w.done <=> next = NoCursor)
  BY <1>4
<1>7. page \subseteq S
  BY <1>4 DEF Answers
<1> HIDE DEF a, S, w
<1>8. /\ next \in S \cup {NoCursor}
      /\ \A r \in S \ page : next # NoCursor /\ Newer(next, r)
      /\ next # NoCursor => \A r \in page : ~Newer(next, r)
  BY <1>2, <1>4, <1>7, AnswerLeaves
<1>9. \A r \in w.known \ w.shown : ~w.done /\ Newer(w.cursor, r)
  BY <1>2, <1>3, <1>6, <1>8 DEF CursorInv
<1>10. ASSUME next # NoCursor, NEW r \in r0.shown PROVE ~Newer(next, r)
  <2>1. ~Newer(r0.cursor, r) /\ Newer(r0.cursor, next)
    BY <1>2, <1>3, <1>8, <1>10 DEF CursorInv
  <2>2. r \in Rows /\ next \in Rows /\ r0.cursor \in Rows
    BY <1>2, <1>3, <1>8, <1>10 DEF CursorInv, ListInv
  <2> HIDE DEF r0
  <2> QED
    BY <2>1, <2>2 DEF Newer, ListingAssumption
<1>11. CursorInv(w)
  BY <1>2, <1>6, <1>7, <1>8, <1>9, <1>10 DEF CursorInv
<1>12. rows' = rows /\ unsaved' = unsaved /\ firstPage' = firstPage
  BY DEF NextPage
<1> QED
  BY <1>5, <1>6, <1>11, <1>12, ReadStep DEF ReaderInv, ListInv

(* A row that shares its time with none and is on no page so far either has  *)
(* been counted among the rows skipped, or comes on a later page.            *)
LEMMA WindowLeaves ==
  ASSUME ListingAssumption, rows \subseteq Rows, IsFiniteSet(rows), NEW n \in Nat,
         NEW page \in SUBSET rows, Window(page, n),
         NEW r \in rows \ page, ~Tied(r), Cardinality(Before(r)) >= n
  PROVE  Cardinality(page) = Limit /\ Cardinality(Before(r)) >= n + Limit
<1>1. PICK before \in SUBSET (rows \ page) :
         LET after == (rows \ page) \ before IN
         /\ Slice(before, page, n)
         /\ \A q \in before, s \in page \cup after : q.at >= s.at
         /\ \A q \in page, s \in after : q.at >= s.at
  BY DEF Window
<1> DEFINE after == (rows \ page) \ before
<1>2. \A q \in rows : q.at \in Nat
  BY DEF ListingAssumption
<1>3. \A q \in rows \ {r} : q.at # r.at
  BY DEF Tied
<1>4. /\ IsFiniteSet(before) /\ IsFiniteSet(page) /\ IsFiniteSet(Before(r))
      /\ Cardinality(before) \in Nat /\ Cardinality(page) \in Nat
      /\ Cardinality(Before(r)) \in Nat /\ Cardinality(rows) \in Nat
  BY FS_Subset, FS_CardinalityType DEF Before
<1>5. /\ Cardinality(before) = AtMostOf(n, Cardinality(rows))
      /\ Cardinality(page) = AtMostOf(Limit, Cardinality(rows) - Cardinality(before))
  BY <1>1 DEF Slice
<1>6. Limit \in Nat
  BY DEF ListingAssumption
<1>7. r \in after
  <2>1. SUFFICES ASSUME r \in before PROVE FALSE
    OBVIOUS
  <2>2. Before(r) \subseteq before \ {r}
    <3>1. ASSUME NEW q \in Before(r) PROVE q \in before \ {r}
      <4>1. q \in rows /\ q.at > r.at
        BY DEF Before
      <4>2. ~(q \in page \cup after)
        BY <1>1, <1>2, <2>1, <4>1
      <4> QED
        BY <1>2, <4>1, <4>2
    <3> QED
      BY <3>1
  <2>3. /\ IsFiniteSet(before \ {r}) /\ Cardinality(before \ {r}) = Cardinality(before) - 1
    BY <1>4, <2>1, FS_RemoveElement
  <2>4. Cardinality(Before(r)) <= Cardinality(before) - 1
    BY <2>2, <2>3, FS_Subset
  <2>5. Cardinality(before) <= n
    BY <1>4, <1>5 DEF AtMostOf
  <2> QED
    BY <1>4, <2>4, <2>5
<1>8. before \cup page \subseteq Before(r)
  <2>1. ASSUME NEW q \in before \cup page PROVE q \in Before(r)
    <3>1. q.at >= r.at /\ q \in rows /\ q # r
      BY <1>1, <1>7
    <3> QED
      BY <1>2, <1>3, <3>1 DEF Before
  <2> QED
    BY <2>1
<1>9. Cardinality(before \cup page) = Cardinality(before) + Cardinality(page)
  <2>1. before \cap page = {}
    OBVIOUS
  <2>2. Cardinality({}) = 0
    BY FS_EmptySet
  <2> QED
    <3> HIDE DEF after
    <3>1. Cardinality(before \cup page)
          = Cardinality(before) + Cardinality(page) - Cardinality(before \cap page)
      BY <1>4, FS_Union
    <3> QED
      BY <1>4, <2>1, <2>2, <3>1
<1>10. Cardinality(before \cup page) <= Cardinality(Before(r))
  BY <1>4, <1>8, FS_Subset
<1>11. Cardinality(before \cup page) < Cardinality(rows)
  <2>1. before \cup page \subseteq rows \ {r}
    BY <1>7
  <2>2. IsFiniteSet(rows \ {r}) /\ Cardinality(rows \ {r}) = Cardinality(rows) - 1
    BY FS_RemoveElement
  <2>3. Cardinality(before \cup page) <= Cardinality(rows) - 1
    BY <2>1, <2>2, FS_Subset
  <2> QED
    BY <1>4, <1>9, <2>3
<1>12. Cardinality(before) = n /\ Cardinality(page) = Limit
  <2> HIDE DEF after
  <2> QED
    BY <1>4, <1>5, <1>6, <1>9, <1>11 DEF AtMostOf
<1> QED
  BY <1>4, <1>6, <1>9, <1>10, <1>12

LEMMA OffsetStep ==
  ASSUME ListingAssumption, ListInv, NEW v \in Readers, OffsetPage(v)
  PROVE  ListInv'
<1> DEFINE r0 == reader[v]
<1>1. PICK page \in SUBSET rows :
         /\ Window(page, r0.pages * Limit)
         /\ reader' = [reader EXCEPT ![v] =
                [by |-> "offset", shown |-> @.shown \cup page, cursor |-> NoCursor,
                 pages |-> @.pages + 1, done |-> Cardinality(page) < Limit,
                 known |-> IF @.pages = 0 THEN rows ELSE @.known]]
  BY DEF OffsetPage
<1> DEFINE w == [by |-> "offset", shown |-> r0.shown \cup page, cursor |-> NoCursor,
                 pages |-> r0.pages + 1, done |-> Cardinality(page) < Limit,
                 known |-> IF r0.pages = 0 THEN rows ELSE r0.known]
<1>2. reader' = [reader EXCEPT ![v] = w]
  BY <1>1
<1>3. OffsetInv(r0) /\ ~r0.done /\ Limit \in Nat
  BY DEF ListInv, ReaderInv, OffsetPage, ListingAssumption
<1>4. /\ w.by = "offset" /\ w.cursor = NoCursor /\ w.pages = r0.pages + 1
      /\ w.shown = r0.shown \cup page /\ (w.done <=> Cardinality(page) < Limit)
      /\ w.known = IF r0.pages = 0 THEN rows ELSE r0.known
  OBVIOUS
<1> HIDE DEF w
<1>5. r0.pages \in Nat /\ r0.pages * Limit \in Nat /\ (r0.pages + 1) * Limit = r0.pages * Limit + Limit
  BY <1>3 DEF OffsetInv
<1>6. w.known \subseteq rows
  BY <1>3, <1>4 DEF OffsetInv
<1>7. ASSUME NEW r \in w.known \ w.shown, ~Tied(r)
      PROVE  ~w.done /\ Cardinality(Before(r)) >= w.pages * Limit
  <2>1. r \in rows \ page
    BY <1>4, <1>6, <1>7
  <2>2. Cardinality(Before(r)) >= r0.pages * Limit
    <3>1. CASE r0.pages = 0
      <4>1. IsFiniteSet(Before(r))
        BY FS_Subset DEF Before, ListInv
      <4>2. Cardinality(Before(r)) \in Nat
        BY <4>1, FS_CardinalityType
      <4>3. r0.pages * Limit = 0
        BY <3>1, <1>3
      <4> QED
        BY <4>2, <4>3
    <3>2. CASE r0.pages # 0
      BY <1>3, <1>4, <1>7, <3>2 DEF OffsetInv
    <3> QED
      BY <3>1, <3>2
  <2> DEFINE n == r0.pages * Limit
  <2>3. n \in Nat /\ Window(page, n) /\ Cardinality(Before(r)) >= n /\ w.pages * Limit = n + Limit
    BY <1>1, <1>4, <1>5, <2>2
  <2> HIDE DEF n, r0
  <2>4. Cardinality(page) = Limit /\ Cardinality(Before(r)) >= n + Limit
    BY <1>7, <2>1, <2>3, WindowLeaves DEF ListInv
  <2> QED
    BY <1>3, <1>4, <2>3, <2>4
<1>8. OffsetInv(w)
  <2>1. r0.pages \in Nat
    BY <1>3 DEF OffsetInv
  <2> HIDE DEF r0
  <2>2. w.pages \in Nat
    BY <1>4, <2>1
  <2> QED
    BY <1>4, <1>6, <1>7, <2>2 DEF OffsetInv
<1>9. rows' = rows /\ \A a \in unsaved' \cup {firstPage'} : PageInv(a)
  BY DEF OffsetPage, ListInv
<1> QED
  BY <1>2, <1>4, <1>8, <1>9, ReadStep DEF ReaderInv

LEMMA ListStep ==
  ASSUME ListingAssumption, ListInv, [ListNext]_listVars
  PROVE  ListInv'
<1>1. ASSUME rows' = rows, reader' = reader, \A a \in unsaved' \cup {firstPage'} : PageInv(a)
      PROVE  ListInv'
  BY <1>1 DEF ListInv, PageInv, ReaderInv, CursorInv, OffsetInv, Tied, Before, Newer
<1>2. PageInv(NoPage)
  BY DEF PageInv, NoPage
<1>3. CASE Forget
  BY <1>1, <1>2, <1>3 DEF Forget, ListInv
<1>4. CASE SavePage
  BY <1>1, <1>4 DEF SavePage, ListInv
<1>5. CASE UNCHANGED listVars
  BY <1>1, <1>5 DEF listVars, ListInv
<1> QED
  BY <1>3, <1>4, <1>5, AddStep, CachedStep, FirstStep, NextStep, OffsetStep DEF ListNext

(* A walk by cursor shows every row that was there when its first page was  *)
(* made, and none a second time; a walk by offset can only miss rows that   *)
(* share their time with another.  For any rows, page sizes, readers and    *)
(* pages that were kept.                                                    *)
THEOREM WalksAreComplete == ListSpec => []WalksComplete
<1>1. ListInv => WalksComplete
  <2>1. ASSUME ListInv, NEW v \in Readers, reader[v].done,
               NEW r \in reader[v].known \ reader[v].shown
        PROVE  reader[v].by = "offset" /\ Tied(r)
    BY <2>1 DEF ListInv, ReaderInv, CursorInv, OffsetInv
  <2>2. ASSUME ListInv, NEW v \in Readers, reader[v].cursor # NoCursor
        PROVE  reader[v].shown \cap Beyond(reader[v].cursor) = {}
    BY <2>2 DEF ListInv, ReaderInv, CursorInv, OffsetInv, Beyond
  <2> QED
    BY <2>1, <2>2 DEF WalksComplete, Tied
<1> QED
  BY <1>1, ListStarts, ListStep, ListingAssumption, PTL DEF ListSpec

=============================================================================
