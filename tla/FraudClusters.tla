--------------------------- MODULE FraudClusters ---------------------------
(* analyze_fraud_graph: rings of workers that share a device, and bursts of   *)
(* claims in one zone, become clusters, and the open claims of their members  *)
(* are tagged.  Every replica runs it as it starts and an administrator on    *)
(* demand, each in a transaction of its own at READ COMMITTED; no constraint  *)
(* keeps two of them from recording the same cluster.  A worker has one       *)
(* device, so a component of the graph is the workers of one device.          *)
EXTENDS Naturals, FiniteSets

CONSTANTS Couriers, Fingerprints, Zones,
          Incidents, \* claims that can be filed
          By,        \* the worker of a claim
          In,        \* the zone of a claim's trigger
          Analyses,  \* replicas starting and requests of administrators
          MinSize,   \* members of a cluster
          Nowhere

ASSUME ClusterAssumption ==
    /\ By \in [Incidents -> Couriers] /\ In \in [Incidents -> Zones]
    /\ Fingerprints \cap Zones = {}
    /\ Nowhere \notin Fingerprints

VARIABLES device,   \* device_fingerprint of every worker, or Nowhere
          filing,   \* every claim: absent, in_review or settled
          late,     \* claims filed in the last half hour
          tagged,   \* claims with the tag SHARED_DEVICE_CLUSTER
          clusters, \* committed clusters
          analysis  \* what every open transaction has found and written

graphVars == <<device, filing, late, tagged, clusters, analysis>>

NotRunning == [step |-> "none", found |-> {}, added |-> {}, tags |-> {}]

GraphInit ==
    /\ device = [w \in Couriers |-> Nowhere]
    /\ filing = [i \in Incidents |-> "absent"]
    /\ late = {} /\ tagged = {} /\ clusters = {}
    /\ analysis = [s \in Analyses |-> NotRunning]

-----------------------------------------------------------------------------
(* What an analysis finds. *)

Sharing(d) == {w \in Couriers : device[w] = d}

DeviceClusters ==
    {[node |-> d, members |-> Sharing(d)] : d \in {e \in Fingerprints : Cardinality(Sharing(e)) >= MinSize}}

Bursting(z) == {By[i] : i \in {j \in late : In[j] = z}}

ZoneClusters ==
    {[node |-> z, members |-> Bursting(z)] : z \in {y \in Zones : Cardinality(Bursting(y)) >= MinSize}}

AlreadyExists(node) == \E r \in clusters : r.node = node

OpenClaims(members) == {i \in Incidents : filing[i] = "in_review" /\ By[i] \in members}

-----------------------------------------------------------------------------
(* The transaction of an analysis. *)

Holds(s, a) == analysis' = [analysis EXCEPT ![s] = a]

BuildGraph(s) ==
    /\ analysis[s] = NotRunning
    /\ Holds(s, [analysis[s] EXCEPT !.step = "zones", !.found = DeviceClusters])
    /\ UNCHANGED <<device, filing, late, tagged, clusters>>

FindBursts(s) ==
    /\ analysis[s].step = "zones"
    /\ Holds(s, [analysis[s] EXCEPT !.step = "persist", !.found = @ \cup ZoneClusters])
    /\ UNCHANGED <<device, filing, late, tagged, clusters>>

\* A cluster with that node is left as it is, whoever has joined it since.
SkipCluster(s) ==
    /\ analysis[s].step = "persist"
    /\ \E f \in analysis[s].found :
           /\ AlreadyExists(f.node)
           /\ Holds(s, [analysis[s] EXCEPT !.found = @ \ {f}])
    /\ UNCHANGED <<device, filing, late, tagged, clusters>>

\* Faulty variant: the clusters recorded before are not looked up.
PersistUnchecked(s) ==
    /\ analysis[s].step = "persist"
    /\ \E f \in analysis[s].found :
           LET open == OpenClaims(f.members)
               row == [node |-> f.node, members |-> f.members, open |-> open, by |-> s]
           IN  Holds(s, [analysis[s] EXCEPT !.found = @ \ {f}, !.added = @ \cup {row}, !.tags = @ \cup open])
    /\ UNCHANGED <<device, filing, late, tagged, clusters>>

\* by and open, who recorded the row and which claims it tagged, are kept for
\* the properties.
PersistCluster(s) ==
    /\ analysis[s].step = "persist"
    /\ \E f \in analysis[s].found :
           LET open == OpenClaims(f.members)
               row == [node |-> f.node, members |-> f.members, open |-> open, by |-> s]
           IN  /\ ~AlreadyExists(f.node)
               /\ Holds(s, [analysis[s] EXCEPT !.found = @ \ {f}, !.added = @ \cup {row}, !.tags = @ \cup open])
    /\ UNCHANGED <<device, filing, late, tagged, clusters>>

CommitAnalysis(s) ==
    /\ analysis[s].step = "persist" /\ analysis[s].found = {}
    /\ clusters' = clusters \cup analysis[s].added
    /\ tagged' = tagged \cup analysis[s].tags
    /\ Holds(s, NotRunning)
    /\ UNCHANGED <<device, filing, late>>

\* The route answers 500, the start goes on without the analysis.
AnalysisFails(s) ==
    /\ analysis[s].step # "none"
    /\ Holds(s, NotRunning)
    /\ UNCHANGED <<device, filing, late, tagged, clusters>>

-----------------------------------------------------------------------------
(* Others. *)

\* The seeding of workers is all that writes their device.
SeedWorker(w, d) ==
    /\ device' = [device EXCEPT ![w] = d]
    /\ UNCHANGED <<filing, late, tagged, clusters, analysis>>

\* The claim's transaction ends with the claim held, or paid or blocked.
FileIncident(i) ==
    /\ filing[i] = "absent"
    /\ \E to \in {"in_review", "settled"} : filing' = [filing EXCEPT ![i] = to]
    /\ late' = late \cup {i}
    /\ UNCHANGED <<device, tagged, clusters, analysis>>

\* A reviewer decides, or the worker appeals.
MoveIncident(i) ==
    /\ filing[i] # "absent"
    /\ \E to \in {"in_review", "settled"} : filing' = [filing EXCEPT ![i] = to]
    /\ UNCHANGED <<device, late, tagged, clusters, analysis>>

HalfHourPasses ==
    /\ \E old \in SUBSET late : late' = late \ old
    /\ UNCHANGED <<device, filing, tagged, clusters, analysis>>

GraphNext ==
    \/ \E s \in Analyses : \/ BuildGraph(s) \/ FindBursts(s) \/ SkipCluster(s)
                           \/ PersistCluster(s) \/ CommitAnalysis(s) \/ AnalysisFails(s)
    \/ \E w \in Couriers, d \in Fingerprints : SeedWorker(w, d)
    \/ \E i \in Incidents : FileIncident(i) \/ MoveIncident(i)
    \/ HalfHourPasses

GraphSpec == GraphInit /\ [][GraphNext]_graphVars

-----------------------------------------------------------------------------
\* An analysis never records a cluster again that it recorded before: a node
\* has at most one row for each analysis that can be open at once.  The tags
\* of claims and the rows of clusters are written together: a claim is tagged
\* exactly if it was open, and its worker a member, as a row was written.
ClustersConsistent ==
    /\ \A r, q \in clusters : r.node = q.node /\ r.by = q.by => r = q
    /\ tagged = UNION {r.open : r \in clusters}
    /\ \A r \in clusters : \A i \in r.open : By[i] \in r.members
=============================================================================
