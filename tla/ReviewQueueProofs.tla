-------------------------- MODULE ReviewQueueProofs --------------------------
(* Proofs about ReviewQueue for every set of claims, reviewers, appeals and   *)
(* fraud signals.                                                             *)
EXTENDS ReviewQueue, TLAPS

-----------------------------------------------------------------------------
(* The engine's scale and the queue's tiers.                                  *)

LEMMA FlagInt == ASSUME NEW condition, NEW points \in Nat PROVE Flag(condition, points) \in Nat
  BY DEF Flag

LEMMA ScoreNat == ASSUME NEW s \in SignalSpace PROVE Score(s) \in Nat
  <1>1. GpsPoints(s) \in Nat
    BY FlagInt DEF GpsPoints
  <1>2. RulePoints(s) \in Nat
    <2> DEFINE a == Flag(s.payouts > 3, 40)
               b == Flag(s.waited < 24, 25)
               c == Flag(s.fingerprint /\ "DEVICE_MISMATCH" \in s.tags, 30)
               d == Flag("SHARED_DEVICE_CLUSTER" \in s.tags, 40)
               e == Flag(s.first /\ s.held < 1, 20)
    <2>1. a \in Nat /\ b \in Nat /\ c \in Nat /\ d \in Nat /\ e \in Nat
      BY FlagInt
    <2>2. RulePoints(s) = AtMost(100, a + b + c + d + e)
      BY DEF RulePoints
    <2> HIDE DEF a, b, c, d, e
    <2>3. a + b + c + d + e \in Nat
      BY <2>1
    <2>4. AtMost(100, a + b + c + d + e) \in Nat
      BY <2>3 DEF AtMost
    <2> QED
      BY <2>2, <2>4
  <1>3. ModelScore(s) \in Nat
    BY DEF ModelScore, SignalSpace
  <1>4. Blend(s) \in Nat
    <2>1. (60 * RulePoints(s) + 4 * ModelScore(s) + 5) \div 10 \in Nat
      BY <1>2, <1>3
    <2>2. 10 * (RulePoints(s) + GpsPoints(s)) \in Nat
      BY <1>1, <1>2
    <2> QED
      BY <2>1, <2>2 DEF Blend, AtLeast
  <1>5. Flag(s.catastrophe, 150) \in Nat
    BY FlagInt
  <1>6. AtMost(1000, Blend(s)) + Flag(s.catastrophe, 150) \in Nat
    <2>1. AtMost(1000, Blend(s)) \in Nat
      BY <1>4 DEF AtMost
    <2> QED
      BY <1>5, <2>1
  <1>7. AtMost(1000, AtMost(1000, Blend(s)) + Flag(s.catastrophe, 150)) \in Nat
    BY <1>6 DEF AtMost
  <1> QED
    BY <1>7 DEF Score

Stopped == {"manual_review", "auto_block", "CRITICAL"}
AdminTiers == {"HIGH", "CRITICAL"}

(* Whatever the engine stops or sends to manual review is in a tier that only *)
(* a risk administrator decides, also when it is seeded by the demo.          *)
LEMMA StoppedIsHigh ==
  ASSUME NEW fraud \in Assessments, fraud.decision \in Stopped
  PROVE  RiskTier(fraud) \in AdminTiers
  <1>1. CASE \E s \in Signals : fraud = Assess(s)
    <2>1. PICK s \in Signals : fraud = Assess(s)
      BY <1>1
    <2>2. Score(s) \in Nat
      BY ScoreNat, ReviewConstants
    <2>3. fraud.score = Score(s)
      BY <2>1 DEF Assess
    <2>4. fraud.decision \in {"hold", Decision(Score(s))}
      BY <2>1 DEF Assess
    <2>5. ~(Score(s) <= 650)
      BY <2>4 DEF Stopped, Decision
    <2>6. fraud.score >= 650
      BY <2>2, <2>3, <2>5
    <2> QED
      BY <2>6 DEF RiskTier, AdminTiers
  <1>2. CASE fraud \in Seeded
    <2>1. fraud.score \in {950, 880}
      BY <1>2 DEF Seeded, Stopped
    <2> QED
      BY <2>1 DEF RiskTier, AdminTiers
  <1> QED
    BY <1>1, <1>2 DEF Assessments

-----------------------------------------------------------------------------
(* The requests.                                                              *)

(* Domains, and the claim a request is about.                                 *)
QueueTypes ==
  /\ reviews \in [Reviewers -> [at : Phases, claim : Claims \cup {None}, verdict : Verdicts]]
  /\ appeals \in [Appeals -> [at : {"idle", "read", "done"}, claim : Claims \cup {None}]]
  /\ claims \in [Claims -> [status : Statuses, fraud : Assessments]]
  /\ approved \subseteq Claims
  /\ \A r \in Reviewers : reviews[r].at \in {"read", "committed"} => reviews[r].claim \in Claims
  /\ \A a \in Appeals : appeals[a].at = "read" => appeals[a].claim \in Claims

(* An approval under way was committed.                                       *)
CommittedApproved ==
  \A r \in Reviewers : reviews[r].at = "committed" => reviews[r].claim \in approved

(* A decision under way was taken by somebody who may take it.                *)
Entitled ==
  \A r \in Reviewers : reviews[r].at = "read" => Authorized(r, reviews[r].claim)

(* Requests that have read a claim nobody overlapped on are alone with it.    *)
AloneWith(c) ==
  /\ \A r, q \in Reviewers :
        /\ reviews[r].claim = c /\ reviews[r].at = "read"
        /\ reviews[q].claim = c /\ reviews[q].at = "read"
        => r = q
  /\ \A a, b \in Appeals :
        /\ appeals[a].claim = c /\ appeals[a].at = "read"
        /\ appeals[b].claim = c /\ appeals[b].at = "read"
        => a = b
  /\ \A r \in Reviewers, a \in Appeals :
        ~(/\ reviews[r].claim = c /\ reviews[r].at = "read"
          /\ appeals[a].claim = c /\ appeals[a].at = "read")

Undisturbed ==
  \A c \in Claims \ overlaps :
    /\ AloneWith(c)
    /\ c \in approved => claims[c].status = "approved" /\ ~Pending(c)

QueueInv ==
  /\ QueueTypes
  /\ CommittedApproved
  /\ Entitled
  /\ Undisturbed
  /\ ApprovalsAnnounced

LEMMA AnswerFields ==
  /\ Answered \in [at : Phases, claim : Claims \cup {None}, verdict : Verdicts]
  /\ Failed \in [at : Phases, claim : Claims \cup {None}, verdict : Verdicts]
  /\ Answered.at = "idle" /\ Failed.at = "failed"
  BY DEF Answered, Failed, Phases, Verdicts

LEMMA EnteringTyped == Entering \subseteq [status : Statuses, fraud : Assessments]
  BY DEF Entering, Statuses, Assessments, Routed, SeededStatus

LEMMA InitQueueInv == ReviewInit => QueueInv
  <1> SUFFICES ASSUME ReviewInit PROVE QueueInv
    OBVIOUS
  <1>1. QueueTypes
    BY AnswerFields, EnteringTyped DEF ReviewInit, QueueTypes
  <1>2. CommittedApproved /\ Entitled
    BY AnswerFields DEF ReviewInit, CommittedApproved, Entitled
  <1>3. Undisturbed
    BY AnswerFields DEF ReviewInit, Undisturbed, AloneWith
  <1>4. ApprovalsAnnounced
    BY DEF ReviewInit, ApprovalsAnnounced
  <1> QED
    BY <1>1, <1>2, <1>3, <1>4 DEF QueueInv

(* A request reads a claim that no approval stands on.                        *)
LEMMA ReadForDecisionStep ==
  ASSUME QueueInv, NEW r \in Reviewers, NEW c \in Claims, NEW verdict \in Verdicts,
         ReadForDecision(r, c, verdict)
  PROVE  QueueInv'
  <1>1. /\ reviews' = [reviews EXCEPT ![r] = [at |-> "read", claim |-> c, verdict |-> verdict]]
        /\ UNCHANGED <<claims, appeals, announced, approved, unsent>>
        /\ reviews[r].at = "idle" /\ claims[c].status = "in_review" /\ Authorized(r, c)
        /\ overlaps' = IF Pending(c) THEN overlaps \cup {c} ELSE overlaps
    BY DEF ReadForDecision, NoteOverlap
  <1>2. QueueTypes'
    BY <1>1 DEF QueueInv, QueueTypes, Phases
  <1>3. /\ reviews'[r].at = "read" /\ reviews'[r].claim = c
        /\ \A q \in Reviewers \ {r} : reviews'[q] = reviews[q]
    BY <1>1 DEF QueueInv, QueueTypes
  <1>4. CommittedApproved'
    BY <1>1, <1>3 DEF QueueInv, CommittedApproved
  <1>5. Entitled'
    BY <1>1, <1>3 DEF QueueInv, Entitled, Authorized
  <1>6. ASSUME NEW d \in Claims \ overlaps' PROVE AloneWith(d)' /\ (d \in approved' => claims'[d].status = "approved" /\ ~Pending(d)')
    <2>1. d \notin overlaps /\ (d = c => ~Pending(c))
      BY <1>1, <1>6
    <2>2. AloneWith(d) /\ (d \in approved => claims[d].status = "approved" /\ ~Pending(d))
      BY <2>1 DEF QueueInv, Undisturbed
    <2>3. d = c => d \notin approved
      BY <1>1, <2>2
    <2>4. AloneWith(d)'
      BY <1>1, <1>3, <2>1, <2>2 DEF AloneWith, Pending
    <2>5. d # c => (Pending(d)' => Pending(d))
      BY <1>1, <1>3 DEF Pending
    <2> QED
      BY <1>1, <2>2, <2>3, <2>4, <2>5
  <1>7. ApprovalsAnnounced'
    BY <1>1, <1>3 DEF QueueInv, ApprovalsAnnounced
  <1> QED
    BY <1>2, <1>4, <1>5, <1>6, <1>7 DEF QueueInv, Undisturbed

LEMMA ReadForAppealStep ==
  ASSUME QueueInv, NEW a \in Appeals, NEW c \in Claims, ReadForAppeal(a, c)
  PROVE  QueueInv'
  <1>1. /\ appeals' = [appeals EXCEPT ![a] = [at |-> "read", claim |-> c]]
        /\ UNCHANGED <<claims, reviews, announced, approved, unsent>>
        /\ appeals[a].at = "idle" /\ claims[c].status \in {"rejected", "blocked"}
        /\ overlaps' = IF Pending(c) THEN overlaps \cup {c} ELSE overlaps
    BY DEF ReadForAppeal, NoteOverlap
  <1>2. QueueTypes'
    BY <1>1 DEF QueueInv, QueueTypes
  <1>3. /\ appeals'[a].at = "read" /\ appeals'[a].claim = c
        /\ \A b \in Appeals \ {a} : appeals'[b] = appeals[b]
    BY <1>1 DEF QueueInv, QueueTypes
  <1>4. CommittedApproved' /\ Entitled' /\ ApprovalsAnnounced'
    BY <1>1 DEF QueueInv, CommittedApproved, Entitled, Authorized, ApprovalsAnnounced
  <1>6. ASSUME NEW d \in Claims \ overlaps' PROVE AloneWith(d)' /\ (d \in approved' => claims'[d].status = "approved" /\ ~Pending(d)')
    <2>1. d \notin overlaps /\ (d = c => ~Pending(c))
      BY <1>1, <1>6
    <2>2. AloneWith(d) /\ (d \in approved => claims[d].status = "approved" /\ ~Pending(d))
      BY <2>1 DEF QueueInv, Undisturbed
    <2>3. d = c => d \notin approved
      BY <1>1, <2>2
    <2>4. AloneWith(d)'
      BY <1>1, <1>3, <2>1, <2>2 DEF AloneWith, Pending
    <2>5. d # c => (Pending(d)' => Pending(d))
      BY <1>1, <1>3 DEF Pending
    <2> QED
      BY <1>1, <2>2, <2>3, <2>4, <2>5
  <1> QED
    BY <1>2, <1>4, <1>6 DEF QueueInv, Undisturbed

(* A decision is committed: whoever else read the claim overlapped with it.   *)
LEMMA CommitDecisionStep ==
  ASSUME QueueInv, NEW r \in Reviewers, CommitDecision(r)
  PROVE  QueueInv'
  <1>1. PICK c \in Claims : c = reviews[r].claim
    BY DEF QueueInv, QueueTypes, CommitDecision
  <1>2. /\ reviews[r].at = "read"
        /\ claims' = [claims EXCEPT ![c].status = Decided(reviews[r].verdict)]
        /\ reviews' = [reviews EXCEPT ![r] = IF reviews[r].verdict = "APPROVE"
                                             THEN [reviews[r] EXCEPT !.at = "committed"] ELSE Answered]
        /\ approved' = IF reviews[r].verdict = "APPROVE" THEN approved \cup {c} ELSE approved
        /\ UNCHANGED <<appeals, announced, unsent, overlaps>>
    BY <1>1 DEF CommitDecision
  <1>3. /\ \A q \in Reviewers \ {r} : reviews'[q] = reviews[q]
        /\ reviews[r].verdict = "APPROVE" =>
             reviews'[r].at = "committed" /\ reviews'[r].claim = c
        /\ reviews[r].verdict # "APPROVE" => reviews'[r] = Answered
    BY <1>1, <1>2 DEF QueueInv, QueueTypes
  <1>4. /\ \A d \in Claims \ {c} : claims'[d] = claims[d]
        /\ claims'[c].status = Decided(reviews[r].verdict)
        /\ \A d \in Claims : claims'[d].fraud = claims[d].fraud
    BY <1>2 DEF QueueInv, QueueTypes
  <1>5. QueueTypes'
    <2>1. claims' \in [Claims -> [status : Statuses, fraud : Assessments]]
      BY <1>2 DEF QueueInv, QueueTypes, Decided, Statuses
    <2>2. reviews'[r] \in [at : Phases, claim : Claims \cup {None}, verdict : Verdicts]
      BY <1>2, AnswerFields DEF QueueInv, QueueTypes, Phases
    <2>3. reviews' \in [Reviewers -> [at : Phases, claim : Claims \cup {None}, verdict : Verdicts]]
      BY <1>2, <2>2 DEF QueueInv, QueueTypes
    <2> QED
      BY <1>2, <1>3, <2>1, <2>3, AnswerFields DEF QueueInv, QueueTypes
  <1>6. CommittedApproved'
    BY <1>2, <1>3, AnswerFields DEF QueueInv, CommittedApproved
  <1>7. Entitled'
    <2>1. \A q \in Reviewers, d \in Claims : Authorized(q, d)' = Authorized(q, d)
      BY <1>4 DEF Authorized
    <2>2. reviews'[r].at # "read"
      BY <1>3, AnswerFields
    <2> QED
      BY <1>3, <2>1, <2>2 DEF QueueInv, QueueTypes, Entitled
  <1>8. ASSUME NEW d \in Claims \ overlaps' PROVE AloneWith(d)' /\ (d \in approved' => claims'[d].status = "approved" /\ ~Pending(d)')
    <2>1. d \notin overlaps
      BY <1>2, <1>8
    <2>2. AloneWith(d) /\ (d \in approved => claims[d].status = "approved" /\ ~Pending(d))
      BY <2>1 DEF QueueInv, Undisturbed
    <2>3. reviews'[r].at # "read"
      BY <1>3, AnswerFields
    <2>4. AloneWith(d)'
      BY <1>2, <1>3, <2>2, <2>3 DEF AloneWith
    <2>5. Pending(d)' => Pending(d)
      BY <1>2, <1>3, <2>3 DEF Pending
    <2>6. ASSUME d = c PROVE ~Pending(d)' /\ d \notin approved
      BY <1>1, <1>2, <1>3, <2>2, <2>3, <2>6 DEF AloneWith, Pending
    <2>7. ASSUME d = c, d \in approved' PROVE claims'[d].status = "approved"
      BY <1>2, <1>4, <2>6, <2>7 DEF Decided
    <2> QED
      BY <1>2, <1>4, <2>2, <2>4, <2>5, <2>6, <2>7
  <1>9. ApprovalsAnnounced'
    <2>1. announced' \subseteq approved'
      BY <1>2 DEF QueueInv, ApprovalsAnnounced
    <2>2. ASSUME NEW d \in approved' \ (announced' \cup unsent')
          PROVE  \E q \in Reviewers : reviews'[q].at = "committed" /\ reviews'[q].claim = d
      BY <1>2, <1>3 DEF QueueInv, ApprovalsAnnounced
    <2> QED
      BY <2>1, <2>2 DEF ApprovalsAnnounced
  <1> QED
    BY <1>5, <1>6, <1>7, <1>8, <1>9 DEF QueueInv, Undisturbed

(* A request ends, answered or failed; if it had committed an approval, that  *)
(* is announced or counted as unsent.                                         *)
LEMMA RequestEnds ==
  ASSUME QueueInv, NEW r \in Reviewers, NEW ending \in {Answered, Failed},
         reviews' = [reviews EXCEPT ![r] = ending],
         announced \subseteq announced', unsent \subseteq unsent', announced' \subseteq approved,
         reviews[r].at = "committed" => reviews[r].claim \in announced' \cup unsent',
         UNCHANGED <<claims, appeals, approved, overlaps>>
  PROVE  QueueInv'
  <1>1. /\ \A q \in Reviewers \ {r} : reviews'[q] = reviews[q]
        /\ reviews'[r].at \notin {"read", "committed"}
    BY AnswerFields DEF QueueInv, QueueTypes
  <1>2. QueueTypes'
    BY <1>1, AnswerFields DEF QueueInv, QueueTypes
  <1>3. CommittedApproved' /\ Entitled'
    BY <1>1 DEF QueueInv, CommittedApproved, Entitled, Authorized
  <1>4. ASSUME NEW c \in Claims \ overlaps'
        PROVE  AloneWith(c)' /\ (c \in approved' => claims'[c].status = "approved" /\ ~Pending(c)')
    <2>1. AloneWith(c) /\ (c \in approved => claims[c].status = "approved" /\ ~Pending(c))
      BY DEF QueueInv, Undisturbed
    <2>2. AloneWith(c)'
      BY <1>1, <2>1 DEF AloneWith
    <2>3. Pending(c)' => Pending(c)
      BY <1>1 DEF Pending
    <2> QED
      BY <2>1, <2>2, <2>3
  <1>5. ApprovalsAnnounced'
    BY <1>1 DEF QueueInv, ApprovalsAnnounced
  <1> QED
    BY <1>2, <1>3, <1>4, <1>5 DEF QueueInv, Undisturbed

LEMMA CommitAppealStep ==
  ASSUME QueueInv, NEW a \in Appeals, CommitAppeal(a)
  PROVE  QueueInv'
  <1>1. PICK c \in Claims : c = appeals[a].claim
    BY DEF QueueInv, QueueTypes, CommitAppeal
  <1>2. /\ appeals[a].at = "read"
        /\ claims' = [claims EXCEPT ![c].status = "in_review"]
        /\ appeals' = [appeals EXCEPT ![a].at = "done"]
        /\ UNCHANGED <<reviews, announced, approved, unsent, overlaps>>
    BY <1>1 DEF CommitAppeal
  <1>3. /\ \A d \in Claims \ {c} : claims'[d] = claims[d]
        /\ \A d \in Claims : claims'[d].fraud = claims[d].fraud
        /\ \A b \in Appeals \ {a} : appeals'[b] = appeals[b]
        /\ appeals'[a].at = "done"
    BY <1>2 DEF QueueInv, QueueTypes
  <1>4. QueueTypes'
    BY <1>2, <1>3 DEF QueueInv, QueueTypes, Statuses
  <1>5. CommittedApproved' /\ ApprovalsAnnounced'
    BY <1>2 DEF QueueInv, CommittedApproved, ApprovalsAnnounced
  <1>6. Entitled'
    BY <1>2, <1>3 DEF QueueInv, QueueTypes, Entitled, Authorized
  <1>7. ASSUME NEW d \in Claims \ overlaps'
        PROVE  AloneWith(d)' /\ (d \in approved' => claims'[d].status = "approved" /\ ~Pending(d)')
    <2>1. AloneWith(d) /\ (d \in approved => claims[d].status = "approved" /\ ~Pending(d))
      BY <1>2 DEF QueueInv, Undisturbed
    <2>2. AloneWith(d)'
      BY <1>2, <1>3, <2>1 DEF AloneWith
    <2>3. Pending(d)' => Pending(d)
      BY <1>2, <1>3 DEF Pending
    <2>4. d = c => d \notin approved
      BY <1>1, <1>2, <2>1 DEF Pending
    <2> QED
      BY <1>2, <1>3, <2>1, <2>2, <2>3, <2>4
  <1> QED
    BY <1>4, <1>5, <1>6, <1>7 DEF QueueInv, Undisturbed

LEMMA NextQueueInv == QueueInv /\ [ReviewNext]_reviewVars => QueueInv'
  <1> SUFFICES ASSUME QueueInv, [ReviewNext]_reviewVars PROVE QueueInv'
    OBVIOUS
  <1> announced \subseteq approved
    BY DEF QueueInv, ApprovalsAnnounced
  <1>1. ASSUME NEW r \in Reviewers, NEW c \in Claims, DecisionRaises(r, c) \/ AdminReviewRaises(r, c)
        PROVE  QueueInv'
    BY <1>1, RequestEnds DEF DecisionRaises, AdminReviewRaises
  <1>2. ASSUME NEW r \in Reviewers, AnnounceApproval(r) PROVE QueueInv'
    <2>1. reviews[r].claim \in approved
      BY <1>2 DEF QueueInv, CommittedApproved, AnnounceApproval
    <2> QED
      BY <1>2, <2>1, RequestEnds DEF AnnounceApproval
  <1>3. ASSUME NEW r \in Reviewers, DecisionFails(r) PROVE QueueInv'
    BY <1>3, RequestEnds DEF DecisionFails
  <1>4. ASSUME NEW r \in Reviewers, SendAgain(r) PROVE QueueInv'
    BY <1>4, RequestEnds DEF SendAgain
  <1>5. CASE UNCHANGED reviewVars
    BY <1>5 DEF reviewVars, QueueInv, QueueTypes, CommittedApproved, Entitled, Authorized,
       Undisturbed, AloneWith, Pending, ApprovalsAnnounced
  <1> QED
    BY <1>1, <1>2, <1>3, <1>4, <1>5, ReadForDecisionStep, CommitDecisionStep, ReadForAppealStep,
       CommitAppealStep
    DEF ReviewNext, Decide, Appeal

LEMMA QueueInvariant == ReviewSpec => []QueueInv
  BY InitQueueInv, NextQueueInv, PTL DEF ReviewSpec

-----------------------------------------------------------------------------
(* Results. *)

(* A committed approval is undone only where two requests on the claim        *)
(* overlapped (decide_review_queue_item and submit_appeal lock nothing).      *)
THEOREM ApprovalsStand == ReviewSpec => []ApprovalStands
  <1>1. QueueInv => ApprovalStands
    <2> SUFFICES ASSUME QueueInv, NEW c \in approved \ overlaps PROVE claims[c].status = "approved"
      BY DEF ApprovalStands
    <2>1. c \in Claims
      BY DEF QueueInv, QueueTypes
    <2> QED
      BY <2>1 DEF QueueInv, Undisturbed
  <1> QED
    BY <1>1, QueueInvariant, PTL

(* claim.approved is published for every committed approval, unless the       *)
(* request failed after its commit, and for no other claim.                   *)
THEOREM ApprovalsAreAnnounced == ReviewSpec => []ApprovalsAnnounced
  BY QueueInvariant, PTL DEF QueueInv

(* What score_claim stopped is approved by a risk administrator only, however *)
(* requests interleave.                                                       *)
THEOREM AdminsApproveStopped == ReviewSpec => StoppedNeedsAdmin
  <1> DEFINE A == \A c \in Claims :
          (/\ claims[c].fraud.decision \in {"manual_review", "auto_block", "CRITICAL"}
           /\ claims[c].status # "approved" /\ claims'[c].status = "approved")
          => \E r \in RiskAdmins : reviews[r].claim = c /\ reviews'[r].at = "committed"
  <1>1. QueueInv /\ [ReviewNext]_reviewVars => [A]_reviewVars
    <2> SUFFICES ASSUME QueueInv, ReviewNext, NEW c \in Claims,
                        claims[c].fraud.decision \in Stopped,
                        claims[c].status # "approved", claims'[c].status = "approved"
                 PROVE  \E r \in RiskAdmins : reviews[r].claim = c /\ reviews'[r].at = "committed"
      BY DEF Stopped
    <2>1. ASSUME NEW r \in Reviewers, CommitDecision(r)
          PROVE  \E q \in RiskAdmins : reviews[q].claim = c /\ reviews'[q].at = "committed"
      <3>1. /\ reviews[r].at = "read"
            /\ claims' = [claims EXCEPT ![reviews[r].claim].status = Decided(reviews[r].verdict)]
            /\ reviews' = [reviews EXCEPT ![r] = IF reviews[r].verdict = "APPROVE"
                              THEN [reviews[r] EXCEPT !.at = "committed"] ELSE Answered]
        BY <2>1 DEF CommitDecision
      <3>2. reviews[r].claim = c /\ Decided(reviews[r].verdict) = "approved"
        BY <3>1 DEF QueueInv, QueueTypes
      <3>3. reviews'[r].at = "committed"
        BY <3>1, <3>2 DEF Decided, QueueInv, QueueTypes
      <3>4. RiskTier(claims[c].fraud) \in AdminTiers
        BY StoppedIsHigh DEF QueueInv, QueueTypes
      <3>5. r \in RiskAdmins
        BY <3>1, <3>2, <3>4 DEF QueueInv, Entitled, Authorized, AdminTiers
      <3> QED
        BY <3>2, <3>3, <3>5
    <2>2. ASSUME NEW a \in Appeals, CommitAppeal(a) PROVE FALSE
      BY <2>2 DEF CommitAppeal, QueueInv, QueueTypes
    <2>3. ASSUME claims' = claims PROVE FALSE
      BY <2>3
    <2> QED
      BY <2>1, <2>2, <2>3 DEF ReviewNext, Decide, Appeal, ReadForDecision, DecisionRaises,
         AdminReviewRaises, AnnounceApproval, DecisionFails, SendAgain, ReadForAppeal
  <1> QED
    BY <1>1, QueueInvariant, PTL DEF ReviewSpec, StoppedNeedsAdmin
=============================================================================
