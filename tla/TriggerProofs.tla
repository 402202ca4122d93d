---------------------------- MODULE TriggerProofs ----------------------------
(***************************************************************************)
(* Proofs about the two services that watch the weather.                   *)
(*                                                                         *)
(* TriggerPoller, for any feeds, durations, clock and number of faults:    *)
(* what fires has lasted and was read lately, rows that were not published *)
(* are accounted for, and the client main opens lets no timed kind fire.   *)
(*                                                                         *)
(* TriggerEvaluator, for every set of adapters and conditions, every       *)
(* duration, polling interval and lateness: what is recorded has lasted,   *)
(* what lasts is recorded with a bounded delay, and every row is announced *)
(* but for one message per mishap.                                         *)
(***************************************************************************)
EXTENDS TriggerPoller, TriggerEvaluator, Integers, FiniteSetTheorems, TLAPS

-----------------------------------------------------------------------------
(* The poller.                                                             *)


(* A cycle writes its evaluations before the loop sleeps, in order: only    *)
(* the first can be written and not yet published.                          *)
BatchShape ==
  /\ due => batch = << >>
  /\ \A i \in DOMAIN batch : i > 1 => ~batch[i].written

(* A timer was set during the breach that is still going on. *)
TimerBacked ==
  \A k \in Timed :
    timer[k] # None => seen[k] # None /\ seen[k] <= timer[k] /\ timer[k] <= now

SeenBefore == \A k \in Timed : seen[k] # None => seen[k] <= now

(* An active row that was written and not yet published is unsent. *)
SentCounted == batch # << >> /\ Head(batch).written => unsent > 0

(* A cached reading is dated when it was measured. *)
CacheDated == \A k \in Timed : cache[k] # None => cache[k].made = cache[k].at

PollInv ==
  /\ TypeOK
  /\ CacheDated
  /\ SeenBefore
  /\ BatchShape
  /\ TimerBacked
  /\ FiresAfterSustainedBreach
  /\ FiresOnRecentReading
  /\ UnsentAccounted
  /\ SentCounted

LEMMA FunctionIsSeq ==
  ASSUME NEW S, NEW m \in Nat, NEW f \in [1..m -> S]
  PROVE  f \in Seq(S)
  OBVIOUS

LEMMA FirstElement ==
  ASSUME NEW S, NEW s \in Seq(S), s # << >>
  PROVE  Head(s) = s[1] /\ 1 \in DOMAIN s
  OBVIOUS

LEMMA FirstReplaced ==
  ASSUME NEW S, NEW s \in Seq(S), s # << >>, NEW x \in S, NEW r, r = [s EXCEPT ![1] = x]
  PROVE  /\ r \in Seq(S) /\ r # << >> /\ Head(r) = x
         /\ DOMAIN r = DOMAIN s /\ 1 \in DOMAIN s
         /\ r[1] = x
         /\ \A i \in DOMAIN s : i > 1 => r[i] = s[i]
  <1>1. Len(s) \in Nat /\ DOMAIN s = 1..Len(s) /\ s \in [1..Len(s) -> S]
    OBVIOUS
  <1>2. DOMAIN r = 1..Len(s)
    BY <1>1
  <1>3. 1 \in 1..Len(s)
    BY <1>1, FirstElement
  <1>4. r[1] = x
    BY <1>1, <1>3
  <1>5. \A i \in DOMAIN s : i > 1 => r[i] = s[i]
    BY <1>1
  <1>6. r \in [1..Len(s) -> S]
    BY <1>1
  <1>7. r \in Seq(S)
    BY <1>1, <1>6, FunctionIsSeq
  <1>8. r # << >> /\ Head(r) = x
    BY <1>2, <1>4, <1>3, <1>7, FirstElement
  <1> QED
    BY <1>1, <1>2, <1>4, <1>3, <1>5, <1>7, <1>8

LEMMA Elements ==
  ASSUME NEW S, NEW s \in Seq(S)
  PROVE  ToSet(s) = {s[i] : i \in 1..Len(s)}
  <1>1. DOMAIN s = 1..Len(s)
    OBVIOUS
  <1> QED
    BY <1>1 DEF ToSet

LEMMA KindsInOrder ==
  /\ Timed = {Feeds[i] : i \in 1..Len(Feeds)}
  /\ Len(Feeds) \in Nat
  /\ Len(Feeds \o Local) \in Nat
  /\ DOMAIN (Feeds \o Local) = 1..Len(Feeds \o Local)
  /\ \A i \in DOMAIN (Feeds \o Local) : (Feeds \o Local)[i] \in Kinds
  <1>1. Timed = {Feeds[i] : i \in 1..Len(Feeds)} /\ Feeds \in Seq(Kinds) /\ Local \in Seq(Kinds)
    <2>1. Feeds \in Seq(Timed) /\ Local \in Seq(ToSet(Local))
      BY PollerAssumption
    <2>2. Timed \subseteq Kinds /\ ToSet(Local) \subseteq Kinds
      BY DEF Kinds
    <2>3. Timed = {Feeds[i] : i \in 1..Len(Feeds)}
      BY <2>1, Elements DEF Timed
    <2> QED
      BY <2>1, <2>2, <2>3
  <1> QED
    BY <1>1

(* The tail of a batch holds evaluations of the batch, none of them written. *)
LEMMA BatchTail ==
  ASSUME TypeOK, BatchShape, batch # << >>
  PROVE  /\ Tail(batch) \in Seq(EvaluationType)
         /\ DOMAIN Tail(batch) = 1..(Len(batch) - 1)
         /\ \A i \in DOMAIN Tail(batch) :
              /\ i + 1 \in DOMAIN batch
              /\ Tail(batch)[i] = batch[i + 1]
              /\ ~Tail(batch)[i].written
         /\ Head(batch) = batch[1] /\ 1 \in DOMAIN batch
         /\ Head(batch) \in EvaluationType
  <1> USE DEF TypeOK
  <1>1. /\ Tail(batch) \in Seq(EvaluationType)
        /\ Len(Tail(batch)) = Len(batch) - 1
        /\ \A i \in 1..Len(Tail(batch)) : Tail(batch)[i] = batch[i + 1]
        /\ Head(batch) = batch[1] /\ 1 \in DOMAIN batch
        /\ Head(batch) \in EvaluationType
        /\ Len(batch) \in Nat /\ DOMAIN batch = 1..Len(batch)
    OBVIOUS
  <1>2. DOMAIN Tail(batch) = 1..(Len(batch) - 1)
    BY <1>1
  <1>3. \A i \in DOMAIN Tail(batch) : i + 1 \in DOMAIN batch /\ i + 1 > 1
    BY <1>1, <1>2
  <1> QED
    BY <1>1, <1>2, <1>3 DEF BatchShape

LEMMA InitPollInv == Init => PollInv
  BY PollerAssumption
  DEF Init, PollInv, CacheDated, SeenBefore, TypeOK, Levels, Kinds, BatchShape, TimerBacked, FiresAfterSustainedBreach,
      FiresOnRecentReading, UnsentAccounted, SentCounted

-----------------------------------------------------------------------------
(* A cycle whose feeds were all polled or cached. *)

Begun(polled, k) ==
  IF Reading(polled, k).level = "calm" THEN None
  ELSE IF seen[k] = None THEN now ELSE seen[k]

LEMMA ReadingTyped ==
  ASSUME TypeOK, CacheDated, NEW polled \in SUBSET Timed, \A k \in Timed \ polled : Cached(k),
         NEW k \in Kinds
  PROVE  /\ Reading(polled, k) \in ReadingType
         /\ now <= Reading(polled, k).made + 1
  <1> USE DEF TypeOK, CacheDated, ReadingType
  <1>1. CASE k \in Timed \ polled
    BY <1>1 DEF Reading, Cached
  <1>2. CASE k \notin Timed \ polled
    BY <1>2 DEF Reading
  <1> QED
    BY <1>1, <1>2

LEMMA CacheTyped ==
  ASSUME TypeOK, CacheDated, NEW polled \in SUBSET Timed, cache' = CacheAfter(polled)
  PROVE  cache' \in [Timed -> ReadingType \cup {None}] /\ CacheDated'
  <1>1. ASSUME NEW k \in polled PROVE Reading(polled, k) \in ReadingType
    <2>1. Reading(polled, k) = [level |-> sky[k], at |-> now, made |-> now]
      BY <1>1 DEF Reading
    <2>2. sky[k] \in Levels /\ now \in Nat
      BY <1>1 DEF TypeOK, Kinds
    <2> QED
      BY <2>1, <2>2 DEF ReadingType
  <1>2. \A k \in polled : Reading(polled, k).made = Reading(polled, k).at
    BY DEF Reading
  <1> QED
    BY <1>1, <1>2 DEF TypeOK, CacheDated, CacheAfter

(* The timer of a breach never predates what was seen of it, and a kind    *)
(* that fires has been seen for its duration.                              *)
LEMMA TimersAfter ==
  ASSUME PollInv, NEW polled \in SUBSET Timed, \A k \in Timed \ polled : Cached(k),
         NEW k \in Timed
  PROVE  /\ TimerAfter(k, Reading(polled, k).level) \in Nat \cup {None}
         /\ Begun(polled, k) \in Nat \cup {None}
         /\ Begun(polled, k) # None => Begun(polled, k) <= now
         /\ TimerAfter(k, Reading(polled, k).level) # None =>
              /\ Begun(polled, k) # None
              /\ Begun(polled, k) <= TimerAfter(k, Reading(polled, k).level)
              /\ TimerAfter(k, Reading(polled, k).level) <= now
         /\ Fires(k, Reading(polled, k).level) =>
              Begun(polled, k) # None /\ Begun(polled, k) + Duration[k] <= now
  <1>1. /\ now \in Nat /\ timer[k] \in Nat \cup {None} /\ seen[k] \in Nat \cup {None}
        /\ Duration[k] \in Nat /\ Duration[k] > 0 /\ None \notin Nat
    BY PollerAssumption DEF PollInv, TypeOK, Kinds
  <1>2. timer[k] # None => seen[k] # None /\ seen[k] <= timer[k] /\ timer[k] <= now
    BY DEF PollInv, TimerBacked
  <1>3. Kept(k) => timer[k] # None
    BY DEF Kept, Running
  <1>4. Fires(k, Reading(polled, k).level) =>
          Reading(polled, k).level # "calm" /\ Kept(k) /\ now - timer[k] >= Duration[k]
    BY <1>1 DEF Fires, Elapsed
  <1> DEFINE level == Reading(polled, k).level
  <1>5. CASE level = "calm"
    BY <1>4, <1>5 DEF TimerAfter, Begun
  <1>6. CASE level # "calm" /\ Kept(k)
    <2>1. /\ TimerAfter(k, level) = timer[k] /\ timer[k] \in Nat
          /\ Begun(polled, k) = seen[k] /\ seen[k] \in Nat
      BY <1>1, <1>2, <1>3, <1>6 DEF TimerAfter, Begun
    <2> QED
      BY <1>1, <1>2, <1>3, <1>4, <1>6, <2>1
  <1>7. CASE level # "calm" /\ ~Kept(k)
    <2>1. /\ TimerAfter(k, level) = now
          /\ Begun(polled, k) \in Nat /\ Begun(polled, k) <= now
      <3>1. CASE seen[k] = None
        BY <1>1, <1>7, <3>1 DEF TimerAfter, Begun
      <3>2. CASE seen[k] # None
        BY <1>1, <1>7, <3>2 DEF TimerAfter, Begun, PollInv, SeenBefore
      <3> QED
        BY <3>1, <3>2
    <2> QED
      BY <1>1, <1>4, <1>7, <2>1
  <1> QED
    BY <1>5, <1>6, <1>7

LEMMA EvaluateStep ==
  ASSUME PollInv, due, NEW polled \in SUBSET Timed, \A k \in Timed \ polled : Cached(k),
         Evaluate(polled), cache' = CacheAfter(polled), due' = FALSE,
         UNCHANGED <<client, now, sky, unsent, faults>>
  PROVE  PollInv'
  <1> DEFINE n == Len(Feeds \o Local)
             kind(i) == (Feeds \o Local)[i]
             read(k) == Reading(polled, k)
             level(k) == read(k).level
  <1>1. /\ timer' = [k \in Timed |-> TimerAfter(k, level(k))]
        /\ seen' = [k \in Kinds |-> Begun(polled, k)]
        /\ waiting' = [k \in Kinds |-> IF level(k) # "strong" \/ Fires(k, level(k))
                                       THEN 0 ELSE waiting[k] + 1]
        /\ batch' = [i \in DOMAIN (Feeds \o Local) |->
                       [kind |-> kind(i), active |-> Fires(kind(i), level(kind(i))),
                        since |-> Begun(polled, kind(i)), read |-> read(kind(i)).made,
                        written |-> FALSE]]
    BY DEF Evaluate, Begun
  <1>2. n \in Nat /\ DOMAIN (Feeds \o Local) = 1..n /\ \A i \in 1..n : kind(i) \in Kinds
    BY KindsInOrder
  <1>3. \A k \in Kinds : /\ read(k).made \in Nat /\ now <= read(k).made + 1
                         /\ Fires(k, level(k)) \in BOOLEAN
                         /\ Begun(polled, k) \in Nat \cup {None}
    <2>1. ASSUME NEW k \in Kinds
          PROVE  read(k) \in ReadingType /\ now <= read(k).made + 1
      BY <2>1, ReadingTyped DEF PollInv
    <2>2. ASSUME NEW k \in Kinds PROVE Begun(polled, k) \in Nat \cup {None}
      BY DEF Begun, PollInv, TypeOK
    <2> QED
      BY <2>1, <2>2 DEF ReadingType, Fires
  <1>4. /\ DOMAIN batch' = 1..n
        /\ \A i \in 1..n :
             /\ batch'[i].kind = kind(i) /\ ~batch'[i].written
             /\ batch'[i].active = Fires(kind(i), level(kind(i)))
             /\ batch'[i].since = Begun(polled, kind(i))
             /\ batch'[i].read = read(kind(i)).made
    BY <1>1, <1>2
  <1>5. batch' \in Seq(EvaluationType)
    <2>1. ASSUME NEW i \in 1..n PROVE batch'[i] \in EvaluationType
      <3>1. /\ kind(i) \in Kinds /\ read(kind(i)).made \in Nat
            /\ Fires(kind(i), level(kind(i))) \in BOOLEAN
            /\ Begun(polled, kind(i)) \in Nat \cup {None}
        BY <1>2, <1>3
      <3> HIDE DEF kind, level, read
      <3>2. batch'[i] = [kind |-> kind(i), active |-> Fires(kind(i), level(kind(i))),
                         since |-> Begun(polled, kind(i)), read |-> read(kind(i)).made,
                         written |-> FALSE]
        BY <1>1, <1>2
      <3> QED
        BY <3>1, <3>2 DEF EvaluationType
    <2>2. batch' \in [1..n -> EvaluationType]
      BY <1>1, <1>2, <2>1
    <2> HIDE DEF n
    <2> QED
      BY <1>2, <2>2, FunctionIsSeq
  <1>6. TypeOK' /\ CacheDated'
    <2>1. timer' \in [Timed -> Nat \cup {None}]
      BY <1>1, TimersAfter
    <2>2. seen' \in [Kinds -> Nat \cup {None}]
      BY <1>1, <1>3
    <2>3. waiting' \in [Kinds -> Nat]
      BY <1>1 DEF PollInv, TypeOK
    <2> QED
      BY <1>5, <2>1, <2>2, <2>3, CacheTyped DEF PollInv, TypeOK
  <1>7. BatchShape'
    BY <1>4 DEF BatchShape
  <1>8. TimerBacked' /\ SeenBefore'
    <2>1. \A k \in Timed : timer'[k] = TimerAfter(k, level(k)) /\ seen'[k] = Begun(polled, k)
      BY <1>1 DEF Kinds
    <2> QED
      BY <2>1, TimersAfter DEF TimerBacked, SeenBefore
  <1>9. FiresAfterSustainedBreach'
    BY <1>4, TimersAfter DEF FiresAfterSustainedBreach
  <1>10. FiresOnRecentReading'
    BY <1>2, <1>3, <1>4 DEF FiresOnRecentReading
  <1>11. UnsentAccounted' /\ SentCounted'
    <2>1. batch = << >> /\ unsent <= faults /\ unsent \in Nat /\ faults \in Nat
      BY PollerAssumption DEF PollInv, BatchShape, UnsentAccounted, TypeOK
    <2> QED
      BY <1>2, <1>4, <1>5, <2>1 DEF UnsentAccounted, SentCounted
  <1> QED
    BY <1>6, <1>7, <1>8, <1>9, <1>10, <1>11 DEF PollInv

-----------------------------------------------------------------------------
(* The other steps. *)

(* A zone that is skipped changes no more than the cache. *)
LEMMA SkippedZone ==
  ASSUME PollInv, due, NEW polled \in SUBSET Timed, cache' = CacheAfter(polled), due' = FALSE,
         waiting' = [k \in Kinds |-> 0], UNCHANGED <<client, now, sky, timer, batch, unsent, faults, seen>>
  PROVE  PollInv'
  <1>1. batch = << >>
    BY DEF PollInv, BatchShape
  <1>2. TypeOK' /\ CacheDated'
    BY CacheTyped DEF PollInv, TypeOK
  <1>3. BatchShape' /\ TimerBacked' /\ SeenBefore'
    BY <1>1 DEF PollInv, BatchShape, TimerBacked, SeenBefore
  <1>4. FiresAfterSustainedBreach' /\ FiresOnRecentReading'
    BY <1>1 DEF FiresAfterSustainedBreach, FiresOnRecentReading
  <1>5. UnsentAccounted' /\ SentCounted'
    BY <1>1 DEF PollInv, UnsentAccounted, SentCounted
  <1> QED
    BY <1>2, <1>3, <1>4, <1>5 DEF PollInv

LEMMA PollZoneCases ==
  ASSUME PollZone
  PROVE  /\ due /\ due' = FALSE /\ UNCHANGED <<client, now, sky, unsent, faults>>
         /\ \E polled \in SUBSET Timed :
              /\ cache' = CacheAfter(polled)
              /\ \/ (\A k \in Timed \ polled : Cached(k)) /\ Evaluate(polled)
                 \/ UNCHANGED <<timer, batch, seen>> /\ waiting' = [k \in Kinds |-> 0]
  <1>1. PICK m \in 0..Len(Feeds) :
          LET answered == {Feeds[i] : i \in 1..m} IN
          \E polled \in SUBSET answered :
            /\ \A k \in answered \ polled : Cached(k)
            /\ cache' = CacheAfter(polled)
            /\ IF m = Len(Feeds)
                 THEN Evaluate(polled)
                 ELSE UNCHANGED <<timer, batch, seen>> /\ waiting' = [k \in Kinds |-> 0]
    BY DEF PollZone
  <1> DEFINE answered == {Feeds[i] : i \in 1..m}
  <1>2. PICK polled \in SUBSET answered :
          /\ \A k \in answered \ polled : Cached(k)
          /\ cache' = CacheAfter(polled)
          /\ IF m = Len(Feeds)
               THEN Evaluate(polled)
               ELSE UNCHANGED <<timer, batch, seen>> /\ waiting' = [k \in Kinds |-> 0]
    BY <1>1
  <1>3. polled \in SUBSET Timed
    BY <1>2, KindsInOrder
  <1>4. CASE m = Len(Feeds)
    BY <1>2, <1>3, <1>4, KindsInOrder DEF PollZone
  <1>5. CASE m # Len(Feeds)
    BY <1>2, <1>3, <1>5 DEF PollZone
  <1> QED
    BY <1>4, <1>5

(* The loop sleeps with every evaluation written. *)
LEMMA TickStep == PollInv /\ Tick => PollInv'
  <1> SUFFICES ASSUME PollInv, Tick PROVE PollInv'
    OBVIOUS
  <1> USE DEF PollInv, Tick
  <1>1. TypeOK'
    BY PollerAssumption DEF TypeOK
  <1>2. BatchShape' /\ TimerBacked' /\ SeenBefore' /\ CacheDated'
    BY DEF BatchShape, TimerBacked, SeenBefore, CacheDated, TypeOK, Kinds
  <1>3. FiresAfterSustainedBreach' /\ FiresOnRecentReading'
    BY DEF FiresAfterSustainedBreach, FiresOnRecentReading
  <1>4. UnsentAccounted' /\ SentCounted'
    BY DEF UnsentAccounted, SentCounted
  <1> QED
    BY <1>1, <1>2, <1>3, <1>4

(* The first evaluation leaves the batch. *)
LEMMA TailStep ==
  ASSUME PollInv, batch # << >>, batch' = Tail(batch), unsent' \in Nat,
         unsent' <= faults,
         UNCHANGED <<client, now, sky, due, cache, timer, faults, seen, waiting>>
  PROVE  PollInv'
  <1>1. /\ batch' \in Seq(EvaluationType)
        /\ \A i \in DOMAIN batch' :
             i + 1 \in DOMAIN batch /\ batch'[i] = batch[i + 1] /\ ~batch'[i].written
    BY BatchTail DEF PollInv
  <1>2. TypeOK' /\ TimerBacked' /\ SeenBefore' /\ CacheDated'
    BY <1>1 DEF PollInv, TypeOK, TimerBacked, SeenBefore, CacheDated
  <1>3. BatchShape'
    BY <1>1 DEF PollInv, BatchShape
  <1>4. FiresAfterSustainedBreach'
    BY <1>1 DEF PollInv, FiresAfterSustainedBreach
  <1>5. FiresOnRecentReading'
    BY <1>1 DEF PollInv, FiresOnRecentReading
  <1>6. UnsentAccounted' /\ SentCounted'
    <2>1. ~(batch' # << >> /\ Head(batch').written)
      <3> SUFFICES ASSUME batch' # << >> PROVE ~Head(batch').written
        OBVIOUS
      <3>1. Head(batch') = batch'[1] /\ 1 \in DOMAIN batch'
        BY <1>1, FirstElement
      <3> QED
        BY <1>1, <3>1
    <2>2. faults \in Nat /\ faults' = faults
      BY PollerAssumption DEF PollInv, TypeOK
    <2> QED
      BY <2>1, <2>2 DEF UnsentAccounted, SentCounted
  <1> QED
    BY <1>2, <1>3, <1>4, <1>5, <1>6 DEF PollInv

LEMMA WriteStep == PollInv /\ WriteEvaluation => PollInv'
  <1> SUFFICES ASSUME PollInv, WriteEvaluation PROVE PollInv'
    OBVIOUS
  <1>1. batch # << >> /\ ~Head(batch).written
    BY DEF WriteEvaluation
  <1>2. unsent \in Nat /\ faults \in Nat /\ unsent <= faults
    BY <1>1, PollerAssumption DEF PollInv, TypeOK, UnsentAccounted
  <1>3. CASE ~Head(batch).active
    BY <1>1, <1>2, <1>3, TailStep DEF WriteEvaluation
  <1>4. CASE Head(batch).active
    <2>1. /\ batch' = [batch EXCEPT ![1].written = TRUE] /\ unsent' = unsent + 1
          /\ UNCHANGED <<client, now, sky, due, cache, timer, faults, seen, waiting>>
      BY <1>4 DEF WriteEvaluation
    <2>2. /\ batch \in Seq(EvaluationType) /\ 1 \in DOMAIN batch
          /\ Head(batch) = batch[1] /\ DOMAIN batch = 1..Len(batch)
      BY <1>1, BatchTail DEF PollInv, TypeOK
    <2> DEFINE first == [batch[1] EXCEPT !.written = TRUE]
    <2>3. /\ first \in EvaluationType /\ first.written
          /\ first.kind = batch[1].kind /\ first.active = batch[1].active
          /\ first.since = batch[1].since /\ first.read = batch[1].read
      <3>1. batch[1] \in EvaluationType
        BY <2>2
      <3> QED
        BY <3>1 DEF EvaluationType
    <2>4. batch' = [batch EXCEPT ![1] = first]
      BY <2>1
    <2> HIDE DEF first
    <2>5. /\ batch' \in Seq(EvaluationType) /\ batch' # << >> /\ Head(batch') = first
           /\ DOMAIN batch' = DOMAIN batch /\ batch'[1] = first
           /\ \A i \in DOMAIN batch : i > 1 => batch'[i] = batch[i]
      BY <1>1, <2>2, <2>3, <2>4, FirstReplaced
    <2>6. ASSUME NEW i \in DOMAIN batch'
           PROVE  /\ i \in DOMAIN batch
                  /\ i > 1 => batch'[i] = batch[i]
                  /\ batch'[i].kind = batch[i].kind /\ batch'[i].active = batch[i].active
                  /\ batch'[i].since = batch[i].since /\ batch'[i].read = batch[i].read
      <3>1. i \in DOMAIN batch /\ (i = 1 \/ i > 1)
        BY <2>2, <2>5
      <3>2. CASE i = 1
        BY <2>3, <2>5, <3>1, <3>2
      <3>3. CASE i > 1
        BY <2>5, <3>1, <3>3
      <3> QED
        BY <3>1, <3>2, <3>3
    <2>7. TypeOK' /\ TimerBacked' /\ SeenBefore' /\ CacheDated'
      BY <1>2, <2>1, <2>5 DEF PollInv, TypeOK, TimerBacked, SeenBefore, CacheDated
    <2>8. BatchShape'
      BY <1>1, <2>1, <2>6 DEF PollInv, BatchShape
    <2>9. FiresAfterSustainedBreach'
      BY <2>1, <2>6 DEF PollInv, FiresAfterSustainedBreach
    <2>10. FiresOnRecentReading'
      BY <2>1, <2>6 DEF PollInv, FiresOnRecentReading
    <2>11. UnsentAccounted' /\ SentCounted'
      <3>1. /\ batch' # << >> /\ Head(batch').written
            /\ unsent' = unsent + 1 /\ faults' = faults
        BY <2>1, <2>3, <2>5
      <3> QED
        BY <1>2, <3>1 DEF UnsentAccounted, SentCounted
    <2> QED
      BY <2>7, <2>8, <2>9, <2>10, <2>11 DEF PollInv
  <1> QED
    BY <1>3, <1>4

(* Only a row that was counted as unsent is published. *)
LEMMA PublishStep == PollInv /\ Publish => PollInv'
  <1> SUFFICES ASSUME PollInv, Publish PROVE PollInv'
    OBVIOUS
  <1>1. unsent \in Nat /\ faults \in Nat /\ unsent <= faults + 1 /\ unsent > 0
    BY PollerAssumption DEF PollInv, TypeOK, UnsentAccounted, SentCounted, Publish
  <1> QED
    BY <1>1, TailStep DEF Publish

LEMMA NextPollInv == PollInv /\ [Next]_vars => PollInv'
  <1> SUFFICES ASSUME PollInv, [Next]_vars PROVE PollInv'
    OBVIOUS
  <1>1. CASE PollZone
    <2>1. PICK polled \in SUBSET Timed :
            /\ cache' = CacheAfter(polled)
            /\ \/ (\A k \in Timed \ polled : Cached(k)) /\ Evaluate(polled)
               \/ UNCHANGED <<timer, batch, seen>> /\ waiting' = [k \in Kinds |-> 0]
      BY <1>1, PollZoneCases
    <2>2. due /\ due' = FALSE /\ UNCHANGED <<client, now, sky, unsent, faults>>
      BY <1>1, PollZoneCases
    <2> QED
      BY <2>1, <2>2, EvaluateStep, SkippedZone
  <1>2. CASE ZoneFails \/ Restart
    <2>1. batch' = << >> /\ faults' = faults + 1
      BY <1>2 DEF ZoneFails, Restart
    <2>2. /\ faults < MaxFaults /\ due' \in BOOLEAN
          /\ UNCHANGED <<client, now, sky, cache, timer, unsent, seen, waiting>>
      BY <1>2 DEF ZoneFails, Restart, PollInv, TypeOK
    <2>3. TypeOK'
      <3>1. MaxFaults \in Nat /\ faults \in 0..MaxFaults
        BY PollerAssumption DEF PollInv, TypeOK
      <3>2. faults' \in 0..MaxFaults
        BY <2>1, <2>2, <3>1
      <3> QED
        BY <2>1, <2>2, <3>2 DEF PollInv, TypeOK
    <2>4. TimerBacked' /\ SeenBefore' /\ CacheDated'
      BY <2>2 DEF PollInv, TimerBacked, SeenBefore, CacheDated
    <2>5. BatchShape' /\ FiresAfterSustainedBreach' /\ FiresOnRecentReading'
      BY <2>1 DEF BatchShape, FiresAfterSustainedBreach, FiresOnRecentReading
    <2>6. UnsentAccounted' /\ SentCounted'
      BY <1>2, <2>1, PollerAssumption
      DEF PollInv, TypeOK, UnsentAccounted, SentCounted, ZoneFails, Restart
    <2> QED
      BY <2>5, <2>6, <2>3, <2>4 DEF PollInv
  <1>3. CASE UNCHANGED vars
    BY <1>3 DEF vars, PollInv, TypeOK, TimerBacked, SeenBefore, CacheDated, BatchShape,
                UnsentAccounted, SentCounted, FiresAfterSustainedBreach, FiresOnRecentReading
  <1> QED
    BY <1>1, <1>2, <1>3, TickStep, WriteStep, PublishStep DEF Next

LEMMA PollInvariant == Spec => []PollInv
  BY InitPollInv, NextPollInv, PTL DEF Spec

(* Type correctness of the poller: in particular nothing is published that  *)
(* was not written.                                                         *)
THEOREM PollerTypeCorrect == Spec => []TypeOK
  BY PollInvariant, PTL DEF PollInv

(* No timed trigger fires before its breach has lasted for its duration,    *)
(* through missed polls, skipped zones, cached readings and restarts.       *)
THEOREM SustainedBeforeFiring == Spec => []FiresAfterSustainedBreach
  BY PollInvariant, PTL DEF PollInv

(* No trigger fires on a reading older than one interval.                   *)
THEOREM RecentBeforeFiring == Spec => []FiresOnRecentReading
  BY PollInvariant, PTL DEF PollInv

(* Active rows that were never published are at most as many as failures.   *)
THEOREM UnsentRowsAccounted == Spec => []UnsentAccounted
  BY PollInvariant, PTL DEF PollInv

-----------------------------------------------------------------------------
(* The client main opens. *)

(* With a client that returns str the timer counts no interval, so that no  *)
(* kind with a duration is ever active, in memory or among what is left to  *)
(* write: the run PollerTimerRestarts shows one such breach, this says that *)
(* all end so.                                                              *)
StrNeverFires ==
  client = "str" => \A i \in DOMAIN batch : batch[i].kind \in Timed => ~batch[i].active

(* Writing and publishing leave what was evaluated as it was. *)
LEMMA EvaluationsKept ==
  ASSUME PollInv, WriteEvaluation \/ Publish, NEW i \in DOMAIN batch'
  PROVE  \E j \in DOMAIN batch : batch'[i].kind = batch[j].kind /\ batch'[i].active = batch[j].active
  <1>1. /\ batch \in Seq(EvaluationType) /\ batch # << >>
        /\ batch' = Tail(batch) \/ batch' = [batch EXCEPT ![1].written = TRUE]
    BY DEF WriteEvaluation, Publish, PollInv, TypeOK
  <1>2. CASE batch' = Tail(batch)
    <2>1. i + 1 \in DOMAIN batch /\ batch'[i] = batch[i + 1]
      BY <1>1, <1>2, BatchTail DEF PollInv
    <2> QED
      BY <2>1
  <1>3. CASE batch' = [batch EXCEPT ![1].written = TRUE]
    <2> DEFINE first == [batch[1] EXCEPT !.written = TRUE]
    <2>1. batch' = [batch EXCEPT ![1] = first]
      BY <1>3
    <2>2. 1 \in DOMAIN batch /\ batch[1] \in EvaluationType
      BY <1>1, FirstElement
    <2>3. /\ first \in EvaluationType
          /\ first.kind = batch[1].kind /\ first.active = batch[1].active
      BY <2>2 DEF EvaluationType
    <2> HIDE DEF first
    <2>4. i \in DOMAIN batch /\ (i = 1 => batch'[i] = first) /\ (i # 1 => batch'[i] = batch[i])
      BY <1>1, <2>1
    <2> QED
      BY <2>2, <2>3, <2>4
  <1> QED
    BY <1>1, <1>2, <1>3

LEMMA EvaluatedStr ==
  ASSUME PollInv, client = "str", NEW polled, Evaluate(polled),
         NEW i \in DOMAIN batch', batch'[i].kind \in Timed
  PROVE  ~batch'[i].active
  <1> DEFINE k == (Feeds \o Local)[i]
  <1>1. /\ i \in DOMAIN (Feeds \o Local)
        /\ batch'[i].kind = k /\ batch'[i].active = Fires(k, Reading(polled, k).level)
    BY DEF Evaluate
  <1> HIDE DEF k
  <1>2. Elapsed(k) = 0
    BY DEF Elapsed, Kept
  <1>3. Duration[k] \in Nat /\ Duration[k] > 0
    BY <1>1, PollerAssumption
  <1>4. ~Fires(k, Reading(polled, k).level)
    <2>1. k \in Timed /\ ~(Elapsed(k) >= Duration[k])
      BY <1>1, <1>2, <1>3
    <2> QED
      BY <2>1 DEF Fires
  <1> QED
    BY <1>1, <1>4

(* Opened as main opens it, the client makes the poller restart every timer *)
(* it reads: in live mode no trigger with a duration is ever recorded as    *)
(* active, whatever the weather, the feeds and the durations.               *)
THEOREM MainsClientNeverFires == Spec => []StrNeverFires
  <1>1. Init => StrNeverFires
    BY DEF Init, StrNeverFires
  <1>2. PollInv /\ StrNeverFires /\ [Next]_vars => StrNeverFires'
    <2> SUFFICES ASSUME PollInv, StrNeverFires, [Next]_vars, client' = "str",
                        NEW i \in DOMAIN batch', batch'[i].kind \in Timed
                 PROVE  ~batch'[i].active
      BY DEF StrNeverFires
    <2>1. client = "str" /\ \A j \in DOMAIN batch : batch[j].kind \in Timed => ~batch[j].active
      BY DEF Next, Tick, PollZone, WriteEvaluation, Publish, ZoneFails, Restart, vars, StrNeverFires
    <2>2. CASE UNCHANGED batch
      BY <2>1, <2>2
    <2>3. CASE PollZone
      <3>1. PICK polled \in SUBSET Timed : Evaluate(polled) \/ UNCHANGED batch
        BY <2>3, PollZoneCases
      <3> QED
        BY <2>1, <2>2, <3>1, EvaluatedStr
    <2>4. CASE WriteEvaluation \/ Publish
      BY <2>1, <2>4, EvaluationsKept
    <2>5. CASE batch' = << >>
      BY <2>5
    <2> QED
      BY <2>2, <2>3, <2>4, <2>5 DEF Next, Tick, ZoneFails, Restart, vars
  <1> QED
    BY <1>1, <1>2, PollInvariant, PTL DEF Spec

-----------------------------------------------------------------------------
(* The evaluator.                                                          *)
-----------------------------------------------------------------------------
(* Types.                                                                  *)

PointType == [at : Nat, met : BOOLEAN]
CheckType == [kind : EventKinds, confidence : Nat, blank : BOOLEAN,
              next : {"find", "detected", "confirm", "confirmed"}, event : Nat]
EventType == [kind : EventKinds, ended : Nat \cup {Nothing}, confirmed : BOOLEAN,
              blank : BOOLEAN, told : SUBSET Messages]

EvalTyped ==
  /\ clock \in Nat /\ job \in Nat /\ mishaps \in Nat
  /\ history \in [Conditions -> SUBSET PointType]
  /\ since \in [Conditions -> Nat \cup {Nothing}]
  /\ lacking \in [Conditions -> Nat]
  /\ checks \subseteq CheckType
  /\ events \in Seq(EventType)

(* What a poll makes of a reading.                                         *)
Met(reading, k) == Confirming(reading, k) # {}
Keeping(reading, k) == Points(k, history[k] \cup {[at |-> clock, met |-> Met(reading, k)]})
Trust(reading, k) == Confident(Confirming(reading, k), Stale(reading, Confirming(reading, k)))
Detects(reading, k) == Sustained(k, Keeping(reading, k)) /\ Trust(reading, k) >= 70

PollReads(reading) ==
  /\ history' = [k \in Conditions |-> Keeping(reading, k)]
  /\ checks' = {Check(k, Trust(reading, k), reading) : k \in {x \in Conditions : Detects(reading, x)}}
                 \cup RestrictionCheck(reading)
  /\ since' = [k \in Conditions |-> IF ~Met(reading, k) THEN Nothing
                                    ELSE IF since[k] = Nothing THEN clock ELSE since[k]]
  /\ lacking' = [k \in Conditions |->
                   IF Detects(reading, k) \/ Trust(reading, k) < 70 THEN 0 ELSE lacking[k] + 1]

LEMMA PollDoes ==
  ASSUME Poll
  PROVE  /\ checks = {} /\ clock >= job * PollEvery /\ job' = job + 1
         /\ UNCHANGED <<clock, live, restricted, events, mishaps>>
         /\ \E reading : PollReads(reading)
  BY DEF Poll, PollReads, Met, Keeping, Trust, Detects

(* Confidence is a percentage, and none without a source.                  *)
LEMMA ConfidenceGraded ==
  ASSUME NEW sources, NEW stale
  PROVE  /\ Confident(sources, stale) \in Nat
         /\ Confident(sources, stale) >= 70 => sources # {}
  <1>1. CASE sources = {}
    <2>1. Cardinality(sources) = 0
      BY <1>1, FS_EmptySet
    <2> QED
      BY <1>1, <2>1 DEF Confident
  <1>2. CASE sources # {}
    BY <1>2 DEF Confident
  <1> QED
    BY <1>1, <1>2

LEMMA TrustNeedsMet ==
  ASSUME NEW reading, NEW k, ~(Trust(reading, k) < 70)
  PROVE  Met(reading, k)
  BY ConfidenceGraded DEF Trust, Met

LEMMA CheckTyped ==
  ASSUME NEW k \in EventKinds, NEW confidence \in Nat, NEW reading
  PROVE  /\ Check(k, confidence, reading) \in CheckType
         /\ Check(k, confidence, reading).kind = k
         /\ Check(k, confidence, reading).next = "find"
  <1>1. Blank(reading) \in BOOLEAN
    BY DEF Blank
  <1> QED
    BY <1>1 DEF Check, CheckType

LEMMA PollChecks ==
  ASSUME NEW reading, PollReads(reading)
  PROVE  /\ checks' \subseteq CheckType
         /\ \A c \in checks' : c.next = "find"
         /\ \A c \in checks' : c.kind \in Conditions => Detects(reading, c.kind)
         /\ \A c, d \in checks' : c.kind = d.kind => c = d
  <1>1. RestrictionCheck(reading) \subseteq {Check(Restriction, Confident({"manual"}, {}), reading)}
    BY DEF RestrictionCheck
  <1>2. \A c \in checks' :
          \/ \E k \in Conditions : Detects(reading, k) /\ c = Check(k, Trust(reading, k), reading)
          \/ c = Check(Restriction, Confident({"manual"}, {}), reading)
    BY <1>1 DEF PollReads
  <1>3. /\ \A k \in Conditions : Trust(reading, k) \in Nat /\ k \in EventKinds
        /\ Confident({"manual"}, {}) \in Nat /\ Restriction \in EventKinds
        /\ Restriction \notin Conditions
    BY ConfidenceGraded, EvaluatorAssumption DEF Trust, EventKinds
  <1> QED
    BY <1>2, <1>3, CheckTyped

LEMMA PointsTyped ==
  ASSUME EvalTyped, NEW reading, NEW k \in Conditions
  PROVE  Keeping(reading, k) \subseteq PointType
  <1>1. Met(reading, k) \in BOOLEAN
    BY DEF Met
  <1>2. [at |-> clock, met |-> Met(reading, k)] \in PointType
    BY <1>1 DEF EvalTyped, PointType
  <1> QED
    BY <1>2 DEF Keeping, Points, EvalTyped

LEMMA PollTyped == ASSUME EvalTyped, Poll PROVE EvalTyped'
  <1>1. PICK reading : PollReads(reading)
    BY PollDoes
  <1>2. job' = job + 1 /\ UNCHANGED <<clock, events, mishaps>>
    BY PollDoes
  <1>3. history' \in [Conditions -> SUBSET PointType]
    BY <1>1, PointsTyped DEF PollReads
  <1>4. since' \in [Conditions -> Nat \cup {Nothing}] /\ lacking' \in [Conditions -> Nat]
    BY <1>1 DEF PollReads, EvalTyped
  <1>5. checks' \subseteq CheckType
    BY <1>1, PollChecks
  <1> QED
    BY <1>2, <1>3, <1>4, <1>5 DEF EvalTyped

(* The steps of one check.                                                 *)
Works(c) == Insert(c) \/ Leave(c) \/ Confirm(c) \/ Announce(c)

LEMMA TurnTyped ==
  ASSUME EvalTyped, NEW c \in checks, NEW what \in {"detected", "confirm", "confirmed"}, NEW i \in Nat,
         Turns(c, what, i)
  PROVE  checks' \subseteq CheckType
  <1>1. [c EXCEPT !.next = what, !.event = i] \in CheckType
    BY DEF EvalTyped, CheckType
  <1> QED
    BY <1>1 DEF EvalTyped, Turns

LEMMA NewEventTyped ==
  ASSUME NEW c \in CheckType
  PROVE  [kind |-> c.kind, ended |-> Nothing, confirmed |-> FALSE, blank |-> c.blank, told |-> {}]
           \in EventType
  BY DEF CheckType, EventType

(* A row after c confirmed it, and after it was announced.                 *)
LEMMA ConfirmedTyped ==
  ASSUME NEW row \in EventType, NEW c \in CheckType
  PROVE  [row EXCEPT !.confirmed = TRUE, !.blank = c.blank] \in EventType
  BY DEF CheckType, EventType

LEMMA ToldTyped ==
  ASSUME NEW row \in EventType, NEW m \in Messages
  PROVE  [row EXCEPT !.told = @ \cup {m}] \in EventType
  BY DEF EventType

LEMMA EndedTyped ==
  ASSUME NEW row \in EventType, NEW t \in Nat
  PROVE  [row EXCEPT !.ended = t] \in EventType
  BY DEF EventType

-----------------------------------------------------------------------------
(* Checks and the rows they work on.                                       *)

(* A poll checks a kind once, and only its first check has got any further *)
(* than looking, with a row in hand.                                       *)
ChecksInv ==
  /\ \A c, d \in checks : c.kind = d.kind => c = d
  /\ \A c \in checks : c.next # "find" => First(c) /\ c.event \in DOMAIN events

LEMMA OnlyFirst ==
  ASSUME EvalTyped, ChecksInv, NEW c \in checks, First(c), NEW d \in checks, d.next # "find"
  PROVE  d = c
  <1>1. First(d) /\ c.kind \in EventKinds /\ d.kind \in EventKinds
    BY DEF ChecksInv, EvalTyped, CheckType
  <1>2. Order[c.kind] \in Nat /\ Order[d.kind] \in Nat
    BY <1>1, EvaluatorAssumption
  <1>3. Order[c.kind] <= Order[d.kind] /\ Order[d.kind] <= Order[c.kind]
    BY <1>1 DEF First
  <1>4. c.kind = d.kind
    BY <1>1, <1>2, <1>3, EvaluatorAssumption
  <1> QED
    BY <1>4 DEF ChecksInv

(* What the check c becomes.                                               *)
Turned(c, what, i) == [c EXCEPT !.next = what, !.event = i]

LEMMA TurnedFields ==
  ASSUME EvalTyped, NEW c \in checks, NEW what, NEW i
  PROVE  /\ Turned(c, what, i).kind = c.kind
         /\ Turned(c, what, i).next = what
         /\ Turned(c, what, i).event = i
  BY DEF EvalTyped, CheckType, Turned

LEMMA ChecksTurn ==
  ASSUME EvalTyped, ChecksInv, NEW c \in checks, First(c), NEW what, NEW i, Turns(c, what, i),
         i \in DOMAIN events', DOMAIN events \subseteq DOMAIN events'
  PROVE  ChecksInv'
  <1> DEFINE t == Turned(c, what, i)
  <1>1. checks' = (checks \ {c}) \cup {t}
    BY DEF Turns, Turned
  <1>2. t.kind = c.kind /\ t.event = i
    BY TurnedFields
  <1> HIDE DEF t
  <1>3. \A d \in checks \ {c} : d.next = "find"
    BY OnlyFirst
  <1>4. \A d, e \in checks' : d.kind = e.kind => d = e
    BY <1>1, <1>2 DEF ChecksInv
  <1>5. First(t)'
    BY <1>1, <1>2 DEF First
  <1>6. \A d \in checks' : d.next # "find" => First(d)' /\ d.event \in DOMAIN events'
    BY <1>1, <1>2, <1>3, <1>5
  <1> QED
    BY <1>4, <1>6 DEF ChecksInv

LEMMA ChecksFall ==
  ASSUME EvalTyped, ChecksInv, NEW c \in checks, First(c), checks' = checks \ {c}
  PROVE  ChecksInv'
  <1>1. \A d \in checks \ {c} : d.next = "find"
    BY OnlyFirst
  <1> QED
    BY <1>1 DEF ChecksInv

(* What one check does to rows and checks.                                 *)
LEMMA InsertDoes ==
  ASSUME EvalTyped, NEW c \in checks, Insert(c)
  PROVE  /\ c.next = "find" /\ ActiveAt(c.kind) = {}
         /\ events' \in Seq(EventType) /\ DOMAIN events' = 1..(Len(events) + 1)
         /\ \A j \in DOMAIN events : events'[j] = events[j]
         /\ events'[Len(events) + 1] =
              [kind |-> c.kind, ended |-> Nothing, confirmed |-> FALSE, blank |-> c.blank, told |-> {}]
         /\ Turns(c, "detected", Len(events) + 1)
         /\ Len(events) \in Nat /\ DOMAIN events = 1..Len(events)
  <1> DEFINE row == [kind |-> c.kind, ended |-> Nothing, confirmed |-> FALSE, blank |-> c.blank, told |-> {}]
  <1>1. row \in EventType
    BY NewEventTyped DEF EvalTyped
  <1>2. events' = Append(events, row) /\ events \in Seq(EventType)
    BY DEF Insert, EvalTyped
  <1> HIDE DEF row
  <1>3. /\ events' \in Seq(EventType) /\ DOMAIN events' = 1..(Len(events) + 1)
        /\ \A j \in DOMAIN events : events'[j] = events[j]
        /\ events'[Len(events) + 1] = row
        /\ Len(events) \in Nat /\ DOMAIN events = 1..Len(events)
    BY <1>1, <1>2
  <1> QED
    BY <1>3 DEF Insert, row

LEMMA ConfirmDoes ==
  ASSUME EvalTyped, ChecksInv, NEW c \in checks, Confirm(c)
  PROVE  \E i \in DOMAIN events :
           /\ c.next \in {"find", "confirm"}
           /\ events' \in Seq(EventType) /\ DOMAIN events' = DOMAIN events
           /\ \A j \in DOMAIN events \ {i} : events'[j] = events[j]
           /\ events'[i].kind = events[i].kind /\ events'[i].ended = events[i].ended
           /\ events'[i].told = events[i].told
           /\ Turns(c, "confirmed", i)
  <1>1. PICK i \in Found(c) :
          /\ events' = [events EXCEPT ![i].confirmed = TRUE, ![i].blank = c.blank]
          /\ Turns(c, "confirmed", i)
    BY DEF Confirm
  <1>2. c.next \in {"find", "confirm"}
    BY DEF Confirm
  <1>3. i \in DOMAIN events
    BY <1>2 DEF Found, ActiveAt, ChecksInv
  <1> DEFINE row == [events[i] EXCEPT !.confirmed = TRUE, !.blank = c.blank]
  <1>4. events[i] \in EventType /\ c \in CheckType /\ events \in Seq(EventType)
    BY <1>3 DEF EvalTyped
  <1>5. row \in EventType
    BY <1>4, ConfirmedTyped
  <1>6. row.kind = events[i].kind /\ row.ended = events[i].ended /\ row.told = events[i].told
    BY <1>4 DEF EventType
  <1>7. events' = [events EXCEPT ![i] = row]
    BY <1>1
  <1> HIDE DEF row
  <1>8. /\ events' \in Seq(EventType) /\ DOMAIN events' = DOMAIN events
        /\ \A j \in DOMAIN events \ {i} : events'[j] = events[j]
        /\ events'[i] = row
    BY <1>3, <1>4, <1>5, <1>7
  <1> QED
    BY <1>1, <1>2, <1>3, <1>6, <1>8

LEMMA AnnounceDoes ==
  ASSUME EvalTyped, ChecksInv, NEW c \in checks, Announce(c)
  PROVE  LET i == c.event
         IN  /\ i \in DOMAIN events /\ c.next \in Messages
             /\ events' \in Seq(EventType) /\ DOMAIN events' = DOMAIN events
             /\ \A j \in DOMAIN events \ {i} : events'[j] = events[j]
             /\ events'[i].kind = events[i].kind /\ events'[i].ended = events[i].ended
             /\ events'[i].confirmed = events[i].confirmed
             /\ events'[i].told = events[i].told \cup {c.next}
             /\ Turns(c, "confirm", i) \/ checks' = checks \ {c}
  <1> DEFINE i == c.event
             row == [events[i] EXCEPT !.told = @ \cup {c.next}]
  <1>1. c.next \in Messages /\ i \in DOMAIN events
    BY DEF Announce, Messages, ChecksInv
  <1>2. events[i] \in EventType /\ events \in Seq(EventType)
    BY <1>1 DEF EvalTyped
  <1>3. row \in EventType
    BY <1>1, <1>2, ToldTyped
  <1>4. /\ row.kind = events[i].kind /\ row.ended = events[i].ended
        /\ row.confirmed = events[i].confirmed /\ row.told = events[i].told \cup {c.next}
    BY <1>2 DEF EventType
  <1>5. events' = [events EXCEPT ![i] = row]
    BY DEF Announce
  <1> HIDE DEF row
  <1>6. /\ events' \in Seq(EventType) /\ DOMAIN events' = DOMAIN events
        /\ \A j \in DOMAIN events \ {i} : events'[j] = events[j]
        /\ events'[i] = row
    BY <1>1, <1>2, <1>3, <1>5
  <1>7. Turns(c, "confirm", i) \/ checks' = checks \ {c}
    BY DEF Announce
  <1> QED
    BY <1>1, <1>4, <1>6, <1>7

LEMMA LeaveDoes ==
  ASSUME NEW c \in checks, Leave(c)
  PROVE  c.next \in {"find", "confirm"} /\ checks' = checks \ {c} /\ events' = events
  BY DEF Leave

LEMMA EndEventDoes ==
  ASSUME EvalTyped, EndEvent
  PROVE  \E i \in DOMAIN events :
           /\ events[i].ended = Nothing /\ events'[i].ended = clock
           /\ events' \in Seq(EventType) /\ DOMAIN events' = DOMAIN events
           /\ \A j \in DOMAIN events \ {i} : events'[j] = events[j]
           /\ events'[i].kind = events[i].kind /\ events'[i].confirmed = events[i].confirmed
           /\ events'[i].told = events[i].told
  <1>1. PICK i \in DOMAIN events : /\ events[i].ended = Nothing
                                   /\ events' = [events EXCEPT ![i].ended = clock]
    BY DEF EndEvent
  <1> DEFINE row == [events[i] EXCEPT !.ended = clock]
  <1>2. events[i] \in EventType /\ events \in Seq(EventType) /\ clock \in Nat
    BY DEF EvalTyped
  <1>3. row \in EventType
    BY <1>2, EndedTyped
  <1>4. /\ row.kind = events[i].kind /\ row.ended = clock
        /\ row.confirmed = events[i].confirmed /\ row.told = events[i].told
    BY <1>2 DEF EventType
  <1>5. events' = [events EXCEPT ![i] = row]
    BY <1>1
  <1> HIDE DEF row
  <1>6. /\ events' \in Seq(EventType) /\ DOMAIN events' = DOMAIN events
        /\ \A j \in DOMAIN events \ {i} : events'[j] = events[j]
        /\ events'[i] = row
    BY <1>2, <1>3, <1>5
  <1> QED
    BY <1>1, <1>4, <1>6

-----------------------------------------------------------------------------
(* Types and checks in every step.                                         *)

(* The steps of the process that are not about one check.                  *)
Idles == PassTime \/ SetRestriction \/ PollFails \/ EvaluatorRestarts

LEMMA IdlesDo ==
  ASSUME EvalTyped, Idles
  PROVE  /\ events' = events
         /\ clock' \in Nat /\ clock' >= clock
         /\ checks' = {} \/ (checks' = checks /\ mishaps' = mishaps)
         /\ checks' = {} /\ checks # {} => mishaps' = mishaps + 1
         /\ mishaps' = mishaps \/ mishaps' = mishaps + 1
  BY DEF Idles, PassTime, SetRestriction, PollFails, EvaluatorRestarts, EvalTyped

(* The poll after a start is in the future.                                *)
LEMMA NextPoll ==
  ASSUME NEW t \in Nat, NEW every \in Nat, every > 0
  PROVE  t \div every + 1 \in Nat /\ t < (t \div every + 1) * every
  <1>1. t \div every \in Int /\ t \div every >= 0
    BY SMT
  <1>2. t < (t \div every + 1) * every
    BY SMT
  <1> QED
    BY <1>1, <1>2

LEMMA IdlesTyped == ASSUME EvalTyped, Idles PROVE EvalTyped'
  <1>1. CASE PassTime
    BY <1>1 DEF PassTime, EvalTyped
  <1>2. CASE SetRestriction
    BY <1>2 DEF SetRestriction, EvalTyped
  <1>3. CASE PollFails
    BY <1>3 DEF PollFails, EvalTyped
  <1>4. CASE EvaluatorRestarts
    <2>1. clock \div PollEvery + 1 \in Nat
      <3>1. clock \in Nat /\ PollEvery \in Nat /\ PollEvery > 0
        BY EvaluatorAssumption DEF EvalTyped
      <3> QED
        BY <3>1, NextPoll
    <2> QED
      BY <1>4, <2>1 DEF EvaluatorRestarts, EvalTyped
  <1> QED
    BY <1>1, <1>2, <1>3, <1>4 DEF Idles

LEMMA WorksLeave ==
  ASSUME NEW c, Works(c)
  PROVE  UNCHANGED <<clock, job, live, cached, history, restricted, mishaps, since, lacking>>
  BY DEF Works, Insert, Leave, Confirm, Announce

LEMMA WorksTyped ==
  ASSUME EvalTyped, ChecksInv, NEW c \in checks, First(c), Works(c)
  PROVE  EvalTyped' /\ ChecksInv'
  <1>1. UNCHANGED <<clock, job, history, mishaps, since, lacking>>
    BY WorksLeave
  <1>2. CASE Insert(c)
    <2>1. /\ events' \in Seq(EventType) /\ DOMAIN events' = 1..(Len(events) + 1)
          /\ Turns(c, "detected", Len(events) + 1)
          /\ Len(events) \in Nat /\ DOMAIN events = 1..Len(events)
      BY <1>2, InsertDoes
    <2>2. checks' \subseteq CheckType
      BY <2>1, TurnTyped
    <2>3. ChecksInv'
      BY <2>1, ChecksTurn
    <2> QED
      BY <1>1, <2>1, <2>2, <2>3 DEF EvalTyped
  <1>3. CASE Leave(c)
    <2>1. checks' = checks \ {c} /\ events' = events
      BY <1>3, LeaveDoes
    <2> QED
      BY <1>1, <2>1, ChecksFall DEF EvalTyped
  <1>4. CASE Confirm(c)
    <2>1. PICK i \in DOMAIN events :
            /\ events' \in Seq(EventType) /\ DOMAIN events' = DOMAIN events
            /\ Turns(c, "confirmed", i)
      BY <1>4, ConfirmDoes
    <2>2. i \in Nat
      BY DEF EvalTyped
    <2>3. checks' \subseteq CheckType
      BY <2>1, <2>2, TurnTyped
    <2>4. ChecksInv'
      BY <2>1, ChecksTurn
    <2> QED
      BY <1>1, <2>1, <2>3, <2>4 DEF EvalTyped
  <1>5. CASE Announce(c)
    <2>1. /\ c.event \in DOMAIN events
          /\ events' \in Seq(EventType) /\ DOMAIN events' = DOMAIN events
          /\ Turns(c, "confirm", c.event) \/ checks' = checks \ {c}
      BY <1>5, AnnounceDoes
    <2>2. c.event \in Nat
      BY <2>1 DEF EvalTyped
    <2>3. checks' \subseteq CheckType
      BY <2>1, <2>2, TurnTyped DEF EvalTyped
    <2>4. ChecksInv'
      BY <2>1, ChecksTurn, ChecksFall
    <2> QED
      BY <1>1, <2>1, <2>3, <2>4 DEF EvalTyped
  <1> QED
    BY <1>2, <1>3, <1>4, <1>5 DEF Works

LEMMA EndEventTyped ==
  ASSUME EvalTyped, ChecksInv, EndEvent
  PROVE  EvalTyped' /\ ChecksInv'
  <1>1. UNCHANGED <<clock, job, history, checks, mishaps, since, lacking>>
    BY DEF EndEvent
  <1>2. events' \in Seq(EventType) /\ DOMAIN events' = DOMAIN events
    BY EndEventDoes
  <1> QED
    BY <1>1, <1>2 DEF EvalTyped, ChecksInv, First

LEMMA ChecksRest ==
  ASSUME EvalTyped, ChecksInv, Poll \/ Idles
  PROVE  ChecksInv'
  <1>1. CASE Poll
    <2>1. PICK reading : PollReads(reading)
      BY <1>1, PollDoes
    <2> QED
      BY <2>1, PollChecks DEF ChecksInv
  <1>2. CASE Idles
    BY <1>2, IdlesDo DEF ChecksInv, First
  <1> QED
    BY <1>1, <1>2

(* Every step is one of these.                                             *)
LEMMA EvalSteps ==
  ASSUME EvalNext
  PROVE  \/ Poll \/ Idles \/ EndEvent
         \/ \E c \in checks : First(c) /\ Works(c)
  BY DEF EvalNext, Idles, Works

-----------------------------------------------------------------------------
(* Rows.                                                                   *)

(* A row is inserted only when the earlier ones of its kind have ended and *)
(* left the active window.                                                 *)
RowsInv ==
  \A i, j \in DOMAIN events : i < j /\ events[i].kind = events[j].kind =>
     events[i].ended # Nothing /\ events[i].ended + ActiveWindow < clock

LEMMA RowTyped ==
  ASSUME EvalTyped, NEW i \in DOMAIN events
  PROVE  /\ events[i] \in EventType
         /\ events[i].ended # Nothing => events[i].ended \in Nat
  <1>1. events[i] \in EventType
    BY DEF EvalTyped
  <1> QED
    BY <1>1 DEF EventType

LEMMA RowsKept ==
  ASSUME EvalTyped, RowsInv, clock' \in Nat, clock' >= clock, DOMAIN events' = DOMAIN events,
         \A i \in DOMAIN events : /\ events'[i].kind = events[i].kind
                                  /\ events[i].ended # Nothing => events'[i].ended = events[i].ended
  PROVE  RowsInv'
  <1> SUFFICES ASSUME NEW i \in DOMAIN events, NEW j \in DOMAIN events, i < j,
                      events[i].kind = events[j].kind
               PROVE  events'[i].ended # Nothing /\ events'[i].ended + ActiveWindow < clock'
    BY DEF RowsInv
  <1>1. events[i].ended # Nothing /\ events[i].ended + ActiveWindow < clock
    BY DEF RowsInv
  <1>2. events[i].ended \in Nat
    BY <1>1, RowTyped
  <1>3. events'[i].ended = events[i].ended
    BY <1>1
  <1> QED
    BY <1>1, <1>2, <1>3, EvaluatorAssumption DEF EvalTyped

LEMMA RowsInsert ==
  ASSUME EvalTyped, RowsInv, NEW c \in checks, Insert(c)
  PROVE  RowsInv'
  <1> DEFINE n == Len(events)
  <1>1. /\ ActiveAt(c.kind) = {}
        /\ DOMAIN events' = 1..(n + 1) /\ DOMAIN events = 1..n /\ n \in Nat
        /\ \A j \in DOMAIN events : events'[j] = events[j]
        /\ events'[n + 1] =
             [kind |-> c.kind, ended |-> Nothing, confirmed |-> FALSE, blank |-> c.blank, told |-> {}]
    BY InsertDoes
  <1>2. clock' = clock
    BY WorksLeave DEF Works
  <1> HIDE DEF n
  <1>3. \A i \in DOMAIN events : events[i].kind = c.kind =>
          events[i].ended # Nothing /\ ~(events[i].ended + ActiveWindow >= clock)
    BY <1>1 DEF ActiveAt
  <1> SUFFICES ASSUME NEW i \in DOMAIN events', NEW j \in DOMAIN events', i < j,
                      events'[i].kind = events'[j].kind
               PROVE  events'[i].ended # Nothing /\ events'[i].ended + ActiveWindow < clock'
    BY DEF RowsInv
  <1>4. i \in DOMAIN events /\ events'[i] = events[i] /\ (j \in DOMAIN events \/ j = n + 1)
    BY <1>1
  <1>5. CASE j \in DOMAIN events
    BY <1>1, <1>2, <1>4, <1>5 DEF RowsInv
  <1>6. CASE j = n + 1
    <2>1. events[i].ended # Nothing /\ ~(events[i].ended + ActiveWindow >= clock)
      BY <1>1, <1>3, <1>4, <1>6
    <2>2. events[i].ended \in Nat
      BY <1>4, <2>1, RowTyped
    <2> QED
      BY <1>2, <1>4, <2>1, <2>2, EvaluatorAssumption DEF EvalTyped
  <1> QED
    BY <1>4, <1>5, <1>6

LEMMA RowsStep ==
  ASSUME EvalTyped, ChecksInv, RowsInv, EvalNext
  PROVE  RowsInv'
  <1>1. CASE Poll \/ Idles
    <2>1. clock' \in Nat /\ clock' >= clock /\ events' = events
      BY <1>1, PollDoes, IdlesDo DEF EvalTyped
    <2> QED
      BY <2>1, RowsKept
  <1>2. CASE EndEvent
    <2>1. PICK i \in DOMAIN events :
           /\ events[i].ended = Nothing
           /\ DOMAIN events' = DOMAIN events
           /\ \A j \in DOMAIN events \ {i} : events'[j] = events[j]
           /\ events'[i].kind = events[i].kind
      BY <1>2, EndEventDoes
    <2>2. clock' = clock
      BY <1>2 DEF EndEvent
    <2>3. clock' \in Nat /\ clock' >= clock
      BY <2>2 DEF EvalTyped
    <2>4. \A j \in DOMAIN events : /\ events'[j].kind = events[j].kind
                                   /\ events[j].ended # Nothing => events'[j].ended = events[j].ended
      BY <2>1
    <2> QED
      BY <2>1, <2>3, <2>4, RowsKept
  <1>3. ASSUME NEW c \in checks, First(c), Works(c) PROVE RowsInv'
    <2>1. clock' = clock
      BY <1>3, WorksLeave
    <2>2. CASE Insert(c)
      BY <2>2, RowsInsert
    <2>3. CASE Leave(c)
      BY <2>1, <2>3, LeaveDoes, RowsKept DEF EvalTyped
    <2>4. CASE Confirm(c)
      <3>1. PICK i \in DOMAIN events :
           /\ DOMAIN events' = DOMAIN events
           /\ \A j \in DOMAIN events \ {i} : events'[j] = events[j]
           /\ events'[i].kind = events[i].kind /\ events'[i].ended = events[i].ended
        BY <2>4, ConfirmDoes
      <3> QED
        BY <2>1, <3>1, RowsKept DEF EvalTyped
    <2>5. CASE Announce(c)
      <3>1. /\ c.event \in DOMAIN events /\ DOMAIN events' = DOMAIN events
            /\ \A j \in DOMAIN events \ {c.event} : events'[j] = events[j]
            /\ events'[c.event].kind = events[c.event].kind
            /\ events'[c.event].ended = events[c.event].ended
        BY <2>5, AnnounceDoes
      <3> QED
        BY <2>1, <3>1, RowsKept DEF EvalTyped
    <2> QED
      BY <1>3, <2>2, <2>3, <2>4, <2>5 DEF Works
  <1> QED
    BY <1>1, <1>2, <1>3, EvalSteps

-----------------------------------------------------------------------------
(* Announcements.                                                          *)

(* The message that the check in hand is about to send; all others that    *)
(* are owed were lost with a poll.                                         *)
Current == {<<c.event, c.next>> : c \in {x \in checks : x.next \in Messages}}
OwedInv == Cardinality(Owed \ Current) <= mishaps

LEMMA OwedFinite == ASSUME EvalTyped PROVE IsFiniteSet(Owed)
  <1>1. DOMAIN events = 1..Len(events) /\ Len(events) \in Nat
    BY DEF EvalTyped
  <1>2. IsFiniteSet(1..Len(events))
    BY <1>1, FS_Interval
  <1>3. IsFiniteSet(Messages)
    <2>1. Messages = ({} \cup {"detected"}) \cup {"confirmed"}
      BY DEF Messages
    <2> QED
      BY <2>1, FS_EmptySet, FS_AddElement
  <1>4. IsFiniteSet((DOMAIN events) \X Messages)
    BY <1>1, <1>2, <1>3, FS_Product
  <1>5. Owed \subseteq (DOMAIN events) \X Messages
    BY DEF Owed
  <1> QED
    BY <1>4, <1>5, FS_Subset

(* At most one message is in hand.                                         *)
LEMMA CurrentSmall ==
  ASSUME EvalTyped, ChecksInv
  PROVE  /\ Current # {} => \E m : Current = {m}
         /\ Current # {} => \E c \in checks : c.next \in Messages
  <1>1. \A c, d \in checks : c.next \in Messages /\ d.next \in Messages => c = d
    BY OnlyFirst DEF ChecksInv, Messages
  <1>2. \A x, y \in Current : x = y
    BY <1>1 DEF Current
  <1> QED
    BY <1>2 DEF Current

LEMMA CurrentOf ==
  ASSUME EvalTyped, ChecksInv, NEW c \in checks, First(c)
  PROVE  /\ c.next \notin Messages => Current = {}
         /\ c.next \in Messages => Current = {<<c.event, c.next>>}
  <1>1. \A d \in checks : d.next \in Messages => d = c
    BY OnlyFirst DEF Messages
  <1> QED
    BY <1>1 DEF Current

LEMMA CurrentTurned ==
  ASSUME EvalTyped, ChecksInv, NEW c \in checks, First(c), NEW what, NEW i, Turns(c, what, i)
  PROVE  /\ what \notin Messages => Current' = {}
         /\ what \in Messages => Current' = {<<i, what>>}
  <1> DEFINE t == Turned(c, what, i)
  <1>1. checks' = (checks \ {c}) \cup {t}
    BY DEF Turns, Turned
  <1>2. t.next = what /\ t.event = i
    BY TurnedFields
  <1> HIDE DEF t
  <1>3. \A d \in checks \ {c} : d.next \notin Messages
    BY OnlyFirst DEF Messages
  <1>4. {x \in checks' : x.next \in Messages} = IF what \in Messages THEN {t} ELSE {}
    BY <1>1, <1>2, <1>3
  <1> QED
    BY <1>2, <1>4 DEF Current

LEMMA CurrentFalls ==
  ASSUME EvalTyped, ChecksInv, NEW c \in checks, First(c), checks' = checks \ {c}
  PROVE  Current' = {}
  <1>1. \A d \in checks \ {c} : d.next \notin Messages
    BY OnlyFirst DEF Messages
  <1> QED
    BY <1>1 DEF Current

LEMMA OwedFalls ==
  ASSUME EvalTyped, OwedInv, Owed' \ Current' \subseteq Owed \ Current,
         mishaps' \in Nat, mishaps' >= mishaps
  PROVE  OwedInv'
  <1>1. IsFiniteSet(Owed \ Current)
    BY OwedFinite, FS_Subset
  <1>2. /\ Cardinality(Owed' \ Current') <= Cardinality(Owed \ Current)
        /\ Cardinality(Owed \ Current) \in Nat /\ Cardinality(Owed' \ Current') \in Nat
    BY <1>1, FS_Subset, FS_CardinalityType
  <1> QED
    BY <1>2 DEF OwedInv, EvalTyped

(* What a failure or a death loses is the message in hand.                 *)
LEMMA OwedWithCurrent ==
  ASSUME EvalTyped, ChecksInv
  PROVE  /\ Cardinality(Owed) \in Nat /\ Cardinality(Owed \ Current) \in Nat
         /\ Cardinality(Owed) <= Cardinality(Owed \ Current) + 1
         /\ Current = {} => Cardinality(Owed) = Cardinality(Owed \ Current)
  <1>1. IsFiniteSet(Owed) /\ IsFiniteSet(Owed \ Current)
    BY OwedFinite, FS_Subset
  <1>2. Cardinality(Owed) \in Nat /\ Cardinality(Owed \ Current) \in Nat
    BY <1>1, FS_CardinalityType
  <1>3. CASE Current = {}
    <2>1. Owed \ Current = Owed
      BY <1>3
    <2> QED
      BY <1>2, <2>1
  <1>4. CASE Current # {}
    <2>1. PICK m : Current = {m}
      BY <1>4, CurrentSmall
    <2> DEFINE with == (Owed \ Current) \cup {m}
    <2>2. /\ IsFiniteSet(with)
          /\ Cardinality(with) = Cardinality(Owed \ Current)
               \/ Cardinality(with) = Cardinality(Owed \ Current) + 1
      BY <1>1, FS_AddElement
    <2>3. Owed \subseteq with
      BY <2>1
    <2> HIDE DEF with
    <2>4. Cardinality(Owed) <= Cardinality(with)
      BY <2>2, <2>3, FS_Subset
    <2> QED
      BY <1>2, <1>4, <2>2, <2>4
  <1> QED
    BY <1>2, <1>3, <1>4

LEMMA OwedIdles ==
  ASSUME EvalTyped, ChecksInv, OwedInv, Idles
  PROVE  OwedInv'
  <1>1. /\ Owed' = Owed
        /\ checks' = {} \/ (checks' = checks /\ mishaps' = mishaps)
        /\ checks' = {} /\ checks # {} => mishaps' = mishaps + 1
        /\ mishaps' = mishaps \/ mishaps' = mishaps + 1
    BY IdlesDo DEF Owed
  <1>2. mishaps \in Nat
    BY DEF EvalTyped
  <1>3. CASE checks' = checks
    <2>1. Current' = Current
      BY <1>3 DEF Current
    <2> QED
      BY <1>1, <1>2, <2>1, OwedFalls
  <1>4. CASE checks' = {} /\ checks # {}
    <2>1. Current' = {}
      BY <1>4 DEF Current
    <2>2. mishaps' = mishaps + 1 /\ Owed' \ Current' = Owed
      BY <1>1, <1>4, <2>1
    <2>3. Cardinality(Owed) <= mishaps + 1
      BY <1>2, OwedWithCurrent DEF OwedInv
    <2> QED
      BY <2>2, <2>3 DEF OwedInv
  <1> QED
    BY <1>1, <1>3, <1>4

LEMMA OwedPoll ==
  ASSUME EvalTyped, OwedInv, Poll
  PROVE  OwedInv'
  <1>1. PICK reading : PollReads(reading)
    BY PollDoes
  <1>2. Owed' = Owed /\ checks = {} /\ mishaps' = mishaps
    BY PollDoes DEF Owed
  <1>3. \A c \in checks' : c.next \notin Messages
    BY <1>1, PollChecks DEF Messages
  <1>4. Current' = {} /\ Current = {}
    BY <1>2, <1>3 DEF Current
  <1> QED
    BY <1>2, <1>4, OwedFalls DEF EvalTyped

(* Messages owed for a row, in terms of what they depend on.               *)
LEMMA OwedMeans ==
  ASSUME NEW i, NEW m
  PROVE  <<i, m>> \in Owed <=> /\ i \in DOMAIN events /\ m \in Messages
                               /\ m \notin events[i].told
                               /\ m = "confirmed" => events[i].confirmed
  BY DEF Owed

LEMMA OwedPairs == ASSUME NEW x \in Owed PROVE x = <<x[1], x[2]>>
  BY DEF Owed

(* Only what the step names is newly owed.                                 *)
LEMMA OwedRows ==
  ASSUME EvalTyped, NEW n, NEW what, DOMAIN events \subseteq DOMAIN events',
         \A i \in DOMAIN events', m \in Messages :
            /\ m \notin events'[i].told
            /\ m = "confirmed" => events'[i].confirmed
            => \/ i = n /\ m = what
               \/ i \in DOMAIN events /\ m \notin events[i].told
                  /\ (m = "confirmed" => events[i].confirmed)
  PROVE  Owed' \subseteq Owed \cup {<<n, what>>}
  <1> SUFFICES ASSUME NEW i \in DOMAIN events', NEW m \in Messages,
                      m \notin events'[i].told, m = "confirmed" => events'[i].confirmed,
                      ~(i = n /\ m = what)
               PROVE  <<i, m>> \in Owed
    BY DEF Owed
  <1> QED
    BY OwedMeans

LEMMA OwedInsert ==
  ASSUME EvalTyped, ChecksInv, OwedInv, NEW c \in checks, First(c), Insert(c)
  PROVE  OwedInv'
  <1> DEFINE n == Len(events) + 1
  <1>1. /\ c.next = "find"
        /\ DOMAIN events' = 1..n /\ DOMAIN events = 1..Len(events) /\ Len(events) \in Nat
        /\ \A j \in DOMAIN events : events'[j] = events[j]
        /\ events'[n] =
             [kind |-> c.kind, ended |-> Nothing, confirmed |-> FALSE, blank |-> c.blank, told |-> {}]
        /\ Turns(c, "detected", n)
    BY InsertDoes
  <1>2. Current = {} /\ Current' = {<<n, "detected">>}
    BY <1>1, CurrentOf, CurrentTurned DEF Messages
  <1>3. \A i \in DOMAIN events' : i \in DOMAIN events \/ i = n
    BY <1>1
  <1>4. DOMAIN events \subseteq DOMAIN events'
    BY <1>1
  <1>5. ~events'[n].confirmed
    BY <1>1
  <1> HIDE DEF n
  <1>6. Owed' \subseteq Owed \cup {<<n, "detected">>}
    BY <1>1, <1>3, <1>4, <1>5, OwedRows DEF Messages
  <1>7. mishaps' = mishaps
    BY WorksLeave DEF Works
  <1> QED
    BY <1>2, <1>6, <1>7, OwedFalls DEF EvalTyped

LEMMA OwedConfirm ==
  ASSUME EvalTyped, ChecksInv, OwedInv, NEW c \in checks, First(c), Confirm(c)
  PROVE  OwedInv'
  <1>1. PICK i \in DOMAIN events :
          /\ c.next \in {"find", "confirm"}
          /\ DOMAIN events' = DOMAIN events
          /\ \A j \in DOMAIN events \ {i} : events'[j] = events[j]
          /\ events'[i].told = events[i].told
          /\ Turns(c, "confirmed", i)
    BY ConfirmDoes
  <1>2. Current = {} /\ Current' = {<<i, "confirmed">>}
    BY <1>1, CurrentOf, CurrentTurned DEF Messages
  <1>3. Owed' \subseteq Owed \cup {<<i, "confirmed">>}
    BY <1>1, OwedRows DEF Messages
  <1>4. mishaps' = mishaps
    BY WorksLeave DEF Works
  <1> QED
    BY <1>2, <1>3, <1>4, OwedFalls DEF EvalTyped

LEMMA OwedAnnounce ==
  ASSUME EvalTyped, ChecksInv, OwedInv, NEW c \in checks, First(c), Announce(c)
  PROVE  OwedInv'
  <1> DEFINE i == c.event
  <1>1. /\ i \in DOMAIN events /\ c.next \in Messages
        /\ DOMAIN events' = DOMAIN events
        /\ \A j \in DOMAIN events \ {i} : events'[j] = events[j]
        /\ events'[i].confirmed = events[i].confirmed
        /\ events'[i].told = events[i].told \cup {c.next}
        /\ Turns(c, "confirm", i) \/ checks' = checks \ {c}
    BY AnnounceDoes
  <1>2. Current = {<<i, c.next>>} /\ Current' = {}
    BY <1>1, CurrentOf, CurrentTurned, CurrentFalls DEF Messages
  <1> HIDE DEF i
  <1>3. Owed' \subseteq Owed \cup {<<i, c.next>>}
    BY <1>1, OwedRows
  <1>4. <<i, c.next>> \notin Owed'
    BY <1>1 DEF Owed
  <1>5. mishaps' = mishaps
    BY WorksLeave DEF Works
  <1>6. Owed' \ Current' \subseteq Owed \ Current
    BY <1>2, <1>3, <1>4
  <1>7. mishaps' \in Nat /\ mishaps' >= mishaps
    BY <1>5 DEF EvalTyped
  <1> QED
    BY <1>6, <1>7, OwedFalls

LEMMA OwedLeave ==
  ASSUME EvalTyped, ChecksInv, OwedInv, NEW c \in checks, First(c), Leave(c)
  PROVE  OwedInv'
  <1>1. c.next \notin Messages /\ checks' = checks \ {c} /\ events' = events
    BY LeaveDoes DEF Messages
  <1>2. Current = {} /\ Current' = {} /\ Owed' = Owed
    BY <1>1, CurrentOf, CurrentFalls DEF Owed
  <1>3. mishaps' = mishaps
    BY WorksLeave DEF Works
  <1> QED
    BY <1>2, <1>3, OwedFalls DEF EvalTyped

LEMMA OwedEnd ==
  ASSUME EvalTyped, ChecksInv, OwedInv, EndEvent
  PROVE  OwedInv'
  <1>1. PICK i \in DOMAIN events :
          /\ DOMAIN events' = DOMAIN events
          /\ \A j \in DOMAIN events \ {i} : events'[j] = events[j]
          /\ events'[i].confirmed = events[i].confirmed
          /\ events'[i].told = events[i].told
    BY EndEventDoes
  <1>2. checks' = checks /\ mishaps' = mishaps
    BY DEF EndEvent
  <1>3. Current' = Current
    BY <1>2 DEF Current
  <1>4. \A j \in DOMAIN events, m \in Messages :
          m \notin events'[j].told /\ (m = "confirmed" => events'[j].confirmed)
            => m \notin events[j].told /\ (m = "confirmed" => events[j].confirmed)
    BY <1>1
  <1>5. Owed' \subseteq Owed
    BY <1>1, <1>4 DEF Owed
  <1> QED
    BY <1>2, <1>3, <1>5, OwedFalls DEF EvalTyped

LEMMA OwedStep ==
  ASSUME EvalTyped, ChecksInv, OwedInv, EvalNext
  PROVE  OwedInv'
  <1>1. ASSUME NEW c \in checks, First(c), Works(c) PROVE OwedInv'
    BY <1>1, OwedInsert, OwedLeave, OwedConfirm, OwedAnnounce DEF Works
  <1> QED
    BY <1>1, EvalSteps, OwedPoll, OwedIdles, OwedEnd

-----------------------------------------------------------------------------
RepositoryInv == EvalTyped /\ ChecksInv /\ RowsInv /\ OwedInv

LEMMA RepositoryStarts == ASSUME EvalInit PROVE RepositoryInv
  <1>1. EvalTyped
    BY DEF EvalInit, EvalTyped
  <1>2. Owed = {}
    BY DEF EvalInit, Owed
  <1>3. Cardinality(Owed \ Current) = 0
    BY <1>2, FS_EmptySet
  <1>4. ChecksInv /\ RowsInv
    BY DEF EvalInit, ChecksInv, RowsInv
  <1> QED
    BY <1>1, <1>3, <1>4 DEF EvalInit, RepositoryInv, OwedInv

LEMMA RepositoryStep ==
  ASSUME RepositoryInv, [EvalNext]_evalVars
  PROVE  RepositoryInv'
  <1>1. CASE EvalNext
    <2>1. EvalTyped' /\ ChecksInv'
      BY <1>1, EvalSteps, PollTyped, IdlesTyped, WorksTyped, EndEventTyped, ChecksRest
         DEF RepositoryInv
    <2>2. RowsInv' /\ OwedInv'
      BY <1>1, RowsStep, OwedStep DEF RepositoryInv
    <2> QED
      BY <2>1, <2>2 DEF RepositoryInv
  <1>2. CASE UNCHANGED evalVars
    <2>1. UNCHANGED <<clock, job, mishaps, history, since, lacking, checks, events>>
      BY <1>2 DEF evalVars
    <2>2. EvalTyped' /\ ChecksInv' /\ RowsInv'
      BY <2>1 DEF RepositoryInv, EvalTyped, ChecksInv, First, RowsInv
    <2>3. Owed' = Owed /\ Current' = Current
      BY <2>1 DEF Owed, Current
    <2> QED
      BY <2>1, <2>2, <2>3 DEF RepositoryInv, OwedInv
  <1> QED
    BY <1>1, <1>2

LEMMA RepositoryAlways == EvalSpec => []RepositoryInv
  <1>1. EvalInit => RepositoryInv
    BY RepositoryStarts
  <1>2. RepositoryInv /\ [EvalNext]_evalVars => RepositoryInv'
    BY RepositoryStep
  <1> QED
    BY <1>1, <1>2, PTL DEF EvalSpec

(* _upsert_trigger and the publisher: every row of the repository is       *)
(* announced as detected, and as confirmed once it is, except for one      *)
(* message for each poll that failed and each process that died; and a     *)
(* kind of trigger never has two open rows, so a disruption is announced   *)
(* once, whatever the order of polls, failures, restarts and ends.         *)
THEOREM EventsAnnouncedAlways == EvalSpec => []EventsAnnounced
  <1>1. RepositoryInv => EventsAnnounced
    <2> SUFFICES ASSUME RepositoryInv PROVE EventsAnnounced
      OBVIOUS
    <2>1. EvalTyped /\ ChecksInv /\ RowsInv /\ OwedInv
      BY DEF RepositoryInv
    <2>2. mishaps \in Nat
      BY <2>1 DEF EvalTyped
    <2> DEFINE hand == IF \E c \in checks : c.next \in Messages THEN 1 ELSE 0
    <2>3. hand \in {0, 1} /\ (Current # {} => hand = 1)
      BY <2>1, CurrentSmall
    <2> HIDE DEF hand
    <2>4. Cardinality(Owed) <= mishaps + hand
      BY <2>1, <2>2, <2>3, OwedWithCurrent DEF OwedInv
    <2>5. \A i, j \in DOMAIN events : i \in Nat /\ j \in Nat
      BY <2>1 DEF EvalTyped
    <2>6. ASSUME NEW i \in DOMAIN events, NEW j \in DOMAIN events,
                 events[i].kind = events[j].kind, events[i].ended = Nothing, events[j].ended = Nothing
          PROVE  i = j
      BY <2>1, <2>5, <2>6 DEF RowsInv
    <2> QED
      BY <2>4, <2>6 DEF EventsAnnounced, hand
  <1> QED
    BY <1>1, RepositoryAlways, PTL

-----------------------------------------------------------------------------
(* When polls are due.                                                     *)

Due(j) == j * PollEvery

LEMMA DueNext ==
  ASSUME NEW j \in Int
  PROVE  Due(j) \in Int /\ Due(j + 1) = Due(j) + PollEvery /\ Due(j - 1) = Due(j) - PollEvery
  BY EvaluatorAssumption DEF Due

LEMMA Product == ASSUME NEW x \in Int, NEW y \in Int, x >= 0, y >= 0 PROVE x * y >= 0
  BY SMT

LEMMA Monotone ==
  ASSUME NEW i \in Int, NEW j \in Int, NEW p \in Int, p >= 0, i <= j
  PROVE  i * p <= j * p
  BY SMT

LEMMA DueOrder == ASSUME NEW i \in Int, NEW j \in Int, i <= j PROVE Due(i) <= Due(j)
  BY Monotone, EvaluatorAssumption DEF Due

(* A duration in polls.                                                    *)
LEMMA DueShift ==
  ASSUME NEW i \in Int, NEW n \in Int
  PROVE  Due(i) + Due(n) = Due(i + n)
  BY EvaluatorAssumption DEF Due

LEMMA Timing ==
  /\ PollEvery \in Int /\ PollEvery > Grace /\ Grace \in Int /\ Grace >= 0
  /\ \A k \in Conditions : Lasting[k] \in Nat
  BY EvaluatorAssumption

LEMMA ProductWhole == ASSUME NEW x \in Int, NEW y \in Int PROVE x * y \in Int
  OBVIOUS

(* How long a condition has to last.                                       *)
LEMMA LastingTime == \A k \in Conditions : Lasting[k] * PollEvery \in Int
  BY Timing, ProductWhole

-----------------------------------------------------------------------------
(* What is kept in memory.                                                 *)

(* The clock is at most at the end of the time the next poll may start in; *)
(* points are of earlier polls; and when all points from p on saw the      *)
(* condition, it has been unbroken since p at least: a skipped poll leaves *)
(* no point, and what is dropped is older than what is kept.               *)
HistoryInv ==
  /\ clock <= Due(job) + Grace
  /\ \A k \in Conditions :
       /\ since[k] # Nothing => since[k] <= clock
       /\ \A p \in history[k] :
            /\ p.at < Due(job) /\ p.at <= clock
            /\ Trails(p, history[k]) => since[k] # Nothing /\ since[k] <= p.at

(* What a poll keeps: the point it makes and recent ones.                  *)
LEMMA KeptPoints ==
  ASSUME EvalTyped, NEW reading, NEW k \in Conditions
  PROVE  LET point == [at |-> clock, met |-> Met(reading, k)]
         IN  /\ point \in Keeping(reading, k) /\ point \in PointType
             /\ Keeping(reading, k) \subseteq history[k] \cup {point}
             /\ \A p \in history[k] :
                  p.at + Due(Lasting[k] + 1) >= clock => p \in Keeping(reading, k)
             /\ \A p \in history[k] \cap Keeping(reading, k), q \in history[k] :
                  q.at >= p.at => q \in Keeping(reading, k)
  <1> DEFINE point == [at |-> clock, met |-> Met(reading, k)]
             span == (Lasting[k] + 1) * PollEvery
  <1>1. span \in Int /\ span >= 0
    <2>1. Lasting[k] + 1 \in Int /\ Lasting[k] + 1 >= 0 /\ PollEvery \in Int /\ PollEvery >= 0
      BY Timing
    <2>2. (Lasting[k] + 1) * PollEvery >= 0
      BY <2>1, Product
    <2> QED
      BY <2>1, <2>2
  <1>2. Met(reading, k) \in BOOLEAN
    BY DEF Met
  <1>3. point \in PointType /\ point.at = clock /\ clock \in Int
    BY <1>2 DEF PointType, EvalTyped
  <1>4. Keeping(reading, k) = {p \in history[k] \cup {point} : p.at + span >= clock}
    BY DEF Keeping, Points
  <1>5. \A p \in history[k] : p.at \in Int
    BY DEF EvalTyped, PointType
  <1> HIDE DEF point, span
  <1>6. point \in Keeping(reading, k)
    BY <1>1, <1>3, <1>4
  <1>7. \A p \in history[k] \cap Keeping(reading, k), q \in history[k] :
          q.at >= p.at => q \in Keeping(reading, k)
    BY <1>1, <1>3, <1>4, <1>5
  <1>8. \A p \in history[k] : p.at + span >= clock => p \in Keeping(reading, k)
    BY <1>4
  <1>9. Keeping(reading, k) \subseteq history[k] \cup {point}
    BY <1>4
  <1> QED
    BY <1>3, <1>6, <1>7, <1>8, <1>9 DEF point, span, Due

LEMMA HistoryPoll ==
  ASSUME EvalTyped, HistoryInv, Poll
  PROVE  HistoryInv'
  <1>1. PICK reading : PollReads(reading)
    BY PollDoes
  <1>2. job' = job + 1 /\ clock' = clock
    BY PollDoes
  <1>3. job \in Int /\ clock \in Int
    BY DEF EvalTyped
  <1>4. Due(job') = Due(job) + PollEvery /\ Due(job) \in Int
    BY <1>2, <1>3, DueNext
  <1>5. clock < Due(job')
    BY <1>3, <1>4, Timing DEF HistoryInv
  <1>6. clock' <= Due(job') + Grace
    BY <1>2, <1>3, <1>4, <1>5, Timing
  <1> SUFFICES ASSUME NEW k \in Conditions
               PROVE  /\ since'[k] # Nothing => since'[k] <= clock
                      /\ \A p \in history'[k] :
                           /\ p.at < Due(job') /\ p.at <= clock
                           /\ Trails(p, history'[k]) => since'[k] # Nothing /\ since'[k] <= p.at
    BY <1>2, <1>6 DEF HistoryInv
  <1> DEFINE point == [at |-> clock, met |-> Met(reading, k)]
  <1>7. /\ history'[k] = Keeping(reading, k)
        /\ since'[k] = IF ~Met(reading, k) THEN Nothing ELSE IF since[k] = Nothing THEN clock ELSE since[k]
    BY <1>1 DEF PollReads
  <1>8. /\ point \in Keeping(reading, k)
        /\ Keeping(reading, k) \subseteq history[k] \cup {point}
        /\ \A p \in history[k] \cap Keeping(reading, k), q \in history[k] :
             q.at >= p.at => q \in Keeping(reading, k)
    BY KeptPoints
  <1>9. point.at = clock /\ point.met = Met(reading, k)
    OBVIOUS
  <1> HIDE DEF point
  <1>10. since'[k] # Nothing => since'[k] <= clock
    BY <1>3, <1>7 DEF HistoryInv
  <1>11. ASSUME NEW p \in history'[k]
         PROVE  p.at < Due(job') /\ p.at <= clock
    BY <1>3, <1>4, <1>5, <1>7, <1>8, <1>9, <1>11, Timing DEF HistoryInv, EvalTyped, PointType
  <1>12. ASSUME NEW p \in history'[k], Trails(p, history'[k])
         PROVE  since'[k] # Nothing /\ since'[k] <= p.at
    <2>1. Met(reading, k)
      <3>1. p.at <= clock
        BY <1>11, <1>12
      <3>2. p.at \in Int
        BY <1>3, <1>7, <1>8, <1>9, <1>12 DEF EvalTyped, PointType
      <3> QED
        BY <1>3, <1>7, <1>8, <1>9, <1>12, <3>1, <3>2 DEF Trails
    <2>2. since'[k] = IF since[k] = Nothing THEN clock ELSE since[k]
      BY <1>7, <2>1
    <2>3. clock # Nothing /\ (since[k] # Nothing => since[k] <= clock)
      BY EvaluatorAssumption DEF EvalTyped, HistoryInv
    <2>4. CASE p = point
      BY <1>3, <1>9, <2>2, <2>3, <2>4
    <2>5. CASE p \in history[k]
      <3>1. Trails(p, history[k])
        BY <1>7, <1>8, <1>12, <2>5 DEF Trails
      <3>2. since[k] # Nothing /\ since[k] <= p.at
        BY <2>5, <3>1 DEF HistoryInv
      <3> QED
        BY <2>2, <3>2
    <2> QED
      BY <1>7, <1>8, <1>12, <2>4, <2>5
  <1> QED
    BY <1>10, <1>11, <1>12

LEMMA HistoryIdles ==
  ASSUME EvalTyped, HistoryInv, Idles
  PROVE  HistoryInv'
  <1>1. CASE PassTime
    <2>1. /\ clock' = clock + 1 /\ UNCHANGED <<history, since>>
          /\ \/ clock' > Due(job) + Grace /\ job' = job + 1
             \/ ~(clock' > Due(job) + Grace) /\ job' = job
      <3>1. /\ clock' = clock + 1 /\ UNCHANGED <<history, since>>
            /\ IF clock' > Due(job) + Grace
                 THEN job' = job + 1 /\ lacking' = [k \in Conditions |-> 0]
                 ELSE UNCHANGED <<job, lacking>>
        BY <1>1, Zenon DEF PassTime, Due
      <3>2. CASE clock' > Due(job) + Grace
        BY <3>1, <3>2
      <3>3. CASE ~(clock' > Due(job) + Grace)
        BY <3>1, <3>3
      <3> QED
        BY <3>2, <3>3
    <2>2. /\ clock \in Int /\ job \in Int /\ Due(job) \in Int
          /\ Due(job + 1) = Due(job) + PollEvery
      <3>1. clock \in Int /\ job \in Int
        BY DEF EvalTyped
      <3> QED
        BY <3>1, DueNext
    <2>3. clock' <= Due(job') + Grace /\ Due(job') \in Int /\ Due(job) <= Due(job')
      BY <2>1, <2>2, Timing DEF HistoryInv
    <2>4. \A k \in Conditions :
            /\ since[k] # Nothing => since[k] \in Int
            /\ \A p \in history[k] : p.at \in Int
      BY DEF EvalTyped, PointType
    <2>5. ASSUME NEW k \in Conditions
          PROVE  /\ since[k] # Nothing => since[k] <= clock'
                 /\ \A p \in history[k] : p.at < Due(job') /\ p.at <= clock'
      BY <2>1, <2>2, <2>3, <2>4 DEF HistoryInv
    <2> QED
      BY <2>1, <2>3, <2>5 DEF HistoryInv, Trails
  <1>2. CASE SetRestriction \/ PollFails
    <2>1. UNCHANGED <<clock, job, history, since>>
      BY <1>2 DEF SetRestriction, PollFails
    <2> QED
      BY <2>1 DEF HistoryInv, Trails
  <1>3. CASE EvaluatorRestarts
    <2>1. /\ clock' = clock /\ job' = clock \div PollEvery + 1
          /\ \A k \in Conditions : history'[k] = {} /\ since'[k] = Nothing
      BY <1>3 DEF EvaluatorRestarts
    <2>2. clock \in Nat /\ PollEvery \in Nat /\ PollEvery > 0
      BY EvaluatorAssumption DEF EvalTyped
    <2>3. clock < Due(job') /\ Due(job') \in Int
      BY <2>1, <2>2, NextPoll DEF Due
    <2>4. clock' <= Due(job') + Grace
      BY <2>1, <2>2, <2>3, Timing
    <2> QED
      BY <2>1, <2>4 DEF HistoryInv
  <1> QED
    BY <1>1, <1>2, <1>3 DEF Idles

LEMMA HistoryStep ==
  ASSUME EvalTyped, HistoryInv, EvalNext
  PROVE  HistoryInv'
  <1>1. ASSUME NEW c \in checks, Works(c) PROVE HistoryInv'
    BY <1>1, WorksLeave DEF HistoryInv, Trails
  <1>2. CASE EndEvent
    BY <1>2 DEF EndEvent, HistoryInv, Trails
  <1> QED
    BY <1>1, <1>2, EvalSteps, HistoryPoll, HistoryIdles

(* What fires has lasted.                                                  *)
LEMMA FiresSustained ==
  ASSUME EvalTyped, HistoryInv', NEW reading, PollReads(reading), clock' = clock,
         EvalTyped', NEW k \in Conditions, Detects(reading, k)
  PROVE  since'[k] # Nothing /\ since'[k] + Lasting[k] * PollEvery <= clock'
  <1>1. history'[k] = Keeping(reading, k)
    BY DEF PollReads
  <1>2. PICK p \in history'[k] : Trails(p, history'[k]) /\ p.at + Lasting[k] * PollEvery <= clock
    BY <1>1 DEF Detects, Sustained
  <1>3. since'[k] # Nothing /\ since'[k] <= p.at
    BY <1>2 DEF HistoryInv, Trails
  <1>4. p.at \in Int /\ since'[k] \in Int /\ clock \in Int
    BY <1>2, <1>3 DEF EvalTyped, PointType
  <1>5. Lasting[k] * PollEvery \in Int
    BY LastingTime
  <1> QED
    BY <1>2, <1>3, <1>4, <1>5

LEMMA SustainedStep ==
  ASSUME EvalTyped, EvalTyped', ChecksInv, HistoryInv, DetectionSustained, EvalNext
  PROVE  DetectionSustained'
  <1>1. CASE Poll
    <2>1. PICK reading : PollReads(reading)
      BY <1>1, PollDoes
    <2>2. clock' = clock /\ HistoryInv'
      BY <1>1, PollDoes, HistoryPoll
    <2>3. \A c \in checks' : c.kind \in Conditions => Detects(reading, c.kind)
      BY <2>1, PollChecks
    <2> QED
      BY <2>1, <2>2, <2>3, FiresSustained DEF DetectionSustained
  <1>2. CASE Idles
    <2>1. checks' = {} \/ (checks' = checks /\ UNCHANGED <<clock, since>>)
      BY <1>2 DEF Idles, PassTime, SetRestriction, PollFails, EvaluatorRestarts
    <2> QED
      BY <2>1 DEF DetectionSustained
  <1>3. CASE EndEvent
    BY <1>3 DEF EndEvent, DetectionSustained
  <1>4. ASSUME NEW c \in checks, First(c), Works(c) PROVE DetectionSustained'
    <2>1. UNCHANGED <<clock, since>>
      BY <1>4, WorksLeave
    <2>2. \A d \in checks' : \E e \in checks : d.kind = e.kind
      <3>1. ASSUME NEW what, NEW i, Turns(c, what, i)
            PROVE  \A d \in checks' : \E e \in checks : d.kind = e.kind
        <4>1. checks' = (checks \ {c}) \cup {Turned(c, what, i)}
          BY <3>1 DEF Turns, Turned
        <4> QED
          BY <4>1, TurnedFields
      <3>2. CASE checks' = checks \ {c}
        BY <3>2
      <3> QED
        BY <1>4, <3>1, <3>2 DEF Works, Insert, Leave, Confirm, Announce
    <2> QED
      BY <2>1, <2>2 DEF DetectionSustained
  <1> QED
    BY <1>1, <1>2, <1>3, <1>4, EvalSteps

-----------------------------------------------------------------------------
(* What lasts triggers.                                                    *)

Point(j, late) == [at |-> Due(j) + late, met |-> TRUE]

(* Of the polls in a row that saw condition k, f[d] is how late the one    *)
(* d polls ago started.  The points of the last Lasting[k] + 1 are in      *)
(* memory.  When there were more, the oldest of these started later than   *)
(* the newest, which has not found it old enough, and the one before it    *)
(* was dropped, so the lateness of the oldest grows by two with each poll. *)
Lateness(k, f) ==
  /\ \A d \in 0..Lasting[k] : d < lacking[k] => Point(job - 1 - d, f[d]) \in history[k]
  /\ lacking[k] > Lasting[k] =>
       /\ f[Lasting[k]] >= 2 * (lacking[k] - Lasting[k]) - 1
       /\ f[lacking[k] - Lasting[k] - 1] < f[Lasting[k]]

LackingFor(k) ==
  /\ lacking[k] <= 2 * Lasting[k] /\ lacking[k] <= job
  /\ \A q \in history[k] : q.at >= Due(job - lacking[k]) => q.met
  /\ \E f \in [0..Lasting[k] -> 0..Grace] : Lateness(k, f)

LackingInv == \A k \in Conditions : LackingFor(k)

LEMMA LackingNone ==
  EvalTyped /\ HistoryInv => \A k \in Conditions : lacking[k] = 0 => LackingFor(k)
  <1> SUFFICES ASSUME EvalTyped, HistoryInv, NEW k \in Conditions, lacking[k] = 0
               PROVE  LackingFor(k)
    OBVIOUS
  <1>1. Lasting[k] \in Nat /\ 0 \in 0..Grace /\ job \in Nat
    BY Timing DEF EvalTyped
  <1>2. job - lacking[k] = job /\ Due(job) \in Int
    BY <1>1, DueNext
  <1>3. \A q \in history[k] : q.at < Due(job) /\ q.at \in Int
    BY DEF HistoryInv, EvalTyped, PointType
  <1>4. \A q \in history[k] : ~(q.at >= Due(job - lacking[k]))
    BY <1>2, <1>3
  <1> DEFINE f == [d \in 0..Lasting[k] |-> 0]
  <1>5. f \in [0..Lasting[k] -> 0..Grace]
    BY <1>1
  <1> HIDE DEF f
  <1>6. Lateness(k, f)
    BY <1>1 DEF Lateness
  <1> QED
    BY <1>1, <1>4, <1>5, <1>6 DEF LackingFor

(* The same of the state that follows.                                     *)
LEMMA LackingNoneNext ==
  (EvalTyped /\ HistoryInv => \A k \in Conditions : lacking[k] = 0 => LackingFor(k))'
  BY LackingNone, PTL

LEMMA LateByTwo ==
  ASSUME NEW n \in Int, NEW m \in Int, NEW newer \in Int, NEW late \in Int, NEW older \in Int,
         newer > late, late > older, older >= 2 * (n - m) - 1
  PROVE  newer >= 2 * (n + 1 - m) - 1
  OBVIOUS

(* A poll that sees k with confidence and does not trigger.                *)
LEMMA LackingMore ==
  ASSUME EvalTyped, HistoryInv, Poll, NEW reading, PollReads(reading), NEW k \in Conditions,
         LackingFor(k), ~Detects(reading, k), ~(Trust(reading, k) < 70)
  PROVE  LackingFor(k)'
  <1> DEFINE n == lacking[k]
             L == Lasting[k]
             late == clock - Due(job)
             point == [at |-> clock, met |-> Met(reading, k)]
  <1>1. /\ n \in Nat /\ L \in Nat /\ job \in Nat /\ clock \in Nat /\ Grace \in Nat
        /\ Due(job) \in Int /\ clock >= Due(job) /\ clock <= Due(job) + Grace
    BY Timing, DueNext, PollDoes DEF EvalTyped, HistoryInv, Due
  <1>2. late \in 0..Grace /\ Due(job) + late = clock
    BY <1>1
  <1>3. job' = job + 1 /\ lacking'[k] = n + 1 /\ history'[k] = Keeping(reading, k)
    BY PollDoes DEF PollReads
  <1>4. Met(reading, k) /\ point = Point(job, late)
    BY <1>2, TrustNeedsMet DEF Point
  <1>5. /\ point \in history'[k]
        /\ history'[k] \subseteq history[k] \cup {point}
        /\ \A p \in history[k] : p.at + Due(L + 1) >= clock => p \in history'[k]
    BY <1>3, KeptPoints
  <1>6. /\ n <= 2 * L /\ n <= job
        /\ \A q \in history[k] : q.at >= Due(job - n) => q.met
    BY DEF LackingFor
  <1>7. PICK f \in [0..L -> 0..Grace] : Lateness(k, f)
    BY DEF LackingFor
  <1>8. /\ \A d \in 0..L : d < n => Point(job - 1 - d, f[d]) \in history[k]
        /\ n > L => f[L] >= 2 * (n - L) - 1 /\ f[n - L - 1] < f[L]
    BY <1>7 DEF Lateness
  <1>9. point.at = clock /\ point.met
    BY <1>4
  <1> HIDE DEF point
  <1>10. \A q \in history'[k] : q.at \in Int
    <2>1. \A q \in history[k] : q.at \in Int
      BY DEF EvalTyped, PointType
    <2> QED
      BY <1>1, <1>5, <1>9, <2>1
  <1>11. \A p \in history'[k] : Trails(p, history'[k]) => p.at + Due(L) > clock
    <2>1. Trust(reading, k) >= 70
      BY ConfidenceGraded DEF Trust
    <2>2. ~Sustained(k, history'[k])
      BY <1>3, <2>1 DEF Detects
    <2>3. \A p \in history'[k] : Trails(p, history'[k]) => ~(p.at + L * PollEvery <= clock)
      BY <2>2 DEF Sustained
    <2>4. Due(L) = L * PollEvery
      BY DEF Due
    <2>5. \A p \in history'[k] : Trails(p, history'[k]) => ~(p.at + Due(L) <= clock)
      BY <2>3, <2>4
    <2>6. Due(L) \in Int
      <3>1. L \in Int
        BY <1>1
      <3> HIDE DEF L
      <3> QED
        BY <3>1, DueNext
    <2>7. \A p \in history'[k] : p.at \in Int
      BY <1>10
    <2> QED
      BY <1>1, <2>5, <2>6, <2>7
  <1> HIDE DEF late, n, L
  <1>12. \A q \in history'[k] : q.at >= Due(job - n) => q.met
    BY <1>5, <1>6, <1>9
  (* A point of the unbroken row that is kept is not old enough.           *)
  <1>13. ASSUME NEW j \in Int, NEW l \in Int, j >= job - n, l >= 0, Point(j, l) \in history'[k]
         PROVE  Due(j) + l + Due(L) > clock
    <2>1. job - n \in Int
      BY <1>1
    <2>2. Due(j) >= Due(job - n)
      BY <1>13, <2>1, DueOrder
    <2>3. Due(j) \in Int /\ Due(job - n) \in Int
      BY <2>1, DueNext
    <2>4. Point(j, l).at = Due(j) + l
      BY DEF Point
    <2>5. Trails(Point(j, l), history'[k])
      BY <1>12, <1>10, <1>13, <2>2, <2>3, <2>4 DEF Trails
    <2> QED
      BY <1>11, <1>13, <2>4, <2>5
  (* A point of up to L polls ago is kept, and one of the poll before too  *)
  (* when that poll was at least as late as this one.                      *)
  <1>14. ASSUME NEW d \in Int, NEW l \in Int, l >= 0, Point(job - 1 - d, l) \in history[k],
                d + 1 <= L \/ (d = L /\ l >= late)
         PROVE  Point(job - 1 - d, l) \in history'[k]
    <2>1. job - 1 - d \in Int /\ L + 1 \in Int /\ job - 1 - d + (L + 1) = job + (L - d)
      BY <1>1
    <2>2. Due(job - 1 - d) + Due(L + 1) = Due(job + (L - d))
      BY <2>1, DueShift
    <2>3. Due(job - 1 - d) \in Int /\ Due(L + 1) \in Int
      BY <2>1, DueNext
    <2>4. Point(job - 1 - d, l).at = Due(job - 1 - d) + l
      BY DEF Point
    <2>5. Due(job + (L - d)) + l >= clock
      <3>1. CASE d + 1 <= L
        <4>1. job + 1 \in Int /\ job + (L - d) \in Int /\ job + 1 <= job + (L - d) /\ job \in Int
          BY <1>1, <3>1
        <4>2. Due(job + 1) <= Due(job + (L - d))
          BY <4>1, DueOrder
        <4>3. Due(job + 1) = Due(job) + PollEvery /\ Due(job + (L - d)) \in Int
          BY <4>1, DueNext
        <4>4. Due(job) \in Int
          BY <4>1, DueNext
        <4> DEFINE soon == Due(job)
                   next == Due(job + 1)
                   later == Due(job + (L - d))
        <4>5. soon \in Int /\ next = soon + PollEvery /\ later \in Int /\ next <= later
          BY <4>2, <4>3, <4>4
        <4>6. clock <= next
          BY <1>1, <4>5, Timing
        <4> HIDE DEF soon, next, later
        <4>7. later + l >= clock
          BY <4>5, <4>6, <1>1, <1>14
        <4> QED
          BY <4>7 DEF later
      <3>2. CASE d = L /\ l >= late
        <4>1. job + (L - d) = job
          BY <1>1, <3>2
        <4> QED
          BY <1>1, <1>2, <3>2, <4>1
      <3> QED
        BY <1>14, <3>1, <3>2
    <2>6. Point(job - 1 - d, l).at + Due(L + 1) >= clock
      BY <2>2, <2>3, <2>4, <2>5
    <2> QED
      BY <1>5, <1>14, <2>6
  <1>15. PICK g \in [0..L -> 0..Grace] : g[0] = late /\ \A d \in 1..L : g[d] = f[d - 1]
    <2> DEFINE h == [d \in 0..L |-> IF d = 0 THEN late ELSE f[d - 1]]
    <2>1. h \in [0..L -> 0..Grace] /\ h[0] = late /\ \A d \in 1..L : h[d] = f[d - 1]
      BY <1>1, <1>2
    <2> HIDE DEF h
    <2> QED
      BY <2>1
  <1>16. \A d \in 0..L : f[d] \in 0..Grace /\ g[d] \in 0..Grace /\ f[d] >= 0 /\ g[d] >= 0
    BY <1>1, <1>7, <1>15
  <1>17. \A d \in 0..L : d < n + 1 => Point(job - d, g[d]) \in history'[k]
    <2> SUFFICES ASSUME NEW d \in 0..L, d < n + 1
                 PROVE  Point(job - d, g[d]) \in history'[k]
      OBVIOUS
    <2>1. CASE d = 0
      <3>1. job - d = job /\ g[d] = late
        BY <1>1, <1>15, <2>1
      <3> QED
        BY <1>4, <1>5, <3>1 DEF point
    <2>2. CASE d # 0
      <3>1. /\ d - 1 \in 0..L /\ d - 1 < n /\ d - 1 \in Int /\ (d - 1) + 1 <= L
            /\ job - 1 - (d - 1) = job - d /\ g[d] = f[d - 1]
        BY <1>1, <1>15, <2>2
      <3>2. Point(job - 1 - (d - 1), f[d - 1]) \in history[k]
        BY <1>8, <3>1
      <3>3. f[d - 1] \in Int /\ f[d - 1] >= 0
        BY <1>16, <3>1
      <3>4. Point(job - 1 - (d - 1), f[d - 1]) \in history'[k]
        BY <1>14, <3>1, <3>2, <3>3
      <3> QED
        BY <3>1, <3>4
    <2> QED
      BY <2>1, <2>2
  (* The oldest point in memory started later in its slot than this poll.  *)
  <1>18. n + 1 > L => g[L] > late
    <2> SUFFICES ASSUME n + 1 > L PROVE g[L] > late
      OBVIOUS
    <2>1. /\ L \in 0..L /\ L < n + 1 /\ job - L \in Int /\ job - L >= job - n
          /\ g[L] \in Int /\ g[L] >= 0
      BY <1>1, <1>16
    <2>2. Point(job - L, g[L]) \in history'[k]
      BY <1>17, <2>1
    <2>3. Due(job - L) + g[L] + Due(L) > clock
      BY <1>13, <2>1, <2>2
    <2>4. job - L + L = job /\ L \in Int
      BY <1>1
    <2>5. Due(job - L) + Due(L) = Due(job)
      BY <2>1, <2>4, DueShift
    <2>6. Due(job - L) \in Int /\ Due(L) \in Int
      BY <2>1, <2>4, DueNext
    <2> QED
      <3>1. clock \in Int /\ late \in Int /\ Due(job) \in Int
        BY <1>1, <1>2
      <3> QED
        BY <3>1, <1>2, <2>1, <2>3, <2>5, <2>6
  (* The one before it is gone, so it started earlier in its slot.         *)
  <1>19. n > L => f[L] < late
    <2> SUFFICES ASSUME n > L PROVE f[L] < late
      OBVIOUS
    <2>1. /\ L \in 0..L /\ L < n /\ job - 1 - L \in Int /\ job - 1 - L >= job - n
          /\ f[L] \in Int /\ f[L] >= 0 /\ f[L] <= Grace /\ late \in Int
      BY <1>1, <1>2, <1>16
    <2> SUFFICES ASSUME f[L] >= late PROVE FALSE
      BY <2>1
    <2>2. Point(job - 1 - L, f[L]) \in history[k]
      BY <1>8, <2>1
    <2>3. Point(job - 1 - L, f[L]) \in history'[k]
      BY <1>1, <1>14, <2>1, <2>2
    <2>4. Due(job - 1 - L) + f[L] + Due(L) > clock
      BY <1>13, <2>1, <2>3
    <2>5. job - 1 - L + L = job - 1 /\ L \in Int /\ job \in Int
      BY <1>1
    <2>6. Due(job - 1 - L) + Due(L) = Due(job - 1)
      BY <2>1, <2>5, DueShift
    <2>7. Due(job - 1 - L) \in Int /\ Due(L) \in Int /\ Due(job - 1) = Due(job) - PollEvery
      BY <2>1, <2>5, DueNext
    <2>8. clock \in Int /\ Due(job) \in Int /\ clock >= Due(job)
      BY <1>1, <1>2
    <2>9. Due(job) - PollEvery + f[L] > clock
      BY <2>1, <2>4, <2>6, <2>7, <2>8, Timing
    <2> QED
      BY <2>1, <2>8, <2>9, Timing
  <1>20. n + 1 > L => /\ g[L] >= 2 * (n + 1 - L) - 1
                      /\ n + 1 - L - 1 \in 0..L /\ g[n + 1 - L - 1] < g[L]
    <2>1. CASE n + 1 = L + 1
      <3>1. n + 1 - L - 1 = 0 /\ 2 * (n + 1 - L) - 1 = 1 /\ 0 \in 0..L /\ L \in 0..L
        BY <1>1, <2>1
      <3>2. g[L] > late /\ late \in Int /\ late >= 0 /\ g[L] \in Int
        BY <1>1, <1>2, <1>16, <1>18, <2>1
      <3> QED
        BY <1>15, <3>1, <3>2
    <2>2. CASE n > L
      <3>1. /\ g[L] > late /\ f[L] < late /\ f[L] >= 2 * (n - L) - 1 /\ f[n - L - 1] < f[L]
            /\ late \in Int /\ f[L] \in Int /\ g[L] \in Int
        BY <1>1, <1>2, <1>8, <1>16, <1>18, <1>19, <2>2
      <3>2. /\ n + 1 - L - 1 \in 1..L /\ (n + 1 - L - 1) - 1 = n - L - 1 /\ n - L - 1 \in 0..L
        BY <1>1, <1>6, <2>2
      <3>3. g[n + 1 - L - 1] = f[n - L - 1] /\ f[n - L - 1] \in Int
        BY <1>15, <1>16, <3>2
      <3>4. n \in Int /\ L \in Int
        BY <1>1
      <3>5. g[L] >= 2 * (n + 1 - L) - 1
        BY <3>1, <3>4, LateByTwo
      <3>6. n + 1 - L - 1 \in 0..L
        BY <3>2
      <3>7. g[n + 1 - L - 1] < g[L]
        BY <3>1, <3>3
      <3> QED
        BY <3>5, <3>6, <3>7
    <2> QED
      BY <1>1, <2>1, <2>2
  (* It cannot be the same poll that is at the end of both.                *)
  <1>21. n + 1 <= 2 * L
    <2> SUFFICES ASSUME n + 1 > 2 * L PROVE FALSE
      BY <1>1
    <2>1. n + 1 = 2 * L + 1
      <3>1. n <= 2 * L /\ n \in Int /\ L \in Int
        BY <1>1, <1>6
      <3> QED
        BY <3>1
    <2>2. n + 1 > L /\ n + 1 - L - 1 = L /\ L \in 0..L
      BY <1>1, <2>1
    <2>3. g[L] < g[L] /\ g[L] \in Int
      BY <1>16, <1>20, <2>2
    <2> QED
      BY <2>3
  <1>22. job' = job + 1 /\ lacking'[k] = n + 1
    BY <1>3
  <1>23. \A d \in 0..L : d < lacking'[k] => Point(job' - 1 - d, g[d]) \in history'[k]
    <2>1. \A d \in 0..L : job + 1 - 1 - d = job - d
      BY <1>1
    <2> TAKE d \in 0..L
    <2>2. job' - 1 - d = job - d
      BY <1>1, <1>22, <2>1
    <2> QED
      BY <1>1, <1>17, <1>22, <2>2
  <1>24. lacking'[k] > L => /\ g[L] >= 2 * (lacking'[k] - L) - 1
                           /\ g[lacking'[k] - L - 1] < g[L]
    BY <1>1, <1>20, <1>22
  <1>25. Lateness(k, g)'
    <2> USE DEF L
    <2>1. \A d \in 0..Lasting[k] :
            d < lacking'[k] => [at |-> (job' - 1 - d) * PollEvery + g[d], met |-> TRUE] \in history'[k]
      BY <1>23 DEF Point, Due
    <2>2. lacking'[k] > Lasting[k] => /\ g[Lasting[k]] >= 2 * (lacking'[k] - Lasting[k]) - 1
                                     /\ g[lacking'[k] - Lasting[k] - 1] < g[Lasting[k]]
      BY <1>24
    <2> QED
      BY <2>1, <2>2 DEF Lateness, Point, Due
  <1>26. job' - lacking'[k] = job - n /\ lacking'[k] <= job' /\ lacking'[k] <= 2 * L
    BY <1>1, <1>6, <1>21, <1>22
  <1> QED
    <2> USE DEF L
    <2>1. lacking'[k] <= 2 * Lasting[k] /\ lacking'[k] <= job'
      BY <1>26
    <2>2. \A q \in history'[k] : q.at >= (job' - lacking'[k]) * PollEvery => q.met
      BY <1>12, <1>26 DEF Due
    <2>3. g \in [0..Lasting[k] -> 0..Grace]
      BY <1>15
    <2> QED
      BY <1>25, <2>1, <2>2, <2>3 DEF LackingFor, Due

LEMMA LackingPoll ==
  ASSUME EvalTyped, EvalTyped', HistoryInv, HistoryInv', LackingInv, Poll
  PROVE  LackingInv'
  <1>1. PICK reading : PollReads(reading)
    BY PollDoes
  <1> SUFFICES ASSUME NEW k \in Conditions PROVE LackingFor(k)'
    BY DEF LackingInv
  <1>2. lacking'[k] = IF Detects(reading, k) \/ Trust(reading, k) < 70 THEN 0 ELSE lacking[k] + 1
    BY <1>1 DEF PollReads
  <1>3. CASE Detects(reading, k) \/ Trust(reading, k) < 70
    <2>1. lacking'[k] = 0
      BY <1>2, <1>3
    <2> QED
      BY <2>1, LackingNone, LackingNoneNext
  <1>4. CASE ~Detects(reading, k) /\ ~(Trust(reading, k) < 70)
    BY <1>1, <1>4, LackingMore DEF LackingInv
  <1> QED
    BY <1>3, <1>4

LEMMA LackingUnchanged ==
  ASSUME LackingInv, UNCHANGED <<job, history, lacking>>
  PROVE  LackingInv'
  BY DEF LackingInv, LackingFor, Lateness, Point, Due

LEMMA LackingStep ==
  ASSUME EvalTyped, EvalTyped', HistoryInv, HistoryInv', LackingInv, EvalNext
  PROVE  LackingInv'
  <1>1. CASE Idles
    <2>1. \/ \A k \in Conditions : lacking'[k] = 0
          \/ UNCHANGED <<job, history, lacking>>
      <3>1. CASE PassTime
        <4>1. CASE clock' > job * PollEvery + Grace
          BY <3>1, <4>1 DEF PassTime
        <4>2. CASE ~(clock' > job * PollEvery + Grace)
          BY <3>1, <4>2 DEF PassTime
        <4> QED
          BY <4>1, <4>2
      <3> QED
        BY <1>1, <3>1 DEF Idles, SetRestriction, PollFails, EvaluatorRestarts
    <2> QED
      BY <2>1, LackingNoneNext, LackingUnchanged DEF LackingInv
  <1>2. CASE EndEvent
    BY <1>2, LackingUnchanged DEF EndEvent
  <1>3. ASSUME NEW c \in checks, Works(c) PROVE LackingInv'
    BY <1>3, WorksLeave, LackingUnchanged
  <1> QED
    BY <1>1, <1>2, <1>3, EvalSteps, LackingPoll

-----------------------------------------------------------------------------
DetectionInv == RepositoryInv /\ HistoryInv /\ DetectionSustained /\ LackingInv

LEMMA DetectionStarts == ASSUME EvalInit PROVE DetectionInv
  <1>1. RepositoryInv
    BY RepositoryStarts
  <1>2. Due(job) = 0 /\ clock = 0 /\ job = 0
    BY EvaluatorAssumption DEF EvalInit, Due
  <1>3. HistoryInv /\ DetectionSustained
    BY <1>2, Timing DEF EvalInit, HistoryInv, DetectionSustained
  <1>4. LackingInv
    BY <1>1, <1>3, LackingNone DEF EvalInit, LackingInv, RepositoryInv
  <1> QED
    BY <1>1, <1>3, <1>4 DEF DetectionInv

LEMMA DetectionStep ==
  ASSUME DetectionInv, [EvalNext]_evalVars
  PROVE  DetectionInv'
  <1>1. RepositoryInv' /\ EvalTyped /\ EvalTyped' /\ ChecksInv
    BY RepositoryStep DEF DetectionInv, RepositoryInv
  <1>2. CASE EvalNext
    <2>1. HistoryInv'
      BY <1>1, <1>2, HistoryStep DEF DetectionInv
    <2>2. DetectionSustained' /\ LackingInv'
      BY <1>1, <1>2, <2>1, SustainedStep, LackingStep DEF DetectionInv
    <2> QED
      BY <1>1, <2>1, <2>2 DEF DetectionInv
  <1>3. CASE UNCHANGED evalVars
    <2>1. UNCHANGED <<clock, job, history, since, lacking, checks>>
      BY <1>3 DEF evalVars
    <2>2. HistoryInv' /\ DetectionSustained'
      BY <2>1 DEF DetectionInv, HistoryInv, Trails, DetectionSustained
    <2>3. LackingInv'
      BY <2>1, LackingUnchanged DEF DetectionInv
    <2> QED
      BY <1>1, <2>2, <2>3 DEF DetectionInv
  <1> QED
    BY <1>2, <1>3

LEMMA DetectionAlways == EvalSpec => []DetectionInv
  <1>1. EvalInit => DetectionInv
    BY DetectionStarts
  <1>2. DetectionInv /\ [EvalNext]_evalVars => DetectionInv'
    BY DetectionStep
  <1> QED
    BY <1>1, <1>2, PTL DEF EvalSpec

(* _duration_met: no check of a poll goes on to record an event unless     *)
(* every poll of the time its condition must last saw the condition,       *)
(* whatever was dropped from memory, skipped, or lost in a restart.        *)
THEOREM DetectionSustainedAlways == EvalSpec => []DetectionSustained
  <1>1. DetectionInv => DetectionSustained
    BY DEF DetectionInv
  <1> QED
    BY <1>1, DetectionAlways, PTL

(* _duration_met and the pruning of _condition_history: a condition that   *)
(* fresh, confident polls keep seeing triggers at the latest after twice   *)
(* the polls it must last, and after half the grace in ticks more polls    *)
(* than it must last.                                                      *)
THEOREM SustainedDetectedAlways == EvalSpec => []SustainedDetected
  <1>1. DetectionInv => SustainedDetected
    <2> SUFFICES ASSUME DetectionInv, NEW k \in Conditions
                 PROVE  /\ lacking[k] <= 2 * Lasting[k]
                        /\ lacking[k] <= Lasting[k] + (Grace + 1) \div 2
      BY DEF SustainedDetected
    <2>1. lacking[k] \in Nat /\ Lasting[k] \in Nat /\ Grace \in Nat
      BY Timing DEF DetectionInv, RepositoryInv, EvalTyped
    <2>2. LackingFor(k)
      BY DEF DetectionInv, LackingInv
    <2>3. PICK f \in [0..Lasting[k] -> 0..Grace] : Lateness(k, f)
      BY <2>2 DEF LackingFor
    <2>4. f[Lasting[k]] \in 0..Grace
      BY <2>1
    <2>5. lacking[k] > Lasting[k] => Grace >= 2 * (lacking[k] - Lasting[k]) - 1
      BY <2>1, <2>3, <2>4 DEF Lateness
    <2>6. lacking[k] <= Lasting[k] + (Grace + 1) \div 2
      BY <2>1, <2>5
    <2> QED
      BY <2>2, <2>6 DEF LackingFor
  <1> QED
    BY <1>1, DetectionAlways, PTL

=============================================================================
