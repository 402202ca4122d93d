---------------------------- MODULE TriggerPoller ----------------------------
(***************************************************************************)
(* The poll loop of services/trigger-poller in live mode, for one zone:    *)
(* fetch the feeds with their Redis cache, run the breach timers kept in   *)
(* Redis, write the evaluations and publish the active ones.               *)
(*                                                                         *)
(* Zones share nothing but the loop, which catches each zone's exception,  *)
(* so one zone stands for all.  Time counts poll intervals (300 s, also    *)
(* the life of a cached reading).  A reading is abstracted to its level:   *)
(* "weak" breaches the threshold with the confidence of one source (0.60), *)
(* "strong" exceeds it by half or more (0.85 or 0.95).  ExtremeHeat, which *)
(* shares the weather feed, would be strong at 63 degrees only and is left *)
(* out; so is mock mode, which skips the durations.                        *)
(***************************************************************************)
EXTENDS Naturals, Sequences, FiniteSets, SequencesExt

CONSTANTS Feeds,          \* timed kinds, one per live feed, in fetch order
          Local,          \* kinds read from local files, in evaluation order
          Duration,       \* Duration[k]: intervals a breach of k must last
          Clients,        \* what the Redis client may return: "str" or "bytes"
          MaxTime,        \* bound on the clock
          MaxFaults,      \* bound on failed writes, publications and crashes
          None

Timed == ToSet(Feeds)
Kinds == Timed \cup ToSet(Local)
Levels == {"calm", "weak", "strong"}

ASSUME PollerAssumption ==
  /\ Feeds \in Seq(Timed) /\ Local \in Seq(ToSet(Local))
  /\ IsInjective(Feeds \o Local)
  /\ Duration \in [Timed -> Nat \ {0}]
  /\ Clients \subseteq {"str", "bytes"}
  /\ MaxTime \in Nat
  /\ MaxFaults \in Nat
  /\ None \notin Nat

VARIABLES client,   \* what Redis returns; main asks for "str", and
                    \* _update_duration reads "bytes"
          now,      \* the clock, in poll intervals
          sky,      \* sky[k]: the real condition
          due,      \* the loop is awake and has a cycle to run
          cache,    \* cache[k]: last reading of a feed, when it was cached, and
                    \* when it was measured (history: the cache does not say)
          timer,    \* timer[k]: when the breach timer was set, or None
          batch,    \* evaluations of this cycle still to be written
          unsent,   \* active rows whose id was never published
          faults,
          seen,     \* history: first evaluation of the present unbroken breach
          waiting   \* history: confident breaching polls in a row without firing

vars == <<client, now, sky, due, cache, timer, batch, unsent, faults, seen, waiting>>

Init ==
  /\ client \in Clients
  /\ now = 0
  /\ sky = [k \in Kinds |-> "calm"]
  /\ due = TRUE
  /\ cache = [k \in Timed |-> None]
  /\ timer = [k \in Timed |-> None]
  /\ batch = << >>
  /\ unsent = 0
  /\ faults = 0
  /\ seen = [k \in Kinds |-> None]
  /\ waiting = [k \in Kinds |-> 0]

-----------------------------------------------------------------------------
(* An interval passes and the weather changes; a local feed is on or off.   *)
(* A poller that is behind misses the interval's poll.                      *)
Tick ==
  /\ now < MaxTime
  /\ batch = << >>
  /\ now' = now + 1
  /\ sky' \in [Kinds -> Levels]
  /\ \A k \in ToSet(Local) : sky'[k] # "weak"
  /\ due' = TRUE
  /\ waiting' = IF due THEN [k \in Kinds |-> 0] ELSE waiting
  /\ UNCHANGED <<client, cache, timer, batch, unsent, faults, seen>>

-----------------------------------------------------------------------------
(* Readings. *)

(* A cached reading lives one interval: the next poll may still find it. *)
Cached(k) == cache[k] # None /\ now <= cache[k].at + 1

(* What the cycle reads: live where the feed answered, the cache elsewhere. *)
Reading(live, k) ==
  IF k \in Timed \ live THEN cache[k] ELSE [level |-> sky[k], at |-> now, made |-> now]

(* Faulty variant: a cached reading is written back with a new date. *)
CacheRefreshed(live) ==
  [k \in Timed |-> IF k \in live \/ cache[k] # None
                   THEN [Reading(live, k) EXCEPT !.at = now] ELSE cache[k]]

CacheAfter(live) == [k \in Timed |-> IF k \in live THEN Reading(live, k) ELSE cache[k]]

Running(k) == timer[k] # None /\ now < timer[k] + 3 * Duration[k]

(* _update_duration reads the timer with stored.decode(): on a str that     *)
(* raises, and the timer starts anew.                                       *)
Kept(k) == Running(k) /\ client = "bytes"

Elapsed(k) == IF Kept(k) THEN now - timer[k] ELSE 0

(* Faulty variant: a calm reading leaves the timer alone. *)
TimerSurvivesCalm(k, level) ==
  IF level = "calm" \/ Kept(k) THEN timer[k] ELSE now

TimerAfter(k, level) ==
  IF level = "calm" THEN None ELSE IF Kept(k) THEN timer[k] ELSE now

Fires(k, level) ==
  level = "strong" /\ (k \in Timed => Elapsed(k) >= Duration[k])

-----------------------------------------------------------------------------
(* The cycle. *)

(* Every feed answered or was cached: five evaluations, timers included.    *)
Evaluate(live) ==
  LET read(k)  == Reading(live, k)
      fires(k) == Fires(k, read(k).level)
      begun(k) == IF read(k).level = "calm" THEN None
                  ELSE IF seen[k] = None THEN now ELSE seen[k]
  IN  /\ timer' = [k \in Timed |-> TimerAfter(k, read(k).level)]
      /\ seen' = [k \in Kinds |-> begun(k)]
      /\ waiting' = [k \in Kinds |->
                       IF read(k).level # "strong" \/ fires(k) THEN 0 ELSE waiting[k] + 1]
      /\ batch' = [i \in DOMAIN (Feeds \o Local) |->
                     LET k == (Feeds \o Local)[i]
                     IN  [kind |-> k, active |-> fires(k), since |-> begun(k),
                          read |-> read(k).made, written |-> FALSE]]

(* One zone of run_poll_cycle.  The feeds are read in order; the first that *)
(* neither answers nor is cached raises and skips the whole zone.           *)
PollZone ==
  /\ due
  /\ due' = FALSE
  /\ \E n \in 0..Len(Feeds) :
       LET answered == {Feeds[i] : i \in 1..n} IN
       \E live \in SUBSET answered :
         /\ \A k \in answered \ live : Cached(k)
         /\ cache' = CacheAfter(live)
         /\ IF n = Len(Feeds)
              THEN Evaluate(live)
              ELSE UNCHANGED <<timer, batch, seen>> /\ waiting' = [k \in Kinds |-> 0]
  /\ UNCHANGED <<client, now, sky, unsent, faults>>

(* Faulty variant: every row is written before the first is published. *)
AllRowsFirst ==
  /\ batch # << >>
  /\ ~Head(batch).written
  /\ LET active == SelectSeq(batch, LAMBDA e : e.active) IN
       /\ batch' = [i \in DOMAIN active |-> [active[i] EXCEPT !.written = TRUE]]
       /\ unsent' = unsent + Len(active)
  /\ UNCHANGED <<client, now, sky, due, cache, timer, faults, seen, waiting>>

(* An evaluation that is not active is written and done with. *)
WriteEvaluation ==
  /\ batch # << >>
  /\ ~Head(batch).written
  /\ IF Head(batch).active
       THEN batch' = [batch EXCEPT ![1].written = TRUE] /\ unsent' = unsent + 1
       ELSE batch' = Tail(batch) /\ UNCHANGED unsent
  /\ UNCHANGED <<client, now, sky, due, cache, timer, faults, seen, waiting>>

Publish ==
  /\ batch # << >>
  /\ Head(batch).written
  /\ batch' = Tail(batch)
  /\ unsent' = unsent - 1
  /\ UNCHANGED <<client, now, sky, due, cache, timer, faults, seen, waiting>>

(* A write or a publication raises: the rest of the zone is skipped. *)
ZoneFails ==
  /\ batch # << >>
  /\ faults < MaxFaults
  /\ faults' = faults + 1
  /\ batch' = << >>
  /\ UNCHANGED <<client, now, sky, due, cache, timer, unsent, seen, waiting>>

(* The container is restarted and polls at once. *)
Restart ==
  /\ faults < MaxFaults
  /\ faults' = faults + 1
  /\ due' = TRUE
  /\ batch' = << >>
  /\ UNCHANGED <<client, now, sky, cache, timer, unsent, seen, waiting>>

Next == Tick \/ PollZone \/ WriteEvaluation \/ Publish \/ ZoneFails \/ Restart

Spec == Init /\ [][Next]_vars
-----------------------------------------------------------------------------
(* Properties. *)

ReadingType == [level : Levels, at : Nat, made : Nat]
EvaluationType ==
  [kind : Kinds, active : BOOLEAN, since : Nat \cup {None}, read : Nat, written : BOOLEAN]

TypeOK ==
  /\ client \in Clients
  /\ now \in 0..MaxTime
  /\ sky \in [Kinds -> Levels]
  /\ due \in BOOLEAN
  /\ cache \in [Timed -> ReadingType \cup {None}]
  /\ timer \in [Timed -> Nat \cup {None}]
  /\ batch \in Seq(EvaluationType)
  /\ unsent \in Nat
  /\ faults \in 0..MaxFaults
  /\ seen \in [Kinds -> Nat \cup {None}]
  /\ waiting \in [Kinds -> Nat]

(* A timed trigger fires only when every evaluation of the last Duration    *)
(* intervals saw a breach, whatever polls were missed, zones skipped,       *)
(* readings cached and timers expired meanwhile.                            *)
FiresAfterSustainedBreach ==
  \A i \in DOMAIN batch :
    LET e == batch[i] IN
      e.active /\ e.kind \in Timed => e.since # None /\ e.since + Duration[e.kind] <= now

(* A reading that fires was measured at most one interval ago: the cache    *)
(* never keeps a trigger alive after its weather has passed.                *)
FiresOnRecentReading ==
  \A i \in DOMAIN batch : batch[i].active => now <= batch[i].read + 1

(* A breach that poll after poll reads with confidence fires: after at most *)
(* Duration polls from its start, and again within Duration polls when the  *)
(* timer has expired (three times Duration after it was set).               *)
SustainedBreachFires ==
  \A k \in Kinds : waiting[k] <= (IF k \in Timed THEN Duration[k] ELSE 0) + faults

(* Every active row is published, except one for each failure.              *)
UnsentAccounted ==
  unsent <= faults + (IF batch # << >> /\ Head(batch).written THEN 1 ELSE 0)
=============================================================================
