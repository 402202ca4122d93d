-------------------------- MODULE TriggerEvaluator --------------------------
(***************************************************************************)
(* TriggerEvaluator of services/trigger, for one zone: a job polls two     *)
(* adapters, keeps the recent conditions in memory, and records and        *)
(* announces the events that last long enough.  Zones share the job only:  *)
(* an exception in an earlier zone ends the poll, which this zone misses.  *)
(*                                                                         *)
(* Time counts ticks, PollEvery of them to a poll.  A reading is the set   *)
(* of conditions it exceeds and the time it was made.  Heat, which has no  *)
(* duration, counts as exceeded in its hours only.                         *)
(***************************************************************************)
EXTENDS Naturals, Sequences, FiniteSets

CONSTANTS Adapters,     \* weather and air quality
          Conditions,   \* kinds of trigger that are read from an adapter
          Order,        \* Order[k]: when a poll checks kind k
          Lasting,      \* Lasting[k]: polls a condition must last
          Measures,     \* Measures[a]: conditions the real provider of adapter a reports
          Deployments,  \* the choices of a provider or a mock for each adapter
          Restriction,  \* the kind an administrator switches on
          PollEvery,    \* ticks from one poll to the next; also the life of a cached reading
          Grace,        \* ticks a poll may start late; one later than that is skipped
          StaleAge,     \* ticks after which a reading is stale
          ActiveWindow, \* ticks an ended event is still found as active
          DedupWindow,  \* ticks an ended event suppresses an identical one
          MaxClock,     \* bound on the clock
          MaxEnds,      \* bound on events ended by the repository
          MaxMishaps,   \* bound on failed polls and restarts
          Nothing       \* no reading, not ended

EventKinds == Conditions \cup {Restriction}
Messages == {"detected", "confirmed"}

ASSUME EvaluatorAssumption ==
    /\ Restriction \notin Conditions
    /\ Order \in [EventKinds -> Nat]
    /\ \A k, l \in EventKinds : Order[k] = Order[l] => k = l
    /\ Lasting \in [Conditions -> Nat]
    /\ Deployments \subseteq SUBSET Adapters
    /\ Measures \in [Adapters -> SUBSET Conditions]
    /\ PollEvery \in Nat \ {0} /\ Grace \in 0..(PollEvery - 1)
    /\ ActiveWindow \in Nat /\ ActiveWindow >= PollEvery
    /\ {StaleAge, DedupWindow, MaxClock, MaxEnds, MaxMishaps} \subseteq Nat
    /\ Nothing \notin Nat

VARIABLES clock,
          job,        \* the next poll that was not run or skipped; due at job * PollEvery
          live,       \* adapters with a real provider and a cache; the others are mocks
          cached,     \* cached[a]: the last reading of a live adapter
          history,    \* history[k]: when the recent polls ran and whether they saw k
          restricted, \* the administrator's switch
          checks,     \* confident checks of this poll, and what is next for each
          events,     \* the rows of the repository, oldest first
          mishaps,
          since,      \* history: first poll of the present unbroken condition
          lacking     \* history: fresh polls in a row that saw it without triggering

evalVars == <<clock, job, live, cached, history, restricted, checks, events, mishaps, since, lacking>>

EvalInit ==
    /\ clock = 0
    /\ job = 0
    /\ live \in Deployments
    /\ cached = [a \in Adapters |-> Nothing]
    /\ history = [k \in Conditions |-> {}]
    /\ restricted = FALSE
    /\ checks = {}
    /\ events = << >>
    /\ mishaps = 0
    /\ since = [k \in Conditions |-> Nothing]
    /\ lacking = [k \in Conditions |-> 0]

-----------------------------------------------------------------------------
(* Time passes; a poll that could not start in time is skipped. *)
PassTime ==
    /\ clock < MaxClock
    /\ checks = {}
    /\ clock' = clock + 1
    /\ IF clock' > job * PollEvery + Grace
         THEN job' = job + 1 /\ lacking' = [k \in Conditions |-> 0]
         ELSE UNCHANGED <<job, lacking>>
    /\ cached' = [a \in Adapters |-> IF cached[a] # Nothing /\ clock' <= cached[a].made + PollEvery
                                     THEN cached[a] ELSE Nothing]
    /\ UNCHANGED <<live, history, restricted, checks, events, mishaps, since>>

(* The switch is read when a poll checks its conditions: what counts is the  *)
(* last call before one.                                                      *)
SetRestriction ==
    /\ checks = {} /\ clock >= job * PollEvery
    /\ restricted' = ~restricted
    /\ UNCHANGED <<clock, job, live, cached, history, checks, events, mishaps, since, lacking>>

-----------------------------------------------------------------------------
(* What an adapter may answer: a mock a scenario, made now; a real provider  *)
(* its cached reading while that lives, else a new one or none.  At the       *)
(* moment the cache expires either is possible.                              *)
Mocked == {[over |-> s, made |-> clock] : s \in SUBSET Conditions}
Provided(a) == {[over |-> s, made |-> clock] : s \in SUBSET Measures[a]} \cup {Nothing}
Expired(a) == cached[a] = Nothing \/ clock >= cached[a].made + PollEvery
Answers(a) ==
    IF a \notin live THEN Mocked
    ELSE ({cached[a]} \ {Nothing}) \cup (IF Expired(a) THEN Provided(a) ELSE {})

(* Adapters that report k, and those of them whose reading is stale. *)
Confirming(reading, k) == {a \in Adapters : reading[a] # Nothing /\ k \in reading[a].over}
Stale(reading, sources) == {a \in sources : clock > reading[a].made + StaleAge}

(* The confidence in percent: two sources, one, none; less when one is stale. *)
Confident(sources, stale) ==
    LET score == IF Cardinality(sources) >= 2 THEN 95 ELSE IF sources # {} THEN 70 ELSE 0
    IN  IF stale # {} /\ score > 50 THEN 50 ELSE score

(* The points kept in memory: as long as the condition must last and one    *)
(* poll more.                                                               *)
\* Faulty variant: no poll more.
PointsExact(k, points) == {p \in points : p.at + Lasting[k] * PollEvery >= clock}

Points(k, points) == {p \in points : p.at + (Lasting[k] + 1) * PollEvery >= clock}

(* From p on every point saw the condition. *)
Trails(p, points) == \A q \in points : q.at >= p.at => q.met

\* Faulty variant: the first point of all counts, whatever came after it.
SustainedFromFirst(k, points) ==
    /\ \E p \in points : p.at = clock /\ p.met
    /\ \E p \in points : p.at + Lasting[k] * PollEvery <= clock

Sustained(k, points) ==
    \E p \in points : Trails(p, points) /\ p.at + Lasting[k] * PollEvery <= clock

(* A snapshot holds the dates of its readings, and these leave the cache     *)
(* before an event leaves the active window: a later one is identical only    *)
(* when no adapter answered at either time.                                   *)
Blank(reading) == \A a \in Adapters : reading[a] = Nothing
Check(k, confidence, reading) ==
    [kind |-> k, confidence |-> confidence, blank |-> Blank(reading), next |-> "find", event |-> 0]

(* The switch counts as one source that is never stale. *)
RestrictionCheck(reading) ==
    IF restricted THEN {Check(Restriction, Confident({"manual"}, {}), reading)} ELSE {}

(* One zone of poll_once, up to its first call of the repository. *)
Poll ==
    /\ checks = {}
    /\ clock >= job * PollEvery
    /\ job' = job + 1
    /\ \E reading \in [Adapters -> UNION {Answers(a) : a \in Adapters}] :
         /\ \A a \in Adapters : reading[a] \in Answers(a)
         /\ cached' = [a \in Adapters |-> IF a \in live /\ reading[a] # Nothing
                                          THEN reading[a] ELSE cached[a]]
         /\ LET met(k)    == Confirming(reading, k) # {}
                kept(k)   == Points(k, history[k] \cup {[at |-> clock, met |-> met(k)]})
                trust(k)  == Confident(Confirming(reading, k), Stale(reading, Confirming(reading, k)))
                fires(k)  == Sustained(k, kept(k)) /\ trust(k) >= 70
            IN  /\ history' = [k \in Conditions |-> kept(k)]
                /\ checks' = {Check(k, trust(k), reading) : k \in {x \in Conditions : fires(x)}}
                             \cup RestrictionCheck(reading)
                /\ since' = [k \in Conditions |-> IF ~met(k) THEN Nothing
                                            ELSE IF since[k] = Nothing THEN clock ELSE since[k]]
                /\ lacking' = [k \in Conditions |-> IF fires(k) \/ trust(k) < 70 THEN 0 ELSE lacking[k] + 1]
    /\ UNCHANGED <<clock, live, restricted, events, mishaps>>

-----------------------------------------------------------------------------
(* _upsert_trigger for the first check: the event found as active is the     *)
(* last that is open, or ended within the window.                            *)
First(c) == \A d \in checks : Order[c.kind] <= Order[d.kind]

ActiveAt(k) ==
    {i \in DOMAIN events : /\ events[i].kind = k
                           /\ events[i].ended = Nothing \/ events[i].ended + ActiveWindow >= clock}
Duplicated(c) ==
    \E i \in DOMAIN events :
       /\ events[i].kind = c.kind /\ events[i].blank /\ c.blank
       /\ events[i].ended # Nothing /\ events[i].ended + DedupWindow >= clock

(* What c found, or what it inserted. *)
Found(c) ==
    IF c.next = "find" THEN {i \in ActiveAt(c.kind) : \A j \in ActiveAt(c.kind) : j <= i}
    ELSE {c.event}

Turns(c, what, i) == checks' = (checks \ {c}) \cup {[c EXCEPT !.next = what, !.event = i]}

\* Faulty variant: the event is not announced.
InsertSilently(c) ==
    /\ c.next = "find" /\ ActiveAt(c.kind) = {} /\ ~Duplicated(c)
    /\ events' = Append(events, [kind |-> c.kind, ended |-> Nothing, confirmed |-> FALSE,
                                 blank |-> c.blank, told |-> {}])
    /\ Turns(c, "confirm", Len(events) + 1)
    /\ UNCHANGED <<clock, job, live, cached, history, restricted, mishaps, since, lacking>>

Insert(c) ==
    /\ c.next = "find" /\ ActiveAt(c.kind) = {} /\ ~Duplicated(c)
    /\ events' = Append(events, [kind |-> c.kind, ended |-> Nothing, confirmed |-> FALSE,
                                 blank |-> c.blank, told |-> {}])
    /\ Turns(c, "detected", Len(events) + 1)
    /\ UNCHANGED <<clock, job, live, cached, history, restricted, mishaps, since, lacking>>

(* Nothing to insert and nothing to confirm. *)
Leave(c) ==
    /\ c.next \in {"find", "confirm"}
    /\ IF Found(c) = {} THEN Duplicated(c)
       ELSE c.confidence < 90 \/ \A i \in Found(c) : events[i].confirmed
    /\ checks' = checks \ {c}
    /\ UNCHANGED <<clock, job, live, cached, history, restricted, events, mishaps, since, lacking>>

Confirm(c) ==
    /\ c.next \in {"find", "confirm"} /\ c.confidence >= 90
    /\ \E i \in Found(c) :
         /\ ~events[i].confirmed
         /\ events' = [events EXCEPT ![i].confirmed = TRUE, ![i].blank = c.blank]
         /\ Turns(c, "confirmed", i)
    /\ UNCHANGED <<clock, job, live, cached, history, restricted, mishaps, since, lacking>>

(* After "trigger.detected" the same event may be confirmed;                  *)
(* "trigger.confirmed" ends the check.                                       *)
Announce(c) ==
    /\ c.next \in Messages
    /\ events' = [events EXCEPT ![c.event].told = @ \cup {c.next}]
    /\ IF c.next = "detected" THEN Turns(c, "confirm", c.event) ELSE checks' = checks \ {c}
    /\ UNCHANGED <<clock, job, live, cached, history, restricted, mishaps, since, lacking>>

(* The repository or the queue raises: the rest of the poll is lost. *)
PollFails ==
    /\ checks # {}
    /\ mishaps < MaxMishaps
    /\ mishaps' = mishaps + 1
    /\ checks' = {}
    /\ UNCHANGED <<clock, job, live, cached, history, restricted, events, since, lacking>>

(* The process starts again: conditions and switch were in its memory.  The  *)
(* job's first poll is one interval away.                                    *)
EvaluatorRestarts ==
    /\ mishaps < MaxMishaps
    /\ mishaps' = mishaps + 1
    /\ job' = clock \div PollEvery + 1
    /\ history' = [k \in Conditions |-> {}]
    /\ restricted' = FALSE
    /\ checks' = {}
    /\ since' = [k \in Conditions |-> Nothing]
    /\ lacking' = [k \in Conditions |-> 0]
    /\ UNCHANGED <<clock, live, cached, events>>

(* Whoever owns the rows ends an event; nothing in the service does. *)
EndEvent ==
    /\ Cardinality({i \in DOMAIN events : events[i].ended # Nothing}) < MaxEnds
    /\ \E i \in DOMAIN events :
         /\ events[i].ended = Nothing
         /\ events' = [events EXCEPT ![i].ended = clock]
    /\ UNCHANGED <<clock, job, live, cached, history, restricted, checks, mishaps, since, lacking>>

EvalNext ==
    \/ PassTime \/ SetRestriction \/ Poll
    \/ \E c \in checks : First(c) /\ (Insert(c) \/ Leave(c) \/ Confirm(c) \/ Announce(c))
    \/ PollFails
    \/ EvaluatorRestarts \/ EndEvent

EvalSpec == EvalInit /\ [][EvalNext]_evalVars
-----------------------------------------------------------------------------
(* An event is about to be recorded only if every poll of the time it must   *)
(* last saw its condition, with points dropped from memory, polls skipped,   *)
(* feeds down and the process restarted in between.                          *)
DetectionSustained ==
    \A c \in checks : c.kind \in Conditions =>
       since[c.kind] # Nothing /\ since[c.kind] + Lasting[c.kind] * PollEvery <= clock

(* A condition that poll after poll sees with confidence triggers when it has *)
(* lasted.  Memory ends one poll after that, so polls that start later or     *)
(* earlier than the two they are compared with put it off, but only while     *)
(* each finds a lateness between theirs: at most for as long again.           *)
SustainedDetected ==
    \A k \in Conditions :
       /\ lacking[k] <= 2 * Lasting[k]
       /\ lacking[k] <= Lasting[k] + (Grace + 1) \div 2

(* Messages that rows call for and nobody has sent. *)
Owed ==
    {im \in (DOMAIN events) \X Messages :
       im[2] \notin events[im[1]].told /\ (im[2] = "confirmed" => events[im[1]].confirmed)}

(* Every row is announced as detected, and as confirmed when it is, except     *)
(* for one message for each poll that failed or process that died; at most one *)
(* row of a kind is open, so a disruption is announced once however often it   *)
(* is polled.                                                                  *)
EventsAnnounced ==
    /\ Cardinality(Owed) <= mishaps + (IF \E c \in checks : c.next \in Messages THEN 1 ELSE 0)
    /\ \A i, j \in DOMAIN events :
         events[i].kind = events[j].kind /\ events[i].ended = Nothing /\ events[j].ended = Nothing
           => i = j
=============================================================================
