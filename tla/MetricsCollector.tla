-------------------------- MODULE MetricsCollector --------------------------
(***************************************************************************)
(* The Prometheus adapter (metrics.rs) under the tasks that share it:      *)
(*                                                                         *)
(*   - the watch loop, the only caller of record_oom_event;                *)
(*   - the series sweeper of main.rs, which calls evict_stale;             *)
(*   - the pod cache's watch, whose callback is note_pod_deleted;          *)
(*   - the HTTP server, which renders the registry for a scrape.           *)
(*                                                                         *)
(* The tasks run on several threads.  A metric family has a lock of its    *)
(* own around each with_label_values and remove_label_values, last_seen    *)
(* and deleted_after have one mutex each, and record_oom_event takes       *)
(* last_seen's only for its last statement; evict_stale keeps it from the  *)
(* scan to the end of the removals.  The routines are cut into steps at    *)
(* exactly those points.  A handle returned by with_label_values outlives  *)
(* the removal of its series: updating it then changes nothing a scrape    *)
(* can see.  Only the watch loop creates series, so a handle it holds is   *)
(* detached if and only if the series is absent.                           *)
(*                                                                         *)
(* The node label is the same on every series and is left out.  A          *)
(* container id stands for the pair (container_id, image_id).              *)
(***************************************************************************)
EXTENDS Naturals, FiniteSets

CONSTANTS
  Pods,            \* (namespace, pod) names
  Containers,      \* container names
  Restarts,        \* restarts of a container within one pod object
  MaxUid,          \* bound: pod objects created under one name
  Unknown,         \* the "unknown" label of an unresolved event
  MemoryTypeCount, \* the length of MEMORY_TYPES
  Figures,         \* memory figures of an event, in kilobytes
  None,            \* no such series, no such entry
  TTL,             \* SERIES_TTL_SECONDS
  Grace,           \* DELETED_POD_GRACE_SECONDS
  ScrapeInterval,  \* longest time between two scrapes
  RecordBudget,    \* longest time from an event's timestamp to its last_seen
  MaxEvents,       \* bound: events in one behaviour
  MaxEventTime,    \* bound: no kill and no pod deletion after this time
  MaxTime,         \* bound: the clock stops here
  Setback,         \* by how much the clock is set back, when it is
  MaxSetbacks      \* bound: how often it is

(* main.rs clamps the TTL to a second; README.md and metrics.rs ask for    *)
(* both delays to exceed the scrape interval, which with an event in       *)
(* flight means by more than the time its recording takes.                 *)
ASSUME TimeAssumption ==
  /\ TTL \in Nat \ {0} /\ Grace \in Nat
  /\ ScrapeInterval \in Nat \ {0} /\ RecordBudget \in Nat
  /\ MaxEventTime \in Nat /\ MaxTime \in Nat
  /\ Setback \in Nat /\ MaxSetbacks \in Nat
  /\ ScrapeInterval + RecordBudget < TTL
  /\ ScrapeInterval + RecordBudget < Grace
ASSUME LabelAssumption ==
  /\ Unknown \notin Pods
  /\ None \notin Nat
  /\ Figures \subseteq Nat
  /\ MemoryTypeCount \in Nat \ {0}
  /\ MaxUid \in Nat \ {0} /\ MaxEvents \in Nat

VARIABLES
  clock,         \* wall-clock seconds
  uid,           \* per pod name, how many pod objects have had it
  alive,         \* pod names with an object, as the pod cache sees them
  reporting,     \* deletions applied to the cache, callback still to run
  kills,         \* oom_kills_total
  killsPerNode,  \* oom_kills_per_node_total
  memory,        \* oom_memory_usage_bytes
  lastTimestamp, \* oom_last_timestamp
  evictedTotal,  \* oom_series_evicted_total
  lastSeen,      \* last_seen
  deletedAfter,  \* deleted_after
  rec,           \* the call of record_oom_event in progress
  sweep,         \* the call of evict_stale in progress
  setbacks,      \* counts towards MaxSetbacks
  sinceScrape,   \* time since the last scrape
  unexposed,     \* label sets with an increment no scrape has shown
  overlapped,    \* label sets a sweep was removing while they were recorded
  bereft         \* label sets whose memory series, just written, went with a sibling

clockVars    == <<clock, setbacks>>
podVars      == <<uid, alive, reporting>>
registryVars == <<kills, killsPerNode, memory, lastTimestamp, evictedTotal>>
bookVars     == <<lastSeen, deletedAfter>>
scrapeVars   == <<sinceScrape, unexposed>>
damageVars   == <<overlapped, bereft>>
vars == <<clock, uid, alive, reporting, kills, killsPerNode, memory,
          lastTimestamp, evictedTotal, lastSeen, deletedAfter, rec, sweep,
          setbacks, sinceScrape, unexposed, overlapped, bereft>>

-----------------------------------------------------------------------------
(* Labels. *)

ContainerIds == (1..MaxUid) \X Restarts
ResolvedKey  == [pod: Pods, container: Containers, container_id: ContainerIds]
UnknownKey   == [pod |-> Unknown, container |-> Unknown, container_id |-> Unknown]
SeriesKey    == ResolvedKey \cup {UnknownKey}

MemoryLabels(key) == <<key.pod, key.container>>
MemorySeries == {MemoryLabels(key) : key \in SeriesKey}
SharesMemorySeriesWith(key, other) == MemoryLabels(key) = MemoryLabels(other)

MemoryTypes == 1..MemoryTypeCount
MemoryValues == [MemoryTypes -> Figures]

(* Kernel figures are kilobytes; the gauge is bytes. *)
Bytes(kilobytes) == kilobytes * 1024

(* Mutant of SaturatingSub: a plain subtraction wraps below zero, and the  *)
(* wrapped difference exceeds any TTL.                                     *)
WrappingSub(a, b) == IF a >= b THEN a - b ELSE TTL + a

(* An age is zero, never negative, for a timestamp ahead of the sweep's. *)
SaturatingSub(a, b) == IF a >= b THEN a - b ELSE 0

(* with_label_values: the series is created, at zero, if it is not there. *)
GetOrCreate(value) == IF value = None THEN 0 ELSE value

-----------------------------------------------------------------------------
(* The locals of a record_oom_event and of an evict_stale in progress. *)
RecordCall ==
  [at: {"idle", "counter", "inc", "gauge", "peak", "stamp", "set", "touch"},
   key: SeriesKey, timestamp: Nat, kb: [MemoryTypes -> Nat],
   type: MemoryTypes, overlap: BOOLEAN, bereft: BOOLEAN]
SweepCall ==
  [at: {"idle", "scan", "kills", "timestamp", "memory", "count"}, now: Nat,
   due: SUBSET Pods, stale: SUBSET SeriesKey, key: SeriesKey,
   orphaned: BOOLEAN, type: MemoryTypes]

NoRecord == [at |-> "idle", key |-> UnknownKey, timestamp |-> 0,
             kb |-> [t \in MemoryTypes |-> 0], type |-> 1,
             overlap |-> FALSE, bereft |-> FALSE]
NoSweep  == [at |-> "idle", now |-> 0, due |-> {}, stale |-> {}, key |-> UnknownKey,
             orphaned |-> FALSE, type |-> 1]

Init ==
  /\ clock = 0
  /\ uid = [p \in Pods |-> 1] /\ alive = Pods /\ reporting = {}
  /\ kills = [k \in SeriesKey |-> None]
  /\ killsPerNode = 0
  /\ memory = [m \in MemorySeries |-> [t \in MemoryTypes |-> None]]
  /\ lastTimestamp = [k \in SeriesKey |-> None]
  /\ evictedTotal = 0
  /\ lastSeen = [k \in SeriesKey |-> None]
  /\ deletedAfter = [p \in Pods |-> None]
  /\ rec = NoRecord /\ sweep = NoSweep
  /\ setbacks = 0 /\ sinceScrape = 0 /\ unexposed = {}
  /\ overlapped = {} /\ bereft = {}

Recording == rec.at # "idle"

(* Mutant of LastSeenLocked: the guard is dropped before the removals. *)
LastSeenReleasedEarly == FALSE

(* evict_stale holds last_seen's mutex. *)
LastSeenLocked == sweep.at \in {"kills", "timestamp", "memory", "count"}

Tracked == {k \in SeriesKey : lastSeen[k] # None}

-----------------------------------------------------------------------------
(* The watch loop: process_event up to and including record_oom_event. *)

(* The labels a kill can resolve to now: a container of a pod the cache    *)
(* holds, or none.                                                         *)
Resolvable ==
  {k \in ResolvedKey : k.pod \in alive /\ k.container_id[1] = uid[k.pod]}
    \cup {UnknownKey}

(* now() is read, then the PID is resolved. *)
BeginEvent ==
  /\ ~Recording
  /\ killsPerNode < MaxEvents
  /\ clock <= MaxEventTime
  /\ \E key \in Resolvable, kb \in MemoryValues :
       rec' = [at |-> "counter", key |-> key, timestamp |-> clock, kb |-> kb,
               type |-> 1, overlap |-> key \in sweep.stale, bereft |-> FALSE]
  /\ UNCHANGED <<clockVars, podVars, registryVars, bookVars, sweep, scrapeVars, damageVars>>

KillsHandle ==
  /\ rec.at = "counter"
  /\ kills' = [kills EXCEPT ![rec.key] = GetOrCreate(@)]
  /\ rec' = [rec EXCEPT !.at = "inc"]
  /\ UNCHANGED <<clockVars, podVars, killsPerNode, memory, lastTimestamp, evictedTotal,
                 bookVars, sweep, scrapeVars, damageVars>>

(* The increments of oom_kills_total and, on a series nothing removes, of  *)
(* oom_kills_per_node_total.                                               *)
KillsInc ==
  /\ rec.at = "inc"
  /\ kills' = [kills EXCEPT ![rec.key] = IF @ = None THEN None ELSE @ + 1]
  /\ killsPerNode' = killsPerNode + 1
  /\ rec' = [rec EXCEPT !.at = "gauge"]
  /\ UNCHANGED <<clockVars, podVars, memory, lastTimestamp, evictedTotal,
                 bookVars, sweep, scrapeVars, damageVars>>

GaugeHandle ==
  /\ rec.at = "gauge"
  /\ memory' = [memory EXCEPT ![MemoryLabels(rec.key)][rec.type] = GetOrCreate(@)]
  /\ rec' = [rec EXCEPT !.at = "peak"]
  /\ UNCHANGED <<clockVars, podVars, kills, killsPerNode, lastTimestamp, evictedTotal,
                 bookVars, sweep, scrapeVars, damageVars>>

(* Mutant of GaugePeak: the latest figure is set, not the peak. *)
GaugeLatest ==
  /\ rec.at = "peak"
  /\ LET bytes == Bytes(rec.kb[rec.type])
     IN  memory' = [memory EXCEPT ![MemoryLabels(rec.key)][rec.type] =
                      IF @ # None THEN bytes ELSE @]
  /\ rec' = IF rec.type < MemoryTypeCount
              THEN [rec EXCEPT !.at = "gauge", !.type = rec.type + 1]
              ELSE [rec EXCEPT !.at = "stamp"]
  /\ UNCHANGED <<clockVars, podVars, kills, killsPerNode, lastTimestamp, evictedTotal,
                 bookVars, sweep, scrapeVars, damageVars>>

(* The peak of one memory type, then the next type or the timestamp. *)
GaugePeak ==
  /\ rec.at = "peak"
  /\ LET bytes == Bytes(rec.kb[rec.type])
     IN  memory' = [memory EXCEPT ![MemoryLabels(rec.key)][rec.type] =
                      IF @ # None /\ bytes > @ THEN bytes ELSE @]
  /\ rec' = IF rec.type < MemoryTypeCount
              THEN [rec EXCEPT !.at = "gauge", !.type = rec.type + 1]
              ELSE [rec EXCEPT !.at = "stamp"]
  /\ UNCHANGED <<clockVars, podVars, kills, killsPerNode, lastTimestamp, evictedTotal,
                 bookVars, sweep, scrapeVars, damageVars>>

TimestampHandle ==
  /\ rec.at = "stamp"
  /\ lastTimestamp' = [lastTimestamp EXCEPT ![rec.key] = GetOrCreate(@)]
  /\ rec' = [rec EXCEPT !.at = "set"]
  /\ UNCHANGED <<clockVars, podVars, kills, killsPerNode, memory, evictedTotal,
                 bookVars, sweep, scrapeVars, damageVars>>

TimestampSet ==
  /\ rec.at = "set"
  /\ lastTimestamp' = [lastTimestamp EXCEPT ![rec.key] =
                         IF @ = None THEN None ELSE rec.timestamp]
  /\ rec' = [rec EXCEPT !.at = "touch"]
  /\ UNCHANGED <<clockVars, podVars, kills, killsPerNode, memory, evictedTotal,
                 bookVars, sweep, scrapeVars, damageVars>>

(* Touched last, under the mutex. *)
TouchLastSeen ==
  /\ rec.at = "touch"
  /\ ~LastSeenLocked
  /\ lastSeen' = [lastSeen EXCEPT ![rec.key] = rec.timestamp]
  /\ unexposed' = unexposed \cup {rec.key}
  /\ overlapped' = IF rec.overlap THEN overlapped \cup {rec.key}
                                  ELSE overlapped \ {rec.key}
  /\ bereft' = IF rec.bereft THEN bereft \cup {rec.key} ELSE bereft \ {rec.key}
  /\ rec' = NoRecord
  /\ UNCHANGED <<clockVars, podVars, registryVars, deletedAfter, sweep, sinceScrape>>

-----------------------------------------------------------------------------
(* The sweeper: evict_stale. *)

(* Mutant of DrainDue: only the entries of pods with a series are drained. *)
DrainDueOfTracked ==
  /\ sweep.at = "idle"
  /\ LET due == {p \in Pods : /\ deletedAfter[p] # None /\ ~(clock < deletedAfter[p])
                              /\ \E k \in Tracked : k.pod = p}
     IN  /\ deletedAfter' = [p \in Pods |-> IF p \in due THEN None ELSE deletedAfter[p]]
         /\ sweep' = [NoSweep EXCEPT !.at = "scan", !.now = clock, !.due = due]
  /\ UNCHANGED <<clockVars, podVars, registryVars, lastSeen, rec, scrapeVars, damageVars>>

(* wall_clock_secs(), then every due entry of deleted_after is taken out. *)
DrainDue ==
  /\ sweep.at = "idle"
  /\ LET due == {p \in Pods : deletedAfter[p] # None /\ ~(clock < deletedAfter[p])}
     IN  /\ deletedAfter' = [p \in Pods |-> IF p \in due THEN None ELSE deletedAfter[p]]
         /\ sweep' = [NoSweep EXCEPT !.at = "scan", !.now = clock, !.due = due]
  /\ UNCHANGED <<clockVars, podVars, registryVars, lastSeen, rec, scrapeVars, damageVars>>

AgedOut(key)  == SaturatingSub(sweep.now, lastSeen[key]) >= TTL
PodGone(key)  == key.pod \in sweep.due
StaleKeys     == {k \in Tracked : AgedOut(k) \/ PodGone(k)}

(* Mutant of ScanStale: retain keeps the keys it has put on the list. *)
ScanStaleKeepingEntries ==
  /\ sweep.at = "scan"
  /\ lastSeen' = lastSeen
  /\ sweep' = IF StaleKeys = {}
                THEN NoSweep
                ELSE [NoSweep EXCEPT !.at = "kills", !.stale = StaleKeys]
  /\ rec' = [rec EXCEPT !.overlap = @ \/ (Recording /\ rec.key \in StaleKeys)]
  /\ overlapped' = overlapped \ StaleKeys /\ bereft' = bereft \ StaleKeys
  /\ UNCHANGED <<clockVars, podVars, registryVars, deletedAfter, scrapeVars>>

(* The mutex is taken and last_seen.retain runs. *)
ScanStale ==
  /\ sweep.at = "scan"
  /\ lastSeen' = [k \in SeriesKey |-> IF k \in StaleKeys THEN None ELSE lastSeen[k]]
  /\ sweep' = IF StaleKeys = {}
                THEN NoSweep
                ELSE [NoSweep EXCEPT !.at = "kills", !.stale = StaleKeys]
  /\ rec' = [rec EXCEPT !.overlap = @ \/ (Recording /\ rec.key \in StaleKeys)]
  /\ overlapped' = overlapped \ StaleKeys /\ bereft' = bereft \ StaleKeys
  /\ UNCHANGED <<clockVars, podVars, registryVars, deletedAfter, scrapeVars>>

(* The shared memory series goes only with the last key that names it. *)
MemorySeriesOrphaned(key) ==
  ~ \E live \in Tracked : SharesMemorySeriesWith(live, key)

(* remove_series for one stale key: its parts, and before them the gate    *)
(* evict_stale hands it.                                                   *)
RemoveKills ==
  /\ sweep.at = "kills"
  /\ \E key \in sweep.stale :
       /\ kills' = [kills EXCEPT ![key] = None]
       /\ sweep' = [sweep EXCEPT !.at = "timestamp", !.key = key,
                                 !.orphaned = MemorySeriesOrphaned(key)]
  /\ UNCHANGED <<clockVars, podVars, killsPerNode, memory, lastTimestamp, evictedTotal,
                 bookVars, rec, scrapeVars, damageVars>>

(* From the timestamp to the loop over MEMORY_TYPES, or past it. *)
AfterTimestamp ==
  [sweep EXCEPT !.at = IF sweep.orphaned THEN "memory" ELSE "count", !.type = 1]

(* Mutant of RemoveTimestamp: oom_last_timestamp is forgotten. *)
RemoveTimestampForgotten ==
  /\ sweep.at = "timestamp"
  /\ sweep' = AfterTimestamp
  /\ UNCHANGED <<clockVars, podVars, kills, killsPerNode, memory, lastTimestamp, evictedTotal,
                 bookVars, rec, scrapeVars, damageVars>>

RemoveTimestamp ==
  /\ sweep.at = "timestamp"
  /\ lastTimestamp' = [lastTimestamp EXCEPT ![sweep.key] = None]
  /\ sweep' = AfterTimestamp
  /\ UNCHANGED <<clockVars, podVars, kills, killsPerNode, memory, evictedTotal,
                 bookVars, rec, scrapeVars, damageVars>>

(* The event being recorded has its series of memory type t. *)
GaugeMade(t) ==
  \/ rec.at \in {"stamp", "set", "touch"}
  \/ rec.at \in {"gauge", "peak"} /\ t < rec.type
  \/ rec.at = "peak" /\ t = rec.type

(* One memory type, then the next or the count.  A restart whose event is  *)
(* being recorded and has written that type is left without it.            *)
RemoveMemory ==
  /\ sweep.at = "memory"
  /\ memory' = [memory EXCEPT ![MemoryLabels(sweep.key)][sweep.type] = None]
  /\ rec' = [rec EXCEPT !.bereft =
               @ \/ (GaugeMade(sweep.type) /\ SharesMemorySeriesWith(rec.key, sweep.key))]
  /\ sweep' = IF sweep.type < MemoryTypeCount
                THEN [sweep EXCEPT !.type = @ + 1]
                ELSE [sweep EXCEPT !.at = "count"]
  /\ UNCHANGED <<clockVars, podVars, kills, killsPerNode, lastTimestamp, evictedTotal,
                 bookVars, scrapeVars, damageVars>>

(* The eviction is counted, and the next stale key is taken. *)
CountEviction ==
  /\ sweep.at = "count"
  /\ evictedTotal' = evictedTotal + 1
  /\ sweep' = IF sweep.stale = {sweep.key}
                THEN NoSweep
                ELSE [NoSweep EXCEPT !.at = "kills", !.stale = sweep.stale \ {sweep.key}]
  /\ UNCHANGED <<clockVars, podVars, kills, killsPerNode, memory, lastTimestamp,
                 bookVars, rec, scrapeVars, damageVars>>

-----------------------------------------------------------------------------
(* Pods, as the pod cache's task sees them. *)

(* A Delete arrives; the reflector takes the pod out of the store first. *)
PodDeleted(p) ==
  /\ reporting = {}
  /\ p \in alive
  /\ clock <= MaxEventTime
  /\ alive' = alive \ {p}
  /\ reporting' = {p}
  /\ UNCHANGED <<clockVars, uid, registryVars, bookVars, rec, sweep, scrapeVars, damageVars>>

(* Mutant of NotePodDeleted: the grace period is counted backwards. *)
NotePodDeletedBackdated(p) ==
  /\ p \in reporting
  /\ deletedAfter' = [deletedAfter EXCEPT ![p] = clock - Grace]
  /\ reporting' = reporting \ {p}
  /\ UNCHANGED <<clockVars, uid, alive, registryVars, lastSeen, rec, sweep, scrapeVars, damageVars>>

(* ... and the callback, note_pod_deleted, runs on it next. *)
NotePodDeleted(p) ==
  /\ p \in reporting
  /\ deletedAfter' = [deletedAfter EXCEPT ![p] = clock + Grace]
  /\ reporting' = reporting \ {p}
  /\ UNCHANGED <<clockVars, uid, alive, registryVars, lastSeen, rec, sweep, scrapeVars, damageVars>>

(* A pod object with the same name: a StatefulSet replaces its pod. *)
PodRecreated(p) ==
  /\ reporting = {}
  /\ p \notin alive
  /\ uid[p] < MaxUid
  /\ alive' = alive \cup {p}
  /\ uid' = [uid EXCEPT ![p] = @ + 1]
  /\ UNCHANGED <<clockVars, reporting, registryVars, bookVars, rec, sweep, scrapeVars, damageVars>>

-----------------------------------------------------------------------------
(* Scrapes and time. *)

(* get_metrics: every series in the registry is rendered. *)
Scrape ==
  /\ sinceScrape' = 0
  /\ unexposed' = {}
  /\ UNCHANGED <<clockVars, podVars, registryVars, bookVars, rec, sweep, damageVars>>

Tick ==
  /\ clock < MaxTime
  /\ sinceScrape < ScrapeInterval
  /\ Recording => clock < rec.timestamp + RecordBudget
  /\ reporting = {}
  /\ clock' = clock + 1
  /\ sinceScrape' = sinceScrape + 1
  /\ UNCHANGED <<setbacks, podVars, registryVars, bookVars, rec, sweep, unexposed, damageVars>>

(* The wall clock is set back, though neither while an event is recorded,  *)
(* which reads it once, at its beginning, nor in the instant between a     *)
(* sweep's reading of it and its scan.                                     *)
SetClockBack ==
  /\ setbacks < MaxSetbacks
  /\ Setback <= clock
  /\ ~Recording
  /\ sweep.at # "scan"
  /\ clock' = clock - Setback
  /\ setbacks' = setbacks + 1
  /\ UNCHANGED <<podVars, registryVars, bookVars, rec, sweep, scrapeVars, damageVars>>

-----------------------------------------------------------------------------
RecordStep ==
  \/ KillsHandle \/ KillsInc \/ GaugeHandle \/ GaugePeak
  \/ TimestampHandle \/ TimestampSet \/ TouchLastSeen

SweepStep ==
  \/ DrainDue \/ ScanStale
  \/ RemoveKills \/ RemoveTimestamp \/ RemoveMemory \/ CountEviction

PodStep == \E p \in Pods : PodDeleted(p) \/ NotePodDeleted(p) \/ PodRecreated(p)

Next == BeginEvent \/ RecordStep \/ SweepStep \/ PodStep \/ Scrape \/ Tick \/ SetClockBack

(* The tasks are scheduled, Prometheus scrapes and time passes; kills and  *)
(* the life of pods are not forced.                                        *)
Fairness ==
  /\ WF_vars(RecordStep) /\ WF_vars(SweepStep)
  /\ \A p \in Pods : WF_vars(NotePodDeleted(p))
  /\ WF_vars(Scrape) /\ WF_vars(Tick)

Spec == Init /\ [][Next]_vars /\ Fairness

-----------------------------------------------------------------------------
(* Properties. *)

TypeOK ==
  /\ clock \in Nat /\ setbacks \in Nat
  /\ uid \in [Pods -> 1..MaxUid] /\ alive \subseteq Pods /\ reporting \subseteq Pods
  /\ kills \in [SeriesKey -> Nat \cup {None}]
  /\ killsPerNode \in Nat
  /\ memory \in [MemorySeries -> [MemoryTypes -> Nat \cup {None}]]
  /\ lastTimestamp \in [SeriesKey -> Nat \cup {None}]
  /\ evictedTotal \in Nat
  /\ lastSeen \in [SeriesKey -> Nat \cup {None}]
  /\ deletedAfter \in [Pods -> Nat \cup {None}]
  /\ rec \in RecordCall /\ sweep \in SweepCall
  /\ sinceScrape \in Nat /\ unexposed \subseteq SeriesKey
  /\ overlapped \subseteq SeriesKey /\ bereft \subseteq SeriesKey

(* Cardinality stays bounded: whatever record_oom_event and evict_stale do *)
(* to each other, a per-container series in the registry has an entry in   *)
(* last_seen, or is in the hands of one of the two, so that some later     *)
(* sweep removes it.  Nothing leaks.                                       *)
NoLeakedSeries ==
  LET held == Tracked \cup sweep.stale \cup (IF Recording THEN {rec.key} ELSE {})
  IN  /\ \A k \in SeriesKey :
           (kills[k] # None \/ lastTimestamp[k] # None) => k \in held
      /\ \A m \in MemorySeries :
           (\E t \in MemoryTypes : memory[m][t] # None)
              => \E k \in held : MemoryLabels(k) = m

(* What the sweep and the recorder can do to each other is confined to two *)
(* cases.  A label set last_seen tracks has its kills, at least one, and   *)
(* the timestamp it is aged by, unless a sweep was removing that very      *)
(* label set while the event was recorded; and it has its memory series,   *)
(* unless a sweep took them, with a stale restart of the container, after  *)
(* the event had written them and before it was tracked.                   *)
TrackedSeriesExist ==
  /\ \A k \in Tracked \ overlapped :
       /\ kills[k] # None /\ kills[k] > 0
       /\ lastTimestamp[k] # None
       /\ ~Recording => lastTimestamp[k] = lastSeen[k]
  /\ \A k \in Tracked \ bereft, t \in MemoryTypes : memory[MemoryLabels(k)][t] # None

(* README.md says the memory series all restarts share "is deleted only    *)
(* when the last restart naming it goes stale, never out from under a      *)
(* container still being killed", and remove_series that a key going stale *)
(* must not delete it "out from under a live one".  Said even of those     *)
(* restarts alone that no sweep was removing when they were recorded: a    *)
(* tracked one has its memory series.                                      *)
MemoryKeptForKilled ==
  \A k \in Tracked \ overlapped, t \in MemoryTypes : memory[MemoryLabels(k)][t] # None

(* The comment in evict_stale says holding last_seen's mutex across the    *)
(* removals avoids "losing the increment and leaving a last-seen entry     *)
(* with nothing behind it": a tracked label set always has its kills.      *)
LastSeenHasSeriesBehindIt == \A k \in Tracked : kills[k] # None

(* While any restart of a container is tracked, the memory series all its  *)
(* restarts share is neither deleted nor lowered, by the eviction of a     *)
(* sibling or by a later, smaller kill.                                    *)
MemoryPeakHeld ==
  [][\A k \in Tracked, t \in MemoryTypes :
       LET before == memory[MemoryLabels(k)][t]
           after  == memory'[MemoryLabels(k)][t]
       IN  (lastSeen'[k] # None /\ before # None)
              => (after # None /\ after >= before)]_vars

(* evict_stale never takes a series holding the increment of a finished    *)
(* record_oom_event that no scrape has shown: the delays before eviction   *)
(* are there so that every increment is scraped first.                     *)
OnlyScrapedSeriesEvicted == LastSeenLocked => sweep.stale \cap unexposed = {}

(* oom_series_evicted_total counts a label set once per eviction: together *)
(* with the label sets still held it never exceeds the kills recorded.     *)
EvictionsAccounted ==
  evictedTotal + Cardinality(Tracked) + Cardinality(sweep.stale) <= killsPerNode

(* When the kills stop, every per-container series is eventually gone, and *)
(* so is every entry of the two bookkeeping maps.                          *)
EventuallyNoSeries ==
  <>[](/\ \A k \in SeriesKey : kills[k] = None /\ lastTimestamp[k] = None
       /\ \A m \in MemorySeries, t \in MemoryTypes : memory[m][t] = None
       /\ Tracked = {}
       /\ \A p \in Pods : deletedAfter[p] = None)

=============================================================================
