------------------------- MODULE MetricsSweepProofs -------------------------
(***************************************************************************)
(* Theorems about what the sweeper and the recorder leave to each other in *)
(* MetricsCollector: which label sets keep their series, how often an      *)
(* eviction is counted, and what a scrape has shown before one.            *)
(***************************************************************************)
EXTENDS MetricsCollectorProofs, FiniteSetTheorems

(* What the sweeper has in hand is not tracked, and an event of one of     *)
(* those label sets knows that it is being removed.                        *)
HandsInv ==
  /\ sweep.at \in {"idle", "scan"} => sweep.stale = {}
  /\ sweep.at \in {"timestamp", "memory", "count"} => sweep.key \in sweep.stale
  /\ sweep.stale \cap Tracked = {}
  /\ Recording /\ rec.key \in sweep.stale => rec.overlap

(* How far record_oom_event has come with its label set. *)
KillCounted == rec.at \in {"gauge", "peak", "stamp", "set", "touch"}

(* What a recording has made of its own label set is there, if no sweep is *)
(* removing that; what it has made of the shared memory series, if no      *)
(* sweep has taken it since.                                               *)
CountersMade ==
  /\ rec.at # "counter" => kills[rec.key] # None
  /\ KillCounted => kills[rec.key] > 0
  /\ rec.at \in {"set", "touch"} => lastTimestamp[rec.key] # None
  /\ rec.at = "touch" => lastTimestamp[rec.key] = rec.timestamp
GaugesMade ==
  \A t \in MemoryTypes : GaugeMade(t) => memory[MemoryLabels(rec.key)][t] # None
RecordInv ==
  /\ rec.at \in {"counter", "inc"} => rec.type = 1
  /\ Recording /\ ~rec.overlap => CountersMade
  /\ Recording /\ ~rec.bereft => GaugesMade

Counted(k) ==
  /\ kills[k] # None /\ kills[k] > 0
  /\ lastTimestamp[k] # None
  /\ lastTimestamp[k] = lastSeen[k] \/ (rec.at = "touch" /\ rec.key = k)
Gauged(k) == \A t \in MemoryTypes : memory[MemoryLabels(k)][t] # None

(* TrackedSeriesExist, said of an event in flight as well. *)
CompleteInv ==
  /\ \A k \in Tracked \ overlapped : Counted(k)
  /\ \A k \in Tracked \ bereft : Gauged(k)

TrackInv == HandsInv /\ RecordInv /\ CompleteInv

-----------------------------------------------------------------------------
(* What a step of the recorder leaves alone. *)
RecorderStep ==
  KillsHandle \/ KillsInc \/ GaugeHandle \/ GaugePeak \/ TimestampHandle \/ TimestampSet

(* A step of the recorder before its last one works on the series of its   *)
(* own label set, and never takes one away.                                *)
LEMMA RecorderFrame ==
  ASSUME TypeOK, RecorderStep
  PROVE  /\ Recording /\ Recording' /\ rec'.key = rec.key /\ rec'.overlap = rec.overlap
         /\ rec'.timestamp = rec.timestamp /\ rec'.bereft = rec.bereft
         /\ rec.key \in SeriesKey /\ MemoryLabels(rec.key) \in MemorySeries
         /\ UNCHANGED <<sweep, lastSeen, deletedAfter, overlapped, bereft, evictedTotal>>
         /\ UNCHANGED <<clock, sinceScrape, unexposed, alive, reporting, uid>>
<1>1. /\ rec.key \in SeriesKey /\ MemoryLabels(rec.key) \in MemorySeries
  BY MemoryLabelsTyped DEF TypeOK, RecordCall
<1>2. /\ Recording /\ Recording' /\ rec'.key = rec.key /\ rec'.overlap = rec.overlap
      /\ rec'.timestamp = rec.timestamp /\ rec'.bereft = rec.bereft
  <2> USE DEF Recording, TypeOK, RecordCall
  <2>1. CASE GaugePeak
    <3>1. CASE rec.type < MemoryTypeCount
      BY <2>1, <3>1 DEF GaugePeak
    <3>2. CASE ~(rec.type < MemoryTypeCount)
      BY <2>1, <3>2 DEF GaugePeak
    <3> QED BY <3>1, <3>2
  <2>2. CASE KillsHandle \/ KillsInc \/ GaugeHandle
    BY <2>2 DEF KillsHandle, KillsInc, GaugeHandle
  <2>3. CASE TimestampHandle \/ TimestampSet
    BY <2>3 DEF TimestampHandle, TimestampSet
  <2> QED BY <2>1, <2>2, <2>3 DEF RecorderStep
<1>3. /\ UNCHANGED <<sweep, lastSeen, deletedAfter, overlapped, bereft, evictedTotal>>
      /\ UNCHANGED <<clock, sinceScrape, unexposed, alive, reporting, uid>>
  BY DEF RecorderStep, KillsHandle, KillsInc, GaugeHandle, GaugePeak, TimestampHandle,
         TimestampSet, bookVars, clockVars, podVars, scrapeVars, damageVars
<1> QED BY <1>1, <1>2, <1>3

(* It takes no series away and lowers no counter. *)
LEMMA RecorderCreates ==
  ASSUME TypeOK, RecorderStep
  PROVE  /\ \A k \in SeriesKey : kills[k] # None => kills'[k] # None /\ kills'[k] >= kills[k]
         /\ \A m \in MemorySeries, t \in MemoryTypes :
              memory[m][t] # None => memory'[m][t] # None
         /\ \A k \in SeriesKey : lastTimestamp[k] # None => lastTimestamp'[k] # None
         /\ \A k \in SeriesKey \ {rec.key} : lastTimestamp'[k] = lastTimestamp[k]
<1> USE RecorderFrame, LabelAssumption
<1>1. CASE KillsHandle
  BY <1>1 DEF KillsHandle, TypeOK, GetOrCreate
<1>2. CASE KillsInc
  BY <1>2 DEF KillsInc, TypeOK
<1>3. CASE GaugeHandle
  BY <1>3 DEF GaugeHandle, TypeOK, GetOrCreate
<1>4. CASE GaugePeak
  <2>1. Bytes(rec.kb[rec.type]) \in Nat
    BY DEF Bytes, TypeOK, RecordCall
  <2> HIDE DEF Bytes
  <2> QED BY <1>4, <2>1 DEF GaugePeak, TypeOK
<1>5. CASE TimestampHandle
  BY <1>5 DEF TimestampHandle, TypeOK, GetOrCreate
<1>6. CASE TimestampSet
  BY <1>6 DEF TimestampSet, TypeOK, RecordCall
<1> QED BY <1>1, <1>2, <1>3, <1>4, <1>5, <1>6 DEF RecorderStep

(* The steps that concern neither the registry nor last_seen. *)
Elsewhere ==
  UNCHANGED <<kills, killsPerNode, memory, lastTimestamp, evictedTotal, lastSeen, rec, sweep,
              overlapped, bereft>>

(* The steps of remove_series. *)
Removal == RemoveKills \/ RemoveTimestamp \/ RemoveMemory \/ CountEviction

(* What a step can be. *)
LEMMA StepCases ==
  ASSUME [Next]_vars
  PROVE  \/ BeginEvent \/ RecorderStep \/ TouchLastSeen \/ DrainDue \/ ScanStale
         \/ Removal \/ Elsewhere
  BY DEF Next, RecordStep, RecorderStep, SweepStep, PodStep, PodDeleted, NotePodDeleted,
         PodRecreated, Scrape, Tick, SetClockBack, vars, registryVars, bookVars, damageVars,
         Removal, Elsewhere

(* The event whose recording begins. *)
LEMMA BeginFrame ==
  ASSUME TypeOK, BeginEvent
  PROVE  /\ ~Recording /\ Recording' /\ rec'.at = "counter" /\ rec'.type = 1
         /\ rec'.overlap = (rec'.key \in sweep.stale) /\ rec'.timestamp = clock
         /\ rec'.key \in SeriesKey
         /\ UNCHANGED <<kills, killsPerNode, memory, lastTimestamp, evictedTotal, lastSeen,
                       sweep, overlapped, bereft>>
<1>1. PICK key \in Resolvable, kb \in MemoryValues :
        rec' = [at |-> "counter", key |-> key, timestamp |-> clock, kb |-> kb,
                type |-> 1, overlap |-> key \in sweep.stale, bereft |-> FALSE]
  BY DEF BeginEvent
<1>2. key \in SeriesKey
  BY DEF Resolvable, SeriesKey
<1> QED BY <1>1, <1>2 DEF BeginEvent, Recording, registryVars, bookVars, damageVars

(* The end of a recording. *)
LEMMA TouchFrame ==
  ASSUME TypeOK, TouchLastSeen
  PROVE  /\ Recording /\ ~Recording' /\ ~LastSeenLocked /\ rec.at = "touch" /\ rec'.at = "idle"
         /\ rec.key \in SeriesKey /\ rec.timestamp \in Nat
         /\ Tracked' = Tracked \cup {rec.key}
         /\ lastSeen'[rec.key] = rec.timestamp
         /\ \A k \in SeriesKey \ {rec.key} : lastSeen'[k] = lastSeen[k]
         /\ overlapped' = IF rec.overlap THEN overlapped \cup {rec.key}
                                         ELSE overlapped \ {rec.key}
         /\ bereft' = IF rec.bereft THEN bereft \cup {rec.key} ELSE bereft \ {rec.key}
         /\ UNCHANGED <<kills, killsPerNode, memory, lastTimestamp, evictedTotal, sweep>>
<1>1. rec.key \in SeriesKey /\ rec.timestamp \in Nat
  BY DEF TypeOK, RecordCall
<1> QED
  BY <1>1, LabelAssumption
     DEF TouchLastSeen, Recording, NoRecord, Tracked, TypeOK, registryVars

(* The scan takes label sets from last_seen to the removals. *)
LEMMA ScanFrame ==
  ASSUME TypeOK, ScanStale
  PROVE  /\ sweep.at = "scan" /\ StaleKeys \subseteq Tracked
         /\ Tracked' = Tracked \ StaleKeys
         /\ \A k \in SeriesKey \ StaleKeys : lastSeen'[k] = lastSeen[k]
         /\ sweep'.stale = StaleKeys
         /\ sweep'.at = IF StaleKeys = {} THEN "idle" ELSE "kills"
         /\ rec'.key = rec.key /\ rec'.at = rec.at /\ rec'.type = rec.type
         /\ rec'.timestamp = rec.timestamp /\ rec'.bereft = rec.bereft
         /\ rec'.overlap = (rec.overlap \/ (Recording /\ rec.key \in StaleKeys))
         /\ overlapped' = overlapped \ StaleKeys /\ bereft' = bereft \ StaleKeys
         /\ UNCHANGED <<kills, killsPerNode, memory, lastTimestamp, evictedTotal, Recording>>
<1>1. StaleKeys \subseteq Tracked /\ Tracked \subseteq SeriesKey
  BY DEF StaleKeys, Tracked
<1>2. Tracked' = Tracked \ StaleKeys
  BY <1>1, LabelAssumption DEF Tracked, ScanStale
<1>3. /\ sweep'.stale = StaleKeys
      /\ sweep'.at = IF StaleKeys = {} THEN "idle" ELSE "kills"
  BY DEF ScanStale, NoSweep, TypeOK, SweepCall
<1>4. /\ rec'.key = rec.key /\ rec'.at = rec.at /\ rec'.type = rec.type
      /\ rec'.timestamp = rec.timestamp /\ rec'.bereft = rec.bereft
      /\ rec'.overlap = (rec.overlap \/ (Recording /\ rec.key \in StaleKeys))
  BY DEF ScanStale, TypeOK, RecordCall
<1> QED BY <1>1, <1>2, <1>3, <1>4 DEF ScanStale, Recording, registryVars

(* A removal is of a label set in the sweeper's hands. *)
LEMMA RemoveFrame ==
  ASSUME TypeOK, HandsInv, Removal
  PROVE  /\ LastSeenLocked /\ UNCHANGED <<lastSeen, overlapped, bereft, killsPerNode, Tracked>>
         /\ rec'.key = rec.key /\ rec'.at = rec.at /\ rec'.type = rec.type
         /\ rec'.timestamp = rec.timestamp /\ rec'.overlap = rec.overlap
         /\ Recording' = Recording
         /\ sweep'.stale \subseteq sweep.stale /\ sweep.stale \subseteq SeriesKey
         /\ sweep'.at \in {"timestamp", "memory", "count"} => sweep'.key \in sweep'.stale
         /\ sweep'.at # "scan" /\ (sweep'.at = "idle" => sweep'.stale = {})
         /\ \A k \in SeriesKey \ sweep.stale :
              kills'[k] = kills[k] /\ lastTimestamp'[k] = lastTimestamp[k]
<1> USE DEF HandsInv, TypeOK, SweepCall
<1>1. /\ UNCHANGED <<lastSeen, overlapped, bereft, killsPerNode>> /\ LastSeenLocked
      /\ Tracked' = Tracked
  BY DEF Removal, RemoveKills, RemoveTimestamp, RemoveMemory, CountEviction, LastSeenLocked,
         Tracked, bookVars, damageVars
<1>2. /\ rec'.key = rec.key /\ rec'.at = rec.at /\ rec'.type = rec.type
      /\ rec'.timestamp = rec.timestamp /\ rec'.overlap = rec.overlap
      /\ Recording' = Recording
  <2>1. CASE RemoveMemory
    BY <2>1, RemoveMemoryRec DEF RecordCall, Recording
  <2>2. CASE ~RemoveMemory
    <3>1. rec' = rec
      BY <2>2 DEF Removal, RemoveKills, RemoveTimestamp, CountEviction
    <3> QED BY <3>1 DEF Recording
  <2> QED BY <2>1, <2>2
<1>3. CASE RemoveKills
  <2>1. PICK key \in sweep.stale :
          /\ kills' = [kills EXCEPT ![key] = None]
          /\ sweep' = [sweep EXCEPT !.at = "timestamp", !.key = key,
                                    !.orphaned = MemorySeriesOrphaned(key)]
    BY <1>3 DEF RemoveKills
  <2>2. /\ sweep'.at = "timestamp" /\ sweep'.key = key
        /\ sweep'.stale = sweep.stale /\ UNCHANGED lastTimestamp
    BY <1>3, <2>1 DEF RemoveKills
  <2> QED BY <1>1, <1>2, <2>1, <2>2
<1>4. CASE RemoveTimestamp
  BY <1>1, <1>2, <1>4 DEF RemoveTimestamp, AfterTimestamp
<1>5. CASE RemoveMemory
  <2>1. /\ UNCHANGED <<kills, lastTimestamp>> /\ sweep.at = "memory"
        /\ sweep'.stale = sweep.stale /\ sweep'.key = sweep.key
        /\ sweep'.at \in {"memory", "count"}
    BY <1>5 DEF RemoveMemory
  <2> QED BY <1>1, <1>2, <2>1
<1>6. CASE CountEviction
  <2>1. /\ UNCHANGED <<kills, lastTimestamp>>
        /\ sweep'.stale = sweep.stale \ {sweep.key} /\ sweep'.at \in {"idle", "kills"}
        /\ sweep'.at = "idle" => sweep'.stale = {}
    BY <1>6 DEF CountEviction, NoSweep
  <2> QED BY <1>1, <1>2, <2>1
<1> QED BY <1>3, <1>4, <1>5, <1>6 DEF Removal

(* The memory series of a tracked label set are not touched, and an event  *)
(* that loses one it has made is marked.                                   *)
LEMMA RemoveSpares ==
  ASSUME TypeOK, GateInv, Removal
  PROVE  /\ \A k \in Tracked : memory'[MemoryLabels(k)] = memory[MemoryLabels(k)]
         /\ rec.bereft => rec'.bereft
         /\ \A t \in MemoryTypes :
              GaugeMade(t) /\ ~rec'.bereft
                 => memory'[MemoryLabels(rec.key)][t] = memory[MemoryLabels(rec.key)][t]
<1>1. CASE RemoveMemory
  <2> DEFINE m0 == MemoryLabels(sweep.key)
  <2>1. /\ m0 \in MemorySeries /\ MemoryLabels(rec.key) \in MemorySeries
        /\ sweep.type \in MemoryTypes /\ rec \in RecordCall
        /\ memory \in [MemorySeries -> [MemoryTypes -> Nat \cup {None}]]
    BY MemoryLabelsTyped DEF TypeOK, SweepCall, RecordCall
  <2>2. /\ memory' = [memory EXCEPT ![m0][sweep.type] = None]
        /\ MemorySeriesOrphaned(sweep.key)
    BY <1>1 DEF RemoveMemory, GateInv
  <2>3. ASSUME NEW k \in Tracked PROVE memory'[MemoryLabels(k)] = memory[MemoryLabels(k)]
    <3>1. MemoryLabels(k) \in MemorySeries
      BY MemoryLabelsTyped DEF Tracked
    <3>2. MemoryLabels(k) # m0
      BY <2>2 DEF MemorySeriesOrphaned, SharesMemorySeriesWith
    <3> QED BY <2>1, <2>2, <3>1, <3>2
  <2>4. rec'.bereft = (rec.bereft \/ (GaugeMade(sweep.type) /\ MemoryLabels(rec.key) = m0))
    BY <1>1, <2>1 DEF RemoveMemory, SharesMemorySeriesWith, RecordCall
  <2>5. ASSUME NEW t \in MemoryTypes, GaugeMade(t), ~rec'.bereft
        PROVE  memory'[MemoryLabels(rec.key)][t] = memory[MemoryLabels(rec.key)][t]
    <3>1. t # sweep.type \/ MemoryLabels(rec.key) # m0
      BY <2>4, <2>5
    <3> QED BY <2>1, <2>2, <3>1
  <2> QED BY <2>3, <2>4, <2>5
<1>2. CASE ~RemoveMemory
  BY <1>2 DEF Removal, RemoveKills, RemoveTimestamp, CountEviction
<1> QED BY <1>1, <1>2

-----------------------------------------------------------------------------
(* The mutex of last_seen keeps the sweeper's label sets from being        *)
(* tracked again before they are removed.                                  *)
LEMMA HandsStep == TypeOK /\ HandsInv /\ [Next]_vars => HandsInv'
<1> SUFFICES ASSUME TypeOK, HandsInv, [Next]_vars PROVE HandsInv'
  OBVIOUS
<1>1. CASE BeginEvent
  BY <1>1, BeginFrame DEF HandsInv, Tracked
<1>2. CASE RecorderStep
  BY <1>2, RecorderFrame DEF HandsInv, Tracked
<1>3. CASE TouchLastSeen
  <2>1. sweep.stale = {}
    BY <1>3, TouchFrame DEF HandsInv, LastSeenLocked, TypeOK, SweepCall
  <2> QED BY <1>3, <2>1, TouchFrame DEF HandsInv
<1>4. CASE DrainDue
  BY <1>4 DEF DrainDue, NoSweep, HandsInv
<1>5. CASE ScanStale
  <2>1. /\ sweep'.stale \cap Tracked' = {}
        /\ sweep'.at \in {"idle", "scan"} => sweep'.stale = {}
        /\ sweep'.at \notin {"timestamp", "memory", "count"}
    BY <1>5, ScanFrame
  <2>2. ASSUME Recording', rec'.key \in sweep'.stale PROVE rec'.overlap
    BY <1>5, <2>2, ScanFrame
  <2> QED BY <2>1, <2>2 DEF HandsInv
<1>6. CASE Removal
  BY <1>6, RemoveFrame DEF HandsInv
<1>7. CASE Elsewhere
  BY <1>7 DEF Elsewhere, HandsInv, Tracked, Recording
<1> QED BY <1>1, <1>2, <1>3, <1>4, <1>5, <1>6, <1>7, StepCases

(* What a recording has made stays until it is tracked, but for what a     *)
(* sweep takes of it.                                                      *)
LEMMA RecordInvStep ==
  TypeOK /\ GateInv /\ HandsInv /\ RecordInv /\ [Next]_vars => RecordInv'
<1> SUFFICES ASSUME TypeOK, GateInv, HandsInv, RecordInv, [Next]_vars PROVE RecordInv'
  OBVIOUS
<1>1. CASE BeginEvent
  BY <1>1, BeginFrame DEF RecordInv, CountersMade, GaugesMade, KillCounted, GaugeMade
<1>2. CASE RecorderStep
  <2> USE <1>2, RecorderFrame, LabelAssumption DEF RecordInv, TypeOK, RecordCall
  <2>1. CASE KillsHandle
    BY <2>1 DEF KillsHandle, GetOrCreate, CountersMade, GaugesMade, KillCounted, GaugeMade
  <2>2. CASE KillsInc
    <3>1. /\ rec.at = "inc" /\ rec'.at = "gauge" /\ rec'.type = rec.type /\ rec.type = 1
          /\ kills' = [kills EXCEPT ![rec.key] = IF @ = None THEN None ELSE @ + 1]
      BY <2>2 DEF KillsInc
    <3>2. ASSUME ~rec'.overlap PROVE CountersMade'
      <4>1. kills[rec.key] # None /\ kills[rec.key] \in Nat
        BY <3>1, <3>2 DEF CountersMade
      <4>2. kills'[rec.key] = kills[rec.key] + 1
        BY <3>1, <4>1
      <4>3. kills'[rec'.key] # None /\ kills'[rec'.key] > 0
        BY <4>1, <4>2
      <4> QED BY <3>1, <4>3 DEF CountersMade
    <3>3. ASSUME NEW t \in MemoryTypes PROVE ~GaugeMade(t)'
      <4> t \in Nat /\ t >= 1
        BY DEF MemoryTypes
      <4> QED BY <3>1 DEF GaugeMade
    <3> QED BY <3>1, <3>2, <3>3 DEF GaugesMade
  <2>3. CASE GaugeHandle
    BY <2>3 DEF GaugeHandle, GetOrCreate, CountersMade, GaugesMade, KillCounted, GaugeMade
  <2>4. CASE GaugePeak
    <3> DEFINE m == MemoryLabels(rec.key)
    <3>1. /\ rec.type \in Nat /\ MemoryTypeCount \in Nat /\ rec.type <= MemoryTypeCount
          /\ kills' = kills /\ rec.at = "peak" /\ rec'.at \in {"gauge", "stamp"}
      BY <2>4 DEF GaugePeak, MemoryTypes
    <3>2. \/ rec'.at = "gauge" /\ rec'.type = rec.type + 1
          \/ rec'.at = "stamp" /\ rec.type = MemoryTypeCount
      <4>1. CASE rec.type < MemoryTypeCount
        BY <2>4, <4>1 DEF GaugePeak
      <4>2. CASE ~(rec.type < MemoryTypeCount)
        <5>1. rec'.at = "stamp"
          BY <2>4, <4>2 DEF GaugePeak
        <5> HIDE DEF TypeOK, RecordCall, RecordInv
        <5> QED BY <3>1, <4>2, <5>1
      <4> QED BY <4>1, <4>2
    <3>3. ASSUME NEW t \in MemoryTypes, GaugeMade(t)', ~rec'.bereft PROVE memory'[m][t] # None
      <4>1. t <= rec.type /\ t \in Nat
        BY <3>1, <3>2, <3>3 DEF MemoryTypes, GaugeMade
      <4>2. GaugeMade(t)
        BY <3>1, <4>1 DEF GaugeMade
      <4>3. memory[m][t] # None
        BY <3>3, <4>2 DEF GaugesMade
      <4> QED BY <4>3, RecorderCreates
    <3>4. ASSUME ~rec'.overlap PROVE CountersMade'
      BY <3>1, <3>4 DEF CountersMade, KillCounted
    <3> QED BY <3>1, <3>3, <3>4 DEF GaugesMade
  <2>5. CASE TimestampHandle
    BY <2>5 DEF TimestampHandle, GetOrCreate, CountersMade, GaugesMade, KillCounted, GaugeMade
  <2>6. CASE TimestampSet
    BY <2>6 DEF TimestampSet, CountersMade, GaugesMade, KillCounted, GaugeMade
  <2> QED BY <2>1, <2>2, <2>3, <2>4, <2>5, <2>6 DEF RecorderStep
<1>3. CASE TouchLastSeen
  BY <1>3, TouchFrame DEF RecordInv
<1>4. CASE DrainDue \/ Elsewhere
  BY <1>4 DEF DrainDue, Elsewhere, registryVars, RecordInv, Recording, CountersMade, GaugesMade,
              KillCounted, GaugeMade
<1>5. CASE ScanStale
  <2>1. ~rec'.overlap => ~rec.overlap
    BY <1>5, ScanFrame
  <2>2. /\ UNCHANGED <<kills, memory, lastTimestamp, Recording>> /\ rec'.key = rec.key
        /\ rec'.at = rec.at /\ rec'.type = rec.type /\ rec'.timestamp = rec.timestamp
        /\ rec'.bereft = rec.bereft
    BY <1>5, ScanFrame
  <2>3. CountersMade' <=> CountersMade
    BY <2>2 DEF CountersMade, KillCounted
  <2>4. GaugesMade' <=> GaugesMade
    BY <2>2 DEF GaugesMade, GaugeMade
  <2> QED BY <2>1, <2>2, <2>3, <2>4 DEF RecordInv
<1>6. CASE Removal
  <2>1. rec.key \in SeriesKey
    BY DEF TypeOK, RecordCall
  <2>2. ASSUME Recording, ~rec'.overlap PROVE CountersMade'
    <3>1. rec.key \in SeriesKey \ sweep.stale /\ ~rec.overlap
      BY <1>6, <2>1, <2>2, RemoveFrame DEF HandsInv
    <3> QED BY <1>6, <2>2, <3>1, RemoveFrame DEF RecordInv, CountersMade, KillCounted
  <2>3. ASSUME Recording, ~rec'.bereft PROVE GaugesMade'
    BY <1>6, <2>3, RemoveFrame, RemoveSpares DEF RecordInv, GaugesMade, GaugeMade
  <2> QED BY <1>6, <2>2, <2>3, RemoveFrame DEF RecordInv
<1> QED BY <1>1, <1>2, <1>3, <1>4, <1>5, <1>6, StepCases

(* A tracked label set loses nothing, and one that comes to be tracked has *)
(* what no sweep took from it while it was recorded.                       *)
LEMMA CountedStep ==
  ASSUME TypeOK, TrackInv, [Next]_vars, NEW k \in SeriesKey, k \in Tracked', k \notin overlapped'
  PROVE  Counted(k)'
<1> USE DEF TrackInv
<1>2. CASE BeginEvent
  BY <1>2, BeginFrame DEF CompleteInv, Counted, Tracked, Recording
<1>3. CASE RecorderStep
  <2>1. Counted(k)
    BY <1>3, RecorderFrame DEF CompleteInv, Tracked
  <2>2. kills'[k] # None /\ kills'[k] > 0
    <3>1. kills[k] \in Nat /\ kills'[k] # None
      BY <1>3, <2>1, RecorderCreates DEF Counted, TypeOK
    <3>2. kills'[k] \in Nat /\ kills'[k] >= kills[k]
      BY <1>3, <3>1, RecorderCreates, TypeStep, LabelAssumption DEF TypeOK
    <3> QED BY <2>1, <3>1, <3>2 DEF Counted
  <2>4. lastTimestamp'[k] # None
    BY <1>3, <2>1, RecorderCreates DEF Counted
  <2>5. lastTimestamp'[k] = lastSeen'[k] \/ (rec'.at = "touch" /\ rec'.key = k)
    <3>1. CASE k # rec.key
      BY <1>3, <2>1, <3>1, RecorderCreates, RecorderFrame DEF Counted
    <3>2. CASE k = rec.key /\ TimestampSet
      BY <3>2, <1>3, RecorderFrame DEF TimestampSet, TypeOK, RecordCall
    <3>3. CASE k = rec.key /\ ~TimestampSet
      <4>1. lastTimestamp'[k] = lastTimestamp[k] /\ rec.at # "touch"
        BY <1>3, <2>1, <3>3 DEF RecorderStep, KillsHandle, KillsInc, GaugeHandle, GaugePeak,
           TimestampHandle, GetOrCreate, Counted, TypeOK
      <4> QED BY <1>3, <2>1, <4>1, RecorderFrame DEF Counted
    <3> QED BY <3>1, <3>2, <3>3
  <2> QED BY <2>2, <2>4, <2>5 DEF Counted
<1>4. CASE TouchLastSeen
  <2>1. CASE k = rec.key
    <3>1. ~rec.overlap
      BY <1>4, <2>1, TouchFrame
    <3> QED BY <1>4, <2>1, <3>1, TouchFrame DEF RecordInv, CountersMade, Counted, KillCounted
  <2>2. CASE k # rec.key
    <3>1. Counted(k) /\ lastSeen'[k] = lastSeen[k]
      BY <1>4, <2>2, TouchFrame DEF CompleteInv
    <3> QED BY <1>4, <2>2, <3>1, TouchFrame DEF Counted
  <2> QED BY <2>1, <2>2
<1>5. CASE DrainDue \/ Elsewhere
  BY <1>5 DEF DrainDue, Elsewhere, registryVars, damageVars, CompleteInv, Counted, Tracked
<1>6. CASE ScanStale
  BY <1>6, ScanFrame DEF CompleteInv, Counted, Tracked
<1>7. CASE Removal
  <2>1. k \in Tracked /\ k \notin overlapped /\ k \notin sweep.stale
    BY <1>7, RemoveFrame DEF HandsInv
  <2> QED BY <1>7, <2>1, RemoveFrame DEF CompleteInv, Counted
<1> QED BY <1>2, <1>3, <1>4, <1>5, <1>6, <1>7, StepCases

(* The same of the shared memory series. *)
LEMMA GaugedStep ==
  ASSUME TypeOK, GateInv, TrackInv, [Next]_vars,
         NEW k \in SeriesKey, k \in Tracked', k \notin bereft'
  PROVE  Gauged(k)'
<1> USE DEF TrackInv
<1>1. MemoryLabels(k) \in MemorySeries
  BY MemoryLabelsTyped
<1>2. CASE BeginEvent
  BY <1>2, BeginFrame DEF CompleteInv, Gauged, Tracked
<1>3. CASE RecorderStep
  <2>1. Gauged(k)
    BY <1>3, RecorderFrame DEF CompleteInv, Tracked
  <2> QED BY <1>1, <1>3, <2>1, RecorderCreates DEF Gauged
<1>4. CASE TouchLastSeen
  <2>1. CASE k = rec.key
    <3>1. ~rec.bereft
      BY <1>4, <2>1, TouchFrame
    <3> QED BY <1>4, <2>1, <3>1, TouchFrame DEF RecordInv, GaugesMade, GaugeMade, Gauged
  <2>2. CASE k # rec.key
    BY <1>4, <2>2, TouchFrame DEF CompleteInv, Gauged
  <2> QED BY <2>1, <2>2
<1>5. CASE DrainDue \/ Elsewhere
  BY <1>5 DEF DrainDue, Elsewhere, registryVars, damageVars, CompleteInv, Gauged, Tracked
<1>6. CASE ScanStale
  BY <1>6, ScanFrame DEF CompleteInv, Gauged
<1>7. CASE Removal
  BY <1>7, RemoveFrame, RemoveSpares DEF CompleteInv, Gauged
<1> QED BY <1>2, <1>3, <1>4, <1>5, <1>6, <1>7, StepCases

(* TrackInv is an invariant. *)
LEMMA Tracking == Spec => []TrackInv
<1>1. Init => TrackInv
  <2> SUFFICES ASSUME Init PROVE TrackInv
    OBVIOUS
  <2>1. Tracked = {} /\ ~Recording /\ rec.at = "idle" /\ sweep.at = "idle" /\ sweep.stale = {}
    BY DEF Init, Tracked, Recording, NoRecord, NoSweep
  <2> QED BY <2>1 DEF TrackInv, HandsInv, RecordInv, CompleteInv
<1>2. TypeOK /\ GateInv /\ TrackInv /\ [Next]_vars => TrackInv'
  <2> SUFFICES ASSUME TypeOK, GateInv, TrackInv, [Next]_vars PROVE TrackInv'
    OBVIOUS
  <2>1. HandsInv' /\ RecordInv'
    BY HandsStep, RecordInvStep DEF TrackInv
  <2>2. CompleteInv'
    BY CountedStep, GaugedStep DEF CompleteInv, Tracked
  <2> QED BY <2>1, <2>2 DEF TrackInv
<1> QED BY <1>1, <1>2, TypeCorrect, GateHolds, PTL DEF Spec

(* What record_oom_event and evict_stale do to each other is confined to   *)
(* two cases: a tracked label set has its kills and the timestamp it is    *)
(* aged by, unless a sweep was removing that label set while its event was *)
(* recorded, and its memory series, unless a sweep took them with a stale  *)
(* restart after the event had written them and before it was tracked.     *)
THEOREM DamageConfined == Spec => []TrackedSeriesExist
<1>1. TrackInv => TrackedSeriesExist
  BY DEF TrackInv, CompleteInv, Counted, Gauged, TrackedSeriesExist, Recording
<1> QED BY <1>1, Tracking, PTL

-----------------------------------------------------------------------------
(* Evictions are paid for by kills: a label set is tracked by an event     *)
(* whose kill has been counted, is evicted once, and one more kill is      *)
(* there to spare while an event is between its increment and last_seen.   *)

Spare == IF KillCounted THEN 1 ELSE 0

AccountInv ==
  /\ IsFiniteSet(Tracked) /\ IsFiniteSet(sweep.stale)
  /\ evictedTotal + Cardinality(Tracked) + Cardinality(sweep.stale) + Spare <= killsPerNode

(* Each step that takes from one account pays into another. *)
LEMMA AccountStep == TypeOK /\ HandsInv /\ AccountInv /\ [Next]_vars => AccountInv'
<1> SUFFICES ASSUME TypeOK, HandsInv, AccountInv, [Next]_vars PROVE AccountInv'
  OBVIOUS
<1> DEFINE T == Cardinality(Tracked)
           S == Cardinality(sweep.stale)
<1>1. /\ IsFiniteSet(Tracked) /\ IsFiniteSet(sweep.stale) /\ T \in Nat /\ S \in Nat
      /\ evictedTotal \in Nat /\ killsPerNode \in Nat
      /\ evictedTotal + T + S + Spare <= killsPerNode
  BY FS_CardinalityType DEF AccountInv, TypeOK
<1> HIDE DEF T, S
<1>2. CASE BeginEvent
  <2>1. Spare' = 0
    BY <1>2, BeginFrame DEF Spare, KillCounted
  <2>2. Spare \in Nat
    BY DEF Spare
  <2> QED BY <1>1, <1>2, <2>1, <2>2, BeginFrame DEF AccountInv, T, S, Tracked
<1>3. CASE RecorderStep
  <2>1. Tracked' = Tracked /\ sweep' = sweep /\ evictedTotal' = evictedTotal
    BY <1>3, RecorderFrame DEF Tracked
  <2>2. CASE KillsInc
    <3>1. Spare = 0 /\ Spare' = 1 /\ killsPerNode' = killsPerNode + 1
      BY <2>2 DEF KillsInc, Spare, KillCounted, TypeOK, RecordCall
    <3> QED BY <1>1, <2>1, <3>1 DEF AccountInv, T, S
  <2>3. CASE ~KillsInc
    <3>1. Spare' = Spare /\ killsPerNode' = killsPerNode
      BY <1>3, <2>3 DEF RecorderStep, KillsHandle, GaugeHandle, GaugePeak, TimestampHandle,
         TimestampSet, Spare, KillCounted, TypeOK, RecordCall
    <3> QED BY <1>1, <2>1, <3>1 DEF AccountInv, T, S
  <2> QED BY <2>2, <2>3
<1>4. CASE TouchLastSeen
  <2>1. /\ Spare = 1 /\ Spare' = 0 /\ Tracked' = Tracked \cup {rec.key} /\ sweep' = sweep
        /\ evictedTotal' = evictedTotal /\ killsPerNode' = killsPerNode
    BY <1>4, TouchFrame DEF Spare, KillCounted
  <2>2. /\ IsFiniteSet(Tracked \cup {rec.key})
        /\ Cardinality(Tracked \cup {rec.key}) \in {T, T + 1}
    BY <1>1, FS_AddElement DEF T
  <2> QED BY <1>1, <2>1, <2>2 DEF AccountInv, S
<1>5. CASE DrainDue
  <2>1. /\ sweep'.stale = sweep.stale /\ Tracked' = Tracked /\ Spare' = Spare
        /\ evictedTotal' = evictedTotal /\ killsPerNode' = killsPerNode
    BY <1>5 DEF DrainDue, NoSweep, HandsInv, Tracked, Spare, KillCounted, registryVars
  <2> QED BY <1>1, <2>1 DEF AccountInv, T, S
<1>6. CASE ScanStale
  <2>1. /\ sweep.stale = {} /\ Spare' = Spare /\ StaleKeys \subseteq Tracked
        /\ Tracked' = Tracked \ StaleKeys /\ sweep'.stale = StaleKeys
        /\ evictedTotal' = evictedTotal /\ killsPerNode' = killsPerNode
    BY <1>6, ScanFrame DEF HandsInv, Spare, KillCounted
  <2>2. IsFiniteSet(StaleKeys) /\ Cardinality(StaleKeys) \in Nat
    BY <1>1, <2>1, FS_Subset, FS_CardinalityType
  <2>3. Tracked \cap StaleKeys = StaleKeys
    BY <2>1
  <2>4. IsFiniteSet(Tracked') /\ Cardinality(Tracked') = T - Cardinality(StaleKeys)
    <3>1. /\ IsFiniteSet(Tracked \ StaleKeys)
          /\ Cardinality(Tracked \ StaleKeys) = T - Cardinality(Tracked \cap StaleKeys)
      BY <1>1, FS_Difference DEF T
    <3> QED BY <2>1, <2>3, <3>1
  <2>5. Spare \in Nat
    BY DEF Spare
  <2> QED BY <1>1, <2>1, <2>2, <2>4, <2>5 DEF AccountInv
<1>7. CASE RemoveKills \/ RemoveTimestamp \/ RemoveMemory
  <2>1. /\ Tracked' = Tracked /\ Spare' = Spare /\ killsPerNode' = killsPerNode
    BY <1>7, RemoveFrame DEF Removal, Spare, KillCounted
  <2>2. evictedTotal' = evictedTotal
    BY <1>7 DEF RemoveKills, RemoveTimestamp, RemoveMemory
  <2>3. sweep'.stale = sweep.stale
    BY <1>7 DEF RemoveKills, RemoveTimestamp, AfterTimestamp, RemoveMemory, TypeOK, SweepCall
  <2> QED BY <1>1, <2>1, <2>2, <2>3 DEF AccountInv, T, S
<1>8. CASE CountEviction
  <2>1. /\ sweep.key \in sweep.stale /\ Tracked' = Tracked /\ Spare' = Spare
        /\ killsPerNode' = killsPerNode /\ evictedTotal' = evictedTotal + 1
    BY <1>8 DEF CountEviction, HandsInv, Tracked, Spare, KillCounted, bookVars
  <2>2. sweep'.stale = sweep.stale \ {sweep.key}
    BY <1>8 DEF CountEviction, NoSweep
  <2>3. IsFiniteSet(sweep'.stale) /\ Cardinality(sweep'.stale) = S - 1
    BY <1>1, <2>1, <2>2, FS_RemoveElement DEF S
  <2>4. Spare \in Nat
    BY DEF Spare
  <2> QED BY <1>1, <2>1, <2>3, <2>4 DEF AccountInv, T
<1>9. CASE Elsewhere
  BY <1>1, <1>9 DEF Elsewhere, AccountInv, T, S, Tracked, Spare, KillCounted
<1> QED BY <1>2, <1>3, <1>4, <1>5, <1>6, <1>7, <1>8, <1>9, StepCases DEF Removal

(* oom_series_evicted_total counts each eviction once: with the label sets *)
(* tracked or being removed it never exceeds the kills recorded.           *)
THEOREM EvictionsCountedOnce == Spec => []EvictionsAccounted
<1>1. Init => AccountInv
  <2> SUFFICES ASSUME Init PROVE AccountInv
    OBVIOUS
  <2>1. Tracked = {} /\ sweep.stale = {} /\ Spare = 0 /\ evictedTotal = 0 /\ killsPerNode = 0
    BY DEF Init, Tracked, NoRecord, NoSweep, Spare, KillCounted
  <2> QED BY <2>1, FS_EmptySet DEF AccountInv
<1>2. TypeOK /\ AccountInv => EvictionsAccounted
  <2> SUFFICES ASSUME TypeOK, AccountInv PROVE EvictionsAccounted
    OBVIOUS
  <2>1. Spare \in Nat /\ Cardinality(Tracked) \in Nat /\ Cardinality(sweep.stale) \in Nat
    BY FS_CardinalityType DEF AccountInv, Spare
  <2> QED BY <2>1 DEF AccountInv, EvictionsAccounted, TypeOK
<1>3. TrackInv => HandsInv
  BY DEF TrackInv
<1> QED BY <1>1, <1>2, <1>3, AccountStep, TypeCorrect, Tracking, PTL DEF Spec

-----------------------------------------------------------------------------
(* What has been scraped before an eviction.  An increment no scrape has   *)
(* shown is at most RecordBudget + sinceScrape older than its label set's  *)
(* last_seen, and the deadline of a deleted pod lies a scrape interval     *)
(* past any event its containers could still be recorded for.              *)

ClockInv ==
  /\ sinceScrape <= ScrapeInterval
  /\ Recording => rec.timestamp <= clock /\ clock <= rec.timestamp + RecordBudget
  /\ sweep.at = "scan" => sweep.now <= clock
  /\ \A k \in unexposed \cap Tracked : clock <= lastSeen[k] + RecordBudget + sinceScrape

DeadlineInv ==
  /\ \A p \in alive : deletedAfter[p] = None /\ p \notin reporting
  /\ \A k \in unexposed :
       k.pod \in Pods /\ deletedAfter[k.pod] # None
          => clock + ScrapeInterval < deletedAfter[k.pod] + sinceScrape
  /\ Recording /\ rec.key.pod \in Pods /\ deletedAfter[rec.key.pod] # None
       => rec.timestamp + RecordBudget + ScrapeInterval < deletedAfter[rec.key.pod]

(* A pod whose deadline has passed is out of reach of every event. *)
DueInv ==
  sweep.at = "scan" =>
    \A p \in sweep.due : /\ p \notin alive
                         /\ Recording => rec.key.pod # p
                         /\ \A k \in unexposed : k.pod # p

ScrapeInv == ClockInv /\ DeadlineInv /\ DueInv /\ OnlyScrapedSeriesEvicted

(* The label set of a new event is of a pod in the cache, or unknown. *)
LEMMA BeginPod ==
  ASSUME TypeOK, BeginEvent
  PROVE  /\ rec'.key.pod \in alive \/ rec'.key.pod \notin Pods
         /\ UNCHANGED <<clock, sinceScrape, unexposed, lastSeen, deletedAfter, alive, reporting, sweep>>
<1>1. PICK key \in Resolvable, kb \in MemoryValues :
        rec' = [at |-> "counter", key |-> key, timestamp |-> clock, kb |-> kb,
                type |-> 1, overlap |-> key \in sweep.stale, bereft |-> FALSE]
  BY DEF BeginEvent
<1>2. key.pod \in alive \/ key.pod = Unknown
  BY DEF Resolvable, UnknownKey
<1> QED
  BY <1>1, <1>2, LabelAssumption DEF BeginEvent, clockVars, podVars, bookVars, scrapeVars

(* Recording and the sweep keep what the scrapes rely on. *)
LEMMA ScrapeInvTasks ==
  TypeOK /\ HandsInv /\ ScrapeInv /\ (BeginEvent \/ RecordStep \/ SweepStep) => ScrapeInv'
<1> SUFFICES ASSUME TypeOK, HandsInv, ScrapeInv, BeginEvent \/ RecordStep \/ SweepStep
             PROVE  ScrapeInv'
  OBVIOUS
<1> USE DEF ScrapeInv
<1>0. clock \in Nat /\ sinceScrape \in Nat /\ ScrapeInterval \in Nat /\ RecordBudget \in Nat
      /\ \A p \in Pods : deletedAfter[p] \in Nat \cup {None}
  BY TimeAssumption DEF TypeOK
<1>1. CASE BeginEvent
  <2>1. ClockInv'
    BY <1>0, <1>1, BeginFrame, BeginPod DEF ClockInv, Tracked
  <2>2. DeadlineInv'
    BY <1>1, BeginFrame, BeginPod DEF DeadlineInv
  <2>3. DueInv'
    BY <1>1, BeginFrame, BeginPod DEF DueInv, TypeOK, SweepCall
  <2> QED BY <1>1, <2>1, <2>2, <2>3, BeginPod DEF OnlyScrapedSeriesEvicted, LastSeenLocked
<1>2. CASE RecorderStep
  BY <1>2, RecorderFrame
     DEF ClockInv, DeadlineInv, DueInv, OnlyScrapedSeriesEvicted, LastSeenLocked, Tracked
<1>3. CASE TouchLastSeen
  <2>1. /\ UNCHANGED <<clock, sinceScrape, alive, reporting, deletedAfter, sweep>>
        /\ unexposed' = unexposed \cup {rec.key}
    BY <1>3 DEF TouchLastSeen, clockVars, podVars
  <2>2. ClockInv'
    <3>1. ASSUME NEW k \in unexposed' \cap Tracked'
          PROVE  clock <= lastSeen'[k] + RecordBudget + sinceScrape
      <4>1. CASE k = rec.key
        BY <1>0, <1>3, <4>1, TouchFrame DEF ClockInv
      <4>2. CASE k # rec.key
        <5>1. k \in unexposed \cap Tracked /\ k \in SeriesKey
          BY <1>3, <2>1, <4>2, TouchFrame DEF Tracked
        <5> QED BY <1>3, <4>2, <5>1, TouchFrame DEF ClockInv
      <4> QED BY <4>1, <4>2
    <3> QED BY <1>3, <2>1, <3>1, TouchFrame DEF ClockInv
  <2>3. DeadlineInv'
    <3>1. ASSUME NEW k \in unexposed', k.pod \in Pods, deletedAfter[k.pod] # None
          PROVE  clock + ScrapeInterval < deletedAfter[k.pod] + sinceScrape
      <4>1. CASE k = rec.key
        <5>1. /\ rec.timestamp + RecordBudget + ScrapeInterval < deletedAfter[k.pod]
              /\ clock <= rec.timestamp + RecordBudget /\ rec.timestamp \in Nat
              /\ deletedAfter[k.pod] \in Nat
          BY <1>0, <1>3, <3>1, <4>1, TouchFrame DEF DeadlineInv, ClockInv
        <5> QED BY <1>0, <5>1
      <4>2. CASE k # rec.key
        BY <2>1, <3>1, <4>2 DEF DeadlineInv
      <4> QED BY <4>1, <4>2
    <3> QED BY <1>3, <2>1, <3>1, TouchFrame DEF DeadlineInv
  <2>4. DueInv'
    BY <1>3, <2>1, TouchFrame DEF DueInv
  <2> QED BY <1>3, <2>1, <2>2, <2>3, <2>4, TouchFrame DEF OnlyScrapedSeriesEvicted, LastSeenLocked
<1>4. CASE DrainDue
  <2> DEFINE due == {p \in Pods : deletedAfter[p] # None /\ ~(clock < deletedAfter[p])}
  <2>1. /\ deletedAfter' = [p \in Pods |-> IF p \in due THEN None ELSE deletedAfter[p]]
        /\ sweep'.at = "scan" /\ sweep'.now = clock /\ sweep'.due = due
        /\ UNCHANGED <<clock, sinceScrape, unexposed, alive, reporting, lastSeen, rec>>
    BY <1>4 DEF DrainDue, NoSweep, clockVars, podVars, scrapeVars
  <2>2. ASSUME NEW p \in due
        PROVE  p \notin alive /\ (Recording => rec.key.pod # p) /\ \A k \in unexposed : k.pod # p
    <3>1. p \in Pods /\ deletedAfter[p] \in Nat /\ clock >= deletedAfter[p] /\ deletedAfter[p] # None
      BY <1>0
    <3> HIDE DEF due
    <3>2. p \notin alive
      BY <3>1 DEF DeadlineInv
    <3>3. ASSUME Recording, rec.key.pod = p PROVE FALSE
      <4>1. /\ rec.timestamp + RecordBudget + ScrapeInterval < deletedAfter[p]
            /\ clock <= rec.timestamp + RecordBudget /\ rec.timestamp \in Nat
        BY <3>1, <3>3 DEF DeadlineInv, ClockInv, TypeOK, RecordCall
      <4> QED BY <1>0, <3>1, <4>1
    <3>4. ASSUME NEW k \in unexposed, k.pod = p PROVE FALSE
      <4>1. clock + ScrapeInterval < deletedAfter[p] + sinceScrape /\ sinceScrape <= ScrapeInterval
        BY <3>1, <3>4 DEF DeadlineInv, ClockInv
      <4> QED BY <1>0, <3>1, <4>1
    <3> QED BY <3>2, <3>3, <3>4
  <2> HIDE DEF due
  <2>3. ClockInv'
    BY <1>0, <2>1 DEF ClockInv, Tracked, Recording
  <2>4. DeadlineInv'
    BY <2>1 DEF DeadlineInv, Recording, TypeOK
  <2>5. DueInv'
    BY <2>1, <2>2 DEF DueInv, Recording
  <2> QED BY <2>1, <2>3, <2>4, <2>5 DEF OnlyScrapedSeriesEvicted, LastSeenLocked
<1>5. CASE ScanStale
  <2>1. UNCHANGED <<clock, sinceScrape, unexposed, alive, reporting, deletedAfter>>
    BY <1>5 DEF ScanStale, clockVars, podVars, scrapeVars
  <2>2. ClockInv'
    <3>1. \A k \in Tracked' : k \in Tracked /\ lastSeen'[k] = lastSeen[k]
      BY <1>5, ScanFrame DEF Tracked
    <3> QED BY <1>5, <2>1, <3>1, ScanFrame DEF ClockInv
  <2>3. DeadlineInv'
    BY <1>5, <2>1, ScanFrame DEF DeadlineInv
  <2>4. DueInv'
    BY <1>5, ScanFrame DEF DueInv
  <2>5. ASSUME NEW k \in StaleKeys, k \in unexposed PROVE FALSE
    <3>1. k \in Tracked /\ lastSeen[k] \in Nat /\ sweep.now \in Nat /\ TTL \in Nat \ {0}
          /\ ScrapeInterval + RecordBudget < TTL
      BY TimeAssumption DEF StaleKeys, Tracked, TypeOK, SweepCall
    <3>2. CASE PodGone(k)
      BY <1>5, <2>5, <3>2 DEF PodGone, DueInv, ScanStale
    <3>3. CASE AgedOut(k)
      <4>1. sweep.now >= lastSeen[k] + TTL
        BY <3>1, <3>3 DEF AgedOut, SaturatingSub
      <4>2. /\ clock <= lastSeen[k] + RecordBudget + sinceScrape
            /\ sinceScrape <= ScrapeInterval /\ sweep.now <= clock
        BY <1>5, <2>5, <3>1 DEF ClockInv, ScanStale
      <4> QED BY <1>0, <3>1, <4>1, <4>2
    <3> QED BY <3>2, <3>3 DEF StaleKeys
  <2> QED
    BY <1>5, <2>1, <2>2, <2>3, <2>4, <2>5, ScanFrame DEF OnlyScrapedSeriesEvicted
<1>6. CASE Removal
  <2>1. UNCHANGED <<clock, sinceScrape, unexposed, alive, reporting, deletedAfter>>
    BY <1>6 DEF Removal, RemoveKills, RemoveTimestamp, RemoveMemory, CountEviction, clockVars, podVars, scrapeVars, bookVars
  <2> QED
    BY <1>6, <2>1, RemoveFrame
       DEF ClockInv, DeadlineInv, DueInv, OnlyScrapedSeriesEvicted
<1> QED
  BY <1>1, <1>2, <1>3, <1>4, <1>5, <1>6 DEF RecordStep, SweepStep, RecorderStep, Removal

(* So do scrapes, the clock and the life of pods, while no pod object      *)
(* takes the name of a deleted one.                                        *)
LEMMA ScrapeInvWorld ==
  ASSUME MaxUid = 1
  PROVE  TypeOK /\ ScrapeInv /\ (PodStep \/ Scrape \/ Tick \/ SetClockBack) => ScrapeInv'
<1> SUFFICES ASSUME TypeOK, ScrapeInv, PodStep \/ Scrape \/ Tick \/ SetClockBack
             PROVE  ScrapeInv'
  OBVIOUS
<1> USE DEF ScrapeInv
<1>0. /\ clock \in Nat /\ sinceScrape \in Nat /\ ScrapeInterval \in Nat /\ RecordBudget \in Nat
      /\ Grace \in Nat /\ ScrapeInterval + RecordBudget < Grace /\ Setback \in Nat
      /\ rec.timestamp \in Nat /\ None \notin Nat
      /\ \A p \in Pods : deletedAfter[p] \in Nat \cup {None}
      /\ \A k \in Tracked : lastSeen[k] \in Nat
  BY TimeAssumption, LabelAssumption DEF TypeOK, RecordCall, Tracked
<1>1. ASSUME NEW p \in Pods, PodDeleted(p) PROVE ScrapeInv'
  <2>1. /\ alive' = alive \ {p} /\ reporting' = {p}
        /\ UNCHANGED <<clock, sinceScrape, unexposed, lastSeen, deletedAfter, rec, sweep>>
    BY <1>1 DEF PodDeleted, clockVars, bookVars, scrapeVars
  <2> QED
    BY <2>1 DEF ClockInv, DeadlineInv, DueInv, OnlyScrapedSeriesEvicted, LastSeenLocked,
                Tracked, Recording
<1>2. ASSUME NEW p \in Pods, NotePodDeleted(p) PROVE ScrapeInv'
  <2>1. /\ deletedAfter' = [deletedAfter EXCEPT ![p] = clock + Grace]
        /\ p \in reporting /\ reporting' = reporting \ {p}
        /\ UNCHANGED <<clock, sinceScrape, unexposed, lastSeen, alive, rec, sweep>>
    BY <1>2 DEF NotePodDeleted, clockVars, scrapeVars
  <2>2. deletedAfter'[p] = clock + Grace /\ \A q \in Pods \ {p} : deletedAfter'[q] = deletedAfter[q]
    BY <2>1 DEF TypeOK
  <2>3. \A q \in alive : deletedAfter'[q] = None /\ q \notin reporting'
    BY <2>1, <2>2 DEF DeadlineInv, TypeOK
  <2>4. ASSUME NEW k \in unexposed, k.pod \in Pods, deletedAfter'[k.pod] # None
        PROVE  clock + ScrapeInterval < deletedAfter'[k.pod] + sinceScrape
    BY <1>0, <2>2, <2>4 DEF DeadlineInv
  <2>5. ASSUME Recording, rec.key.pod \in Pods, deletedAfter'[rec.key.pod] # None
        PROVE  rec.timestamp + RecordBudget + ScrapeInterval < deletedAfter'[rec.key.pod]
    <3>1. CASE rec.key.pod = p
      BY <1>0, <2>2, <2>5, <3>1 DEF ClockInv
    <3>2. CASE rec.key.pod # p
      BY <2>2, <2>5, <3>2 DEF DeadlineInv
    <3> QED BY <3>1, <3>2
  <2>6. DeadlineInv'
    BY <2>1, <2>3, <2>4, <2>5 DEF DeadlineInv, Recording
  <2> QED
    BY <2>1, <2>6 DEF ClockInv, DueInv, OnlyScrapedSeriesEvicted, LastSeenLocked, Tracked, Recording
<1>3. ASSUME NEW p \in Pods PROVE ~PodRecreated(p)
  BY LabelAssumption DEF PodRecreated, TypeOK
<1>4. CASE Scrape
  <2>1. /\ sinceScrape' = 0 /\ unexposed' = {}
        /\ UNCHANGED <<clock, lastSeen, deletedAfter, alive, reporting, rec, sweep>>
    BY <1>4 DEF Scrape, clockVars, podVars, bookVars
  <2> QED
    BY <1>0, <2>1 DEF ClockInv, DeadlineInv, DueInv, OnlyScrapedSeriesEvicted, LastSeenLocked,
                      Recording
<1>5. CASE Tick
  <2>1. /\ clock' = clock + 1 /\ sinceScrape' = sinceScrape + 1 /\ sinceScrape < ScrapeInterval
        /\ Recording => clock < rec.timestamp + RecordBudget
        /\ UNCHANGED <<unexposed, lastSeen, deletedAfter, alive, reporting, rec, sweep>>
    BY <1>5 DEF Tick, podVars, bookVars
  <2>2. ClockInv'
    <3>1. sweep.at = "scan" => sweep.now <= clock + 1
      BY <1>0 DEF ClockInv, TypeOK, SweepCall
    <3>2. \A k \in unexposed \cap Tracked : clock + 1 <= lastSeen[k] + RecordBudget + (sinceScrape + 1)
      BY <1>0 DEF ClockInv
    <3> QED BY <1>0, <2>1, <3>1, <3>2 DEF ClockInv, Tracked, Recording
  <2>3. DeadlineInv'
    BY <1>0, <2>1 DEF DeadlineInv, Recording
  <2> QED
    BY <2>1, <2>2, <2>3 DEF DueInv, OnlyScrapedSeriesEvicted, LastSeenLocked, Recording
<1>6. CASE SetClockBack
  <2>1. /\ clock' = clock - Setback /\ Setback <= clock /\ ~Recording /\ sweep.at # "scan"
        /\ UNCHANGED <<sinceScrape, unexposed, lastSeen, deletedAfter, alive, reporting, rec, sweep>>
    BY <1>6 DEF SetClockBack, podVars, bookVars, scrapeVars
  <2>2. ClockInv'
    BY <1>0, <2>1 DEF ClockInv, Tracked, Recording
  <2>3. DeadlineInv'
    BY <1>0, <2>1 DEF DeadlineInv, Recording
  <2> QED
    BY <2>1, <2>2, <2>3 DEF DueInv, OnlyScrapedSeriesEvicted, LastSeenLocked
<1> QED BY <1>1, <1>2, <1>3, <1>4, <1>5, <1>6 DEF PodStep

(* As long as no pod object takes the name of a deleted one, evict_stale   *)
(* never removes a series with a recorded increment that no scrape has     *)
(* shown, wherever the wall clock is set back to.                          *)
THEOREM EvictionAfterScrape ==
  ASSUME MaxUid = 1
  PROVE  Spec => []OnlyScrapedSeriesEvicted
<1>1. Init => ScrapeInv
  BY TimeAssumption
     DEF Init, ScrapeInv, ClockInv, DeadlineInv, DueInv, OnlyScrapedSeriesEvicted,
         LastSeenLocked, Recording, NoRecord, NoSweep
<1>2. TypeOK /\ HandsInv /\ ScrapeInv /\ [Next]_vars => ScrapeInv'
  <2>1. TypeOK /\ HandsInv /\ ScrapeInv /\ Next => ScrapeInv'
    BY ScrapeInvTasks, ScrapeInvWorld DEF Next
  <2>2. ScrapeInv /\ UNCHANGED vars => ScrapeInv'
    BY DEF vars, ScrapeInv, ClockInv, DeadlineInv, DueInv, OnlyScrapedSeriesEvicted,
           LastSeenLocked, Recording, Tracked
  <2> QED BY <2>1, <2>2
<1>3. ScrapeInv => OnlyScrapedSeriesEvicted
  BY DEF ScrapeInv
<1>4. TrackInv => HandsInv
  BY DEF TrackInv
<1> QED BY <1>1, <1>2, <1>3, <1>4, TypeCorrect, Tracking, PTL DEF Spec

=============================================================================
