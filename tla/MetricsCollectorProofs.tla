----------------------- MODULE MetricsCollectorProofs -----------------------
(***************************************************************************)
(* Theorems about MetricsCollector, for any pods, containers and restarts, *)
(* any TTL and grace period and any number of events.                      *)
(***************************************************************************)
EXTENDS MetricsCollector, TLAPS

(* A call that has not begun is typed; the unknown label set is a key. *)
LEMMA IdleTyped == UnknownKey \in SeriesKey /\ NoRecord \in RecordCall /\ NoSweep \in SweepCall
<1>1. UnknownKey \in SeriesKey
  BY DEF SeriesKey
<1>2. 1 \in MemoryTypes /\ [t \in MemoryTypes |-> 0] \in [MemoryTypes -> Nat]
  BY LabelAssumption DEF MemoryTypes
<1> HIDE DEF SeriesKey, UnknownKey, MemoryTypes
<1> QED BY <1>1, <1>2 DEF NoRecord, NoSweep, RecordCall, SweepCall

(* Every key has a memory series. *)
LEMMA MemoryLabelsTyped == \A k \in SeriesKey : MemoryLabels(k) \in MemorySeries
  BY DEF MemorySeries

(* The initial registry is typed. *)
LEMMA InitTyped == Init => TypeOK
<1> SUFFICES ASSUME Init PROVE TypeOK
  OBVIOUS
<1>1. memory \in [MemorySeries -> [MemoryTypes -> Nat \cup {None}]]
  BY DEF Init
<1>2. uid \in [Pods -> 1..MaxUid]
  BY LabelAssumption DEF Init
<1> QED
  BY <1>1, <1>2, IdleTyped DEF Init, TypeOK

(* Creating a series or reading one yields a value. *)
LEMMA GetOrCreateTyped == \A v \in Nat \cup {None} : GetOrCreate(v) \in Nat
  BY LabelAssumption DEF GetOrCreate

(* A removal of the memory series marks the event being recorded, and      *)
(* leaves it alone otherwise.                                              *)
LEMMA RemoveMemoryRec ==
  ASSUME RemoveMemory, rec \in RecordCall
  PROVE  \E b \in BOOLEAN : rec' = [rec EXCEPT !.bereft = b]
<1> DEFINE b == rec.bereft \/ (GaugeMade(sweep.type) /\ SharesMemorySeriesWith(rec.key, sweep.key))
<1>1. rec' = [rec EXCEPT !.bereft = b]
  BY DEF RemoveMemory
<1>2. b \in BOOLEAN
  BY DEF RecordCall, GaugeMade, SharesMemorySeriesWith
<1> QED BY <1>1, <1>2

(* Each step of the recorder, the sweeper, the pod cache, a scrape or the  *)
(* clock keeps the types.                                                  *)
LEMMA TypeStep == TypeOK /\ [Next]_vars => TypeOK'
<1> SUFFICES ASSUME TypeOK, [Next]_vars PROVE TypeOK'
  OBVIOUS
<1> USE DEF TypeOK
<1>1. CASE BeginEvent
  <2>1. PICK key \in Resolvable, kb \in MemoryValues :
          rec' = [at |-> "counter", key |-> key, timestamp |-> clock, kb |-> kb,
                  type |-> 1, overlap |-> key \in sweep.stale, bereft |-> FALSE]
    BY <1>1 DEF BeginEvent
  <2>2. key \in SeriesKey
    BY DEF Resolvable, SeriesKey
  <2>3. Figures \subseteq Nat /\ 1 \in MemoryTypes
    BY LabelAssumption DEF MemoryTypes
  <2>4. kb \in [MemoryTypes -> Nat]
    BY <2>3 DEF MemoryValues
  <2>5. rec' \in RecordCall
    BY <2>1, <2>2, <2>3, <2>4 DEF RecordCall
  <2> QED BY <1>1, <2>5 DEF BeginEvent, clockVars, podVars, registryVars, bookVars, scrapeVars, damageVars
<1>2. CASE KillsHandle
  BY <1>2, GetOrCreateTyped
     DEF KillsHandle, RecordCall, clockVars, podVars, bookVars, scrapeVars, damageVars
<1>3. CASE KillsInc
  BY <1>3 DEF KillsInc, RecordCall, clockVars, podVars, bookVars, scrapeVars, damageVars
<1>4. CASE GaugeHandle
  BY <1>4, GetOrCreateTyped, MemoryLabelsTyped
     DEF GaugeHandle, RecordCall, clockVars, podVars, bookVars, scrapeVars, damageVars
<1>5. CASE GaugePeak
  <2>1. /\ rec.key \in SeriesKey /\ rec.type \in MemoryTypes
        /\ rec.kb[rec.type] \in Nat
    BY DEF RecordCall
  <2>2. Bytes(rec.kb[rec.type]) \in Nat
    BY <2>1 DEF Bytes
  <2>3. memory' \in [MemorySeries -> [MemoryTypes -> Nat \cup {None}]]
    BY <1>5, <2>1, <2>2, MemoryLabelsTyped DEF GaugePeak
  <2>4. rec.type < MemoryTypeCount => rec.type + 1 \in MemoryTypes
    BY <2>1, LabelAssumption DEF MemoryTypes
  <2>5. rec' \in RecordCall
    BY <1>5, <2>4 DEF GaugePeak, RecordCall
  <2> QED BY <1>5, <2>3, <2>5 DEF GaugePeak, clockVars, podVars, bookVars, scrapeVars, damageVars
<1>6. CASE TimestampHandle
  BY <1>6, GetOrCreateTyped
     DEF TimestampHandle, RecordCall, clockVars, podVars, bookVars, scrapeVars, damageVars
<1>7. CASE TimestampSet
  BY <1>7 DEF TimestampSet, RecordCall, clockVars, podVars, bookVars, scrapeVars, damageVars
<1>8. CASE TouchLastSeen
  BY <1>8, IdleTyped DEF TouchLastSeen, RecordCall, clockVars, podVars, registryVars
<1>9. CASE DrainDue
  BY <1>9, IdleTyped DEF DrainDue, SweepCall, clockVars, podVars, registryVars, scrapeVars, damageVars
<1>10. CASE ScanStale
  <2>1. StaleKeys \subseteq SeriesKey
    BY DEF StaleKeys, Tracked
  <2>2. lastSeen' \in [SeriesKey -> Nat \cup {None}]
    BY <1>10 DEF ScanStale
  <2>3. sweep' \in SweepCall
    BY <1>10, <2>1, IdleTyped DEF ScanStale, SweepCall
  <2>4. (rec.overlap \/ (Recording /\ rec.key \in StaleKeys)) \in BOOLEAN
    BY DEF RecordCall, Recording
  <2>5. rec' = [rec EXCEPT !.overlap = rec.overlap \/ (Recording /\ rec.key \in StaleKeys)]
    BY <1>10 DEF ScanStale
  <2>6. rec' \in RecordCall
    BY <2>4, <2>5 DEF RecordCall
  <2> QED
    BY <1>10, <2>2, <2>3, <2>6 DEF ScanStale, clockVars, podVars, registryVars, scrapeVars, damageVars
<1>11. CASE RemoveKills
  <2>1. PICK key \in sweep.stale :
          /\ kills' = [kills EXCEPT ![key] = None]
          /\ sweep' = [sweep EXCEPT !.at = "timestamp", !.key = key,
                                    !.orphaned = MemorySeriesOrphaned(key)]
    BY <1>11 DEF RemoveKills
  <2>2. MemorySeriesOrphaned(key) \in BOOLEAN /\ key \in SeriesKey
    BY DEF MemorySeriesOrphaned, SweepCall
  <2>3. sweep' \in SweepCall
    BY <2>1, <2>2 DEF SweepCall
  <2> QED
    BY <1>11, <2>1, <2>2, <2>3
       DEF RemoveKills, clockVars, podVars, bookVars, scrapeVars, damageVars
<1>12. CASE RemoveTimestamp
  <2>1. 1 \in MemoryTypes
    BY LabelAssumption DEF MemoryTypes
  <2>2. sweep' \in SweepCall
    BY <1>12, <2>1 DEF RemoveTimestamp, AfterTimestamp, SweepCall
  <2> QED BY <1>12, <2>2 DEF RemoveTimestamp, clockVars, podVars, bookVars, scrapeVars, damageVars
<1>13. CASE RemoveMemory
  <2>1. sweep.key \in SeriesKey /\ sweep.type \in MemoryTypes
    BY DEF SweepCall
  <2>2. memory' \in [MemorySeries -> [MemoryTypes -> Nat \cup {None}]]
    BY <1>13, <2>1, MemoryLabelsTyped DEF RemoveMemory
  <2>3. sweep.type < MemoryTypeCount => sweep.type + 1 \in MemoryTypes
    BY <2>1, LabelAssumption DEF MemoryTypes
  <2>4. sweep' \in SweepCall
    BY <1>13, <2>3 DEF RemoveMemory, SweepCall
  <2>5. rec' \in RecordCall
    BY <1>13, RemoveMemoryRec DEF RecordCall
  <2> QED
    BY <1>13, <2>2, <2>4, <2>5 DEF RemoveMemory, clockVars, podVars, bookVars, scrapeVars, damageVars
<1>21. CASE CountEviction
  <2>1. sweep' \in SweepCall
    BY <1>21, IdleTyped DEF CountEviction, SweepCall
  <2> QED
    BY <1>21, <2>1 DEF CountEviction, clockVars, podVars, bookVars, scrapeVars, damageVars
<1>14. ASSUME NEW p \in Pods, PodDeleted(p) PROVE TypeOK'
  BY <1>14 DEF PodDeleted, clockVars, registryVars, bookVars, scrapeVars, damageVars
<1>15. ASSUME NEW p \in Pods, NotePodDeleted(p) PROVE TypeOK'
  BY <1>15, TimeAssumption DEF NotePodDeleted, clockVars, registryVars, scrapeVars, damageVars
<1>16. ASSUME NEW p \in Pods, PodRecreated(p) PROVE TypeOK'
  BY <1>16, LabelAssumption DEF PodRecreated, clockVars, registryVars, bookVars, scrapeVars, damageVars
<1>17. CASE Scrape
  BY <1>17 DEF Scrape, clockVars, podVars, registryVars, bookVars, damageVars
<1>18. CASE Tick
  BY <1>18 DEF Tick, podVars, registryVars, bookVars, damageVars
<1>19. CASE SetClockBack
  BY <1>19, TimeAssumption DEF SetClockBack, podVars, registryVars, bookVars, scrapeVars, damageVars
<1>20. CASE UNCHANGED vars
  BY <1>20 DEF vars
<1> QED
  BY <1>1, <1>2, <1>3, <1>4, <1>5, <1>6, <1>7, <1>8, <1>9, <1>10, <1>11, <1>12, <1>13, <1>21,
     <1>14, <1>15, <1>16, <1>17, <1>18, <1>19, <1>20
     DEF Next, RecordStep, SweepStep, PodStep

(* MetricsCollector keeps its types: counters and timestamps never go      *)
(* below zero and the loop over MEMORY_TYPES stays in bounds.              *)
THEOREM TypeCorrect == Spec => []TypeOK
  BY InitTyped, TypeStep, PTL DEF Spec

-----------------------------------------------------------------------------
(* While a sweep is at work on a key, the mutex keeps its answer to the    *)
(* question whether the memory series is orphaned true.                    *)
GateInv ==
  /\ sweep.at \in {"timestamp", "memory", "count"} =>
       (sweep.orphaned <=> MemorySeriesOrphaned(sweep.key))
  /\ sweep.at = "memory" => sweep.orphaned

(* The gate is asked on the way to the removals and last_seen stays as it  *)
(* is until they are done.                                                 *)
LEMMA GateStep == TypeOK /\ GateInv /\ [Next]_vars => GateInv'
<1> SUFFICES ASSUME TypeOK, GateInv, [Next]_vars PROVE GateInv'
  OBVIOUS
<1>1. CASE UNCHANGED <<sweep, lastSeen>>
  BY <1>1 DEF GateInv, MemorySeriesOrphaned, Tracked
<1>2. CASE TouchLastSeen
  BY <1>2 DEF TouchLastSeen, LastSeenLocked, GateInv
<1>3. CASE DrainDue \/ ScanStale \/ CountEviction
  <2>1. sweep'.at \in {"idle", "scan", "kills"}
    <3>1. CASE DrainDue
      BY <3>1 DEF DrainDue, NoSweep
    <3>2. CASE ScanStale
      BY <3>2 DEF ScanStale, NoSweep
    <3>3. CASE CountEviction
      BY <3>3 DEF CountEviction, NoSweep
    <3> QED BY <1>3, <3>1, <3>2, <3>3
  <2> QED BY <2>1 DEF GateInv
<1>4. CASE RemoveKills
  <2>1. PICK key \in sweep.stale :
          sweep' = [sweep EXCEPT !.at = "timestamp", !.key = key,
                                 !.orphaned = MemorySeriesOrphaned(key)]
    BY <1>4 DEF RemoveKills
  <2>2. Tracked' = Tracked
    BY <1>4 DEF RemoveKills, bookVars, Tracked
  <2>3. MemorySeriesOrphaned(key)' <=> MemorySeriesOrphaned(key)
    BY <2>2 DEF MemorySeriesOrphaned
  <2>4. /\ sweep'.at = "timestamp" /\ sweep'.key = key
        /\ sweep'.orphaned = MemorySeriesOrphaned(key)
    BY <2>1 DEF TypeOK, SweepCall
  <2>5. MemorySeriesOrphaned(sweep.key)' <=> MemorySeriesOrphaned(key)
    BY <2>2, <2>4 DEF MemorySeriesOrphaned
  <2> QED BY <2>4, <2>5 DEF GateInv
<1>5. CASE RemoveTimestamp \/ RemoveMemory
  <2>1. Tracked' = Tracked
    BY <1>5 DEF RemoveTimestamp, RemoveMemory, bookVars, Tracked
  <2>2. /\ sweep.at \in {"timestamp", "memory"}
        /\ sweep'.key = sweep.key /\ sweep'.orphaned = sweep.orphaned
        /\ sweep'.at = "memory" => sweep.orphaned
    BY <1>5 DEF RemoveTimestamp, RemoveMemory, AfterTimestamp, GateInv, TypeOK, SweepCall
  <2>3. MemorySeriesOrphaned(sweep.key)' <=> MemorySeriesOrphaned(sweep.key)
    BY <2>1, <2>2 DEF MemorySeriesOrphaned
  <2> QED BY <2>2, <2>3 DEF GateInv
<1> QED
  BY <1>1, <1>2, <1>3, <1>4, <1>5
     DEF Next, BeginEvent, RecordStep, KillsHandle, KillsInc, GaugeHandle, GaugePeak,
         TimestampHandle, TimestampSet, SweepStep, PodStep, PodDeleted, NotePodDeleted,
         PodRecreated, Scrape, Tick, SetClockBack, bookVars, vars

(* So the answer is true in every state. *)
LEMMA GateHolds == Spec => []GateInv
<1>1. Init => GateInv
  BY DEF Init, NoSweep, GateInv
<1> QED BY <1>1, GateStep, TypeCorrect, PTL DEF Spec

-----------------------------------------------------------------------------
(* Nothing leaks.  Besides the property itself, the induction needs to     *)
(* know what a sweep has already removed of the key it is working on, and  *)
(* that only a recorder in flight can have put it back: the mutex keeps    *)
(* last_seen as it is until the removals are done.                         *)

Held == Tracked \cup sweep.stale \cup (IF Recording THEN {rec.key} ELSE {})

MemoryTaken(t) ==
  \/ memory[MemoryLabels(sweep.key)][t] = None
  \/ Recording /\ MemoryLabels(rec.key) = MemoryLabels(sweep.key)

SweepInv ==
  /\ sweep.at \in {"idle", "scan"} => sweep.stale = {}
  /\ sweep.at \in {"timestamp", "memory", "count"} =>
       (kills[sweep.key] = None \/ (Recording /\ rec.key = sweep.key))
  /\ sweep.at \in {"memory", "count"} =>
       (lastTimestamp[sweep.key] = None \/ (Recording /\ rec.key = sweep.key))
  /\ sweep.at = "memory" => \A t \in MemoryTypes : t < sweep.type => MemoryTaken(t)
  /\ sweep.at = "count" /\ sweep.orphaned => \A t \in MemoryTypes : MemoryTaken(t)

CountersHeld ==
  \A k \in SeriesKey : (kills[k] # None \/ lastTimestamp[k] # None) => k \in Held

MemoryHeld ==
  \A m \in MemorySeries :
    (\E t \in MemoryTypes : memory[m][t] # None) => \E k \in Held : MemoryLabels(k) = m

LeakInv == SweepInv /\ CountersHeld /\ MemoryHeld

(* A step that touches neither sweep nor lastSeen and keeps the recorder   *)
(* on its key holds on to the same label sets.                             *)
LEMMA HeldKept ==
  ASSUME Recording, Recording', rec'.key = rec.key, UNCHANGED <<sweep, lastSeen>>
  PROVE  Held' = Held
  BY DEF Held, Tracked

(* A step of the recorder before its last one creates series of the label  *)
(* set it holds and of no other.                                           *)
LEMMA RecorderKeepsLeakInv ==
  ASSUME TypeOK, LeakInv,
         KillsHandle \/ KillsInc \/ GaugeHandle \/ GaugePeak \/ TimestampHandle \/ TimestampSet
  PROVE  LeakInv'
<1>1. /\ Recording /\ Recording' /\ rec'.key = rec.key /\ UNCHANGED <<sweep, lastSeen>>
      /\ rec.key \in SeriesKey
  BY DEF KillsHandle, KillsInc, GaugeHandle, GaugePeak, TimestampHandle, TimestampSet,
         Recording, bookVars, TypeOK, RecordCall
<1>2. Held' = Held /\ rec.key \in Held
  BY <1>1, HeldKept DEF Held
<1>3. /\ \A k \in SeriesKey \ {rec.key} : kills'[k] = kills[k]
      /\ \A k \in SeriesKey \ {rec.key} : lastTimestamp'[k] = lastTimestamp[k]
  BY <1>1 DEF KillsHandle, KillsInc, GaugeHandle, GaugePeak, TimestampHandle, TimestampSet,
              TypeOK
<1>4. \A m \in MemorySeries \ {MemoryLabels(rec.key)} : memory'[m] = memory[m]
  BY <1>1 DEF KillsHandle, KillsInc, GaugeHandle, GaugePeak, TimestampHandle, TimestampSet,
              TypeOK
<1>5. CountersHeld'
  BY <1>2, <1>3 DEF LeakInv, CountersHeld
<1>6. MemoryHeld'
  BY <1>2, <1>4 DEF LeakInv, MemoryHeld
<1>7. SweepInv'
  <2>1. sweep.key \in SeriesKey
    BY DEF TypeOK, SweepCall
  <2>2. ASSUME NEW t \in MemoryTypes, MemoryTaken(t) PROVE MemoryTaken(t)'
    <3>1. MemoryLabels(sweep.key) \in MemorySeries
      BY <2>1, MemoryLabelsTyped
    <3> QED BY <1>1, <1>4, <2>2, <3>1 DEF MemoryTaken
  <2>3. \A t \in MemoryTypes : MemoryTaken(t) => MemoryTaken(t)'
    BY <2>2
  <2> QED BY <1>1, <1>3, <2>1, <2>3 DEF LeakInv, SweepInv
<1> QED BY <1>5, <1>6, <1>7 DEF LeakInv

(* last_seen.retain hands the label sets it drops to the removals. *)
LEMMA ScanKeepsHeld ==
  ASSUME TypeOK, SweepInv, ScanStale
  PROVE  Held' = Held /\ SweepInv'
<1>1. sweep.stale = {} /\ StaleKeys \subseteq Tracked
  BY DEF SweepInv, ScanStale, StaleKeys
<1>2. Tracked' = Tracked \ StaleKeys
  BY <1>1, LabelAssumption DEF Tracked, ScanStale
<1>3. sweep'.stale = StaleKeys /\ sweep'.at \in {"idle", "kills"}
  BY DEF ScanStale, NoSweep, TypeOK, SweepCall
<1>4. rec'.key = rec.key /\ rec'.at = rec.at
  BY DEF ScanStale, TypeOK, RecordCall
<1>5. sweep'.at = "idle" => sweep'.stale = {}
  BY DEF ScanStale, NoSweep, TypeOK, SweepCall
<1>6. Held' = Held
  BY <1>1, <1>2, <1>3, <1>4 DEF Held, Recording
<1> QED BY <1>3, <1>5, <1>6 DEF SweepInv

(* One memory type is removed, and no other series appears. *)
LEMMA RemoveMemoryKeepsLeakInv ==
  ASSUME TypeOK, LeakInv, RemoveMemory
  PROVE  LeakInv'
<1> DEFINE m0 == MemoryLabels(sweep.key)
<1>1. /\ sweep.key \in SeriesKey /\ m0 \in MemorySeries /\ sweep.type \in MemoryTypes
      /\ memory \in [MemorySeries -> [MemoryTypes -> Nat \cup {None}]]
      /\ sweep.type \in Nat /\ MemoryTypeCount \in Nat
  BY MemoryLabelsTyped, LabelAssumption DEF TypeOK, SweepCall, MemoryTypes
<1>2. /\ UNCHANGED <<kills, lastTimestamp, lastSeen>> /\ sweep.at = "memory"
      /\ rec'.key = rec.key /\ rec'.at = rec.at
  BY RemoveMemoryRec DEF RemoveMemory, bookVars, TypeOK, RecordCall
<1>3. /\ sweep'.stale = sweep.stale /\ sweep'.key = sweep.key
      /\ \/ sweep'.at = "memory" /\ sweep'.type = sweep.type + 1
         \/ sweep'.at = "count" /\ ~(sweep.type < MemoryTypeCount)
  BY <1>2 DEF RemoveMemory, TypeOK, SweepCall
<1>4. Tracked' = Tracked /\ Recording' = Recording
  BY <1>2 DEF Tracked, Recording
<1>5. Held' = Held
  BY <1>2, <1>3, <1>4 DEF Held
<1>6. /\ memory'[m0][sweep.type] = None
      /\ \A m \in MemorySeries, t \in MemoryTypes : memory'[m][t] # None => memory[m][t] # None
  BY <1>1 DEF RemoveMemory
<1>7. CountersHeld' /\ MemoryHeld'
  BY <1>2, <1>5, <1>6 DEF LeakInv, CountersHeld, MemoryHeld
<1>8. ASSUME NEW t \in MemoryTypes, t <= sweep.type PROVE MemoryTaken(t)'
  <2>1. CASE t = sweep.type
    BY <1>3, <1>6, <2>1 DEF MemoryTaken
  <2>2. CASE t # sweep.type
    <3>1. t < sweep.type
      BY <1>1, <1>8, <2>2 DEF MemoryTypes
    <3>2. MemoryTaken(t)
      BY <1>2, <3>1 DEF LeakInv, SweepInv
    <3> QED BY <1>1, <1>2, <1>3, <1>4, <1>6, <3>2 DEF MemoryTaken
  <2> QED BY <2>1, <2>2
<1>9. ASSUME NEW t \in MemoryTypes PROVE t \in Nat /\ t <= MemoryTypeCount
  BY <1>1 DEF MemoryTypes
<1>10. SweepInv'
  <2>1. CASE sweep'.at = "memory" /\ sweep'.type = sweep.type + 1
    BY <1>1, <1>2, <1>3, <1>4, <1>8, <1>9, <2>1 DEF LeakInv, SweepInv
  <2>2. CASE sweep'.at = "count" /\ ~(sweep.type < MemoryTypeCount)
    <3>1. \A t \in MemoryTypes : MemoryTaken(t)'
      BY <1>1, <1>8, <1>9, <2>2
    <3> QED BY <1>2, <1>3, <1>4, <2>2, <3>1 DEF LeakInv, SweepInv
  <2> QED BY <1>3, <2>1, <2>2
<1> QED BY <1>7, <1>10 DEF LeakInv

(* When remove_series is done with a label set, nothing of it is left that *)
(* someone else does not hold.                                             *)
LEMMA CountEvictionKeepsLeakInv ==
  ASSUME TypeOK, LeakInv, GateInv, CountEviction
  PROVE  LeakInv'
<1> DEFINE m0 == MemoryLabels(sweep.key)
<1>1. /\ sweep.key \in SeriesKey /\ sweep.stale \subseteq SeriesKey /\ m0 \in MemorySeries
  BY MemoryLabelsTyped DEF TypeOK, SweepCall
<1>2. UNCHANGED <<kills, lastTimestamp, memory, lastSeen, rec>> /\ sweep.at = "count"
  BY DEF CountEviction, bookVars
<1>3. /\ sweep'.stale = sweep.stale \ {sweep.key}
      /\ sweep'.at \in {"idle", "kills"}
      /\ sweep'.at = "idle" => sweep'.stale = {}
  BY <1>1 DEF CountEviction, NoSweep
<1>4. Tracked' = Tracked /\ Recording' = Recording
  BY <1>2 DEF Tracked, Recording
<1>5. \A k \in Held : k # sweep.key => k \in Held'
  BY <1>2, <1>3, <1>4 DEF Held
<1>6. Recording => rec.key \in Held'
  BY <1>2, <1>4 DEF Held
<1>7. CountersHeld'
  BY <1>2, <1>5, <1>6 DEF LeakInv, CountersHeld, SweepInv
<1>8. ASSUME NEW t \in MemoryTypes, memory[m0][t] # None
      PROVE  \E k \in Held' : MemoryLabels(k) = m0
  <2>1. CASE sweep.orphaned
    <3>1. Recording /\ MemoryLabels(rec.key) = m0
      BY <1>2, <1>8, <2>1 DEF LeakInv, SweepInv, MemoryTaken
    <3> QED BY <1>6, <3>1
  <2>2. CASE ~sweep.orphaned
    <3>1. PICK live \in Tracked : MemoryLabels(live) = m0
      BY <1>2, <2>2 DEF GateInv, MemorySeriesOrphaned, SharesMemorySeriesWith
    <3>2. live \in Held'
      BY <1>4 DEF Held
    <3> QED BY <3>1, <3>2
  <2> QED BY <2>1, <2>2
<1>9. ASSUME NEW m \in MemorySeries, \E t \in MemoryTypes : memory'[m][t] # None
      PROVE  \E k \in Held' : MemoryLabels(k) = m
  <2>1. CASE m = m0
    BY <1>2, <1>8, <1>9, <2>1
  <2>2. CASE m # m0
    <3>1. PICK k \in Held : MemoryLabels(k) = m
      BY <1>2, <1>9 DEF LeakInv, MemoryHeld
    <3>2. k \in Held'
      BY <1>5, <2>2, <3>1
    <3> QED BY <3>1, <3>2
  <2> QED BY <2>1, <2>2
<1>10. MemoryHeld'
  BY <1>9 DEF MemoryHeld
<1>11. SweepInv'
  BY <1>3 DEF SweepInv
<1> QED BY <1>7, <1>10, <1>11 DEF LeakInv

(* Whatever record_oom_event and evict_stale do to each other, no series   *)
(* outlives both its last_seen entry and the call that holds it: the       *)
(* cardinality bound holds for every interleaving.                         *)
THEOREM NoSeriesLeaks == Spec => []NoLeakedSeries
<1>1. Init => LeakInv
  BY DEF Init, LeakInv, SweepInv, CountersHeld, MemoryHeld, NoSweep
<1>2. TypeOK /\ GateInv /\ LeakInv /\ [Next]_vars => LeakInv'
  <2> SUFFICES ASSUME TypeOK, GateInv, LeakInv, [Next]_vars PROVE LeakInv'
    OBVIOUS
  <2>1. CASE BeginEvent
    <3>1. /\ ~Recording /\ Recording' /\ UNCHANGED <<kills, lastTimestamp, memory, lastSeen, sweep>>
      BY <2>1 DEF BeginEvent, Recording, registryVars, bookVars
    <3>2. Held \subseteq Held'
      BY <3>1 DEF Held, Tracked
    <3> QED BY <3>1, <3>2 DEF LeakInv, SweepInv, MemoryTaken, CountersHeld, MemoryHeld
  <2>2. CASE KillsHandle \/ KillsInc \/ GaugeHandle \/ GaugePeak \/ TimestampHandle \/ TimestampSet
    BY <2>2, RecorderKeepsLeakInv
  <2>3. CASE TouchLastSeen
    <3>1. /\ Recording /\ UNCHANGED <<kills, lastTimestamp, memory, sweep>>
          /\ sweep.at \notin {"kills", "timestamp", "memory", "count"}
      BY <2>3 DEF TouchLastSeen, Recording, registryVars, LastSeenLocked
    <3>2. rec.key \in SeriesKey /\ rec.timestamp \in Nat
      BY DEF TypeOK, RecordCall
    <3>3. Tracked \cup {rec.key} \subseteq Tracked'
      BY <2>3, <3>2, LabelAssumption DEF Tracked, TouchLastSeen, TypeOK
    <3>4. Held \subseteq Held'
      BY <3>1, <3>3 DEF Held
    <3> QED BY <3>1, <3>4 DEF LeakInv, SweepInv, CountersHeld, MemoryHeld
  <2>4. CASE DrainDue
    <3>1. /\ UNCHANGED <<kills, lastTimestamp, memory, lastSeen, rec>>
          /\ sweep.at = "idle" /\ sweep'.at = "scan" /\ sweep'.stale = {}
      BY <2>4 DEF DrainDue, NoSweep, registryVars
    <3>2. Held' = Held
      BY <3>1 DEF Held, Tracked, Recording, LeakInv, SweepInv
    <3> QED BY <3>1, <3>2 DEF LeakInv, SweepInv, CountersHeld, MemoryHeld
  <2>5. CASE ScanStale
    <3>1. UNCHANGED <<kills, lastTimestamp, memory>>
      BY <2>5 DEF ScanStale, registryVars
    <3> QED BY <2>5, <3>1, ScanKeepsHeld DEF LeakInv, CountersHeld, MemoryHeld
  <2>6. CASE RemoveKills
    <3>1. PICK key \in sweep.stale :
            /\ kills' = [kills EXCEPT ![key] = None]
            /\ sweep' = [sweep EXCEPT !.at = "timestamp", !.key = key,
                                      !.orphaned = MemorySeriesOrphaned(key)]
      BY <2>6 DEF RemoveKills
    <3>2. /\ sweep'.at = "timestamp" /\ sweep'.key = key /\ sweep'.stale = sweep.stale
          /\ key \in SeriesKey /\ kills'[key] = None
          /\ \A k \in SeriesKey : kills'[k] # None => kills[k] # None
      BY <3>1 DEF TypeOK, SweepCall
    <3>3. Held' = Held /\ UNCHANGED <<lastTimestamp, memory>>
      BY <2>6, <3>2 DEF RemoveKills, bookVars, Held, Tracked, Recording
    <3> QED BY <3>2, <3>3 DEF LeakInv, SweepInv, CountersHeld, MemoryHeld
  <2>7. CASE RemoveTimestamp
    <3>1. /\ sweep.at = "timestamp" /\ sweep'.key = sweep.key /\ sweep'.stale = sweep.stale
          /\ \/ sweep'.at = "memory" /\ sweep'.type = 1
             \/ sweep'.at = "count" /\ ~sweep'.orphaned
          /\ sweep.key \in SeriesKey /\ lastTimestamp'[sweep.key] = None
          /\ \A k \in SeriesKey : lastTimestamp'[k] # None => lastTimestamp[k] # None
      BY <2>7 DEF RemoveTimestamp, AfterTimestamp, TypeOK, SweepCall
    <3>2. UNCHANGED <<kills, memory, lastSeen, rec>>
      BY <2>7 DEF RemoveTimestamp, bookVars
    <3>3. Held' = Held /\ Recording' = Recording
      BY <3>1, <3>2 DEF Held, Tracked, Recording
    <3>4. \A t \in MemoryTypes : ~(t < 1)
      BY DEF MemoryTypes
    <3> QED BY <3>1, <3>2, <3>3, <3>4 DEF LeakInv, SweepInv, CountersHeld, MemoryHeld
  <2>8. CASE RemoveMemory
    BY <2>8, RemoveMemoryKeepsLeakInv
  <2>9. CASE CountEviction
    BY <2>9, CountEvictionKeepsLeakInv
  <2>10. CASE UNCHANGED <<kills, lastTimestamp, memory, lastSeen, sweep, rec>>
    BY <2>10 DEF LeakInv, SweepInv, MemoryTaken, CountersHeld, MemoryHeld, Held, Tracked, Recording
  <2> QED
    BY <2>1, <2>2, <2>3, <2>4, <2>5, <2>6, <2>7, <2>8, <2>9, <2>10
       DEF Next, RecordStep, SweepStep, PodStep, PodDeleted, NotePodDeleted, PodRecreated,
           Scrape, Tick, SetClockBack, vars, registryVars, bookVars
<1>3. LeakInv => NoLeakedSeries
  BY DEF LeakInv, CountersHeld, MemoryHeld, NoLeakedSeries, Held
<1> QED
  BY <1>1, <1>2, <1>3, TypeCorrect, GateHolds, PTL DEF Spec

-----------------------------------------------------------------------------
(* While a restart of a container is tracked, the memory series it shares  *)
(* with the others is neither removed by the orphan gate nor lowered by a  *)
(* smaller figure.                                                         *)
THEOREM PeakSurvivesSiblings == Spec => MemoryPeakHeld
<1> DEFINE Holds(k, t) ==
      LET before == memory[MemoryLabels(k)][t]
          after  == memory'[MemoryLabels(k)][t]
      IN  (lastSeen'[k] # None /\ before # None) => (after # None /\ after >= before)
<1>1. ASSUME TypeOK, GateInv, Next, NEW k \in Tracked, NEW t \in MemoryTypes
      PROVE  Holds(k, t)
  <2>1. /\ k \in SeriesKey /\ MemoryLabels(k) \in MemorySeries
        /\ rec.key \in SeriesKey /\ MemoryLabels(rec.key) \in MemorySeries
        /\ sweep.key \in SeriesKey /\ MemoryLabels(sweep.key) \in MemorySeries
        /\ rec.type \in MemoryTypes /\ rec.kb[rec.type] \in Nat
    BY <1>1, MemoryLabelsTyped DEF Tracked, TypeOK, RecordCall, SweepCall
  <2>2. /\ memory \in [MemorySeries -> [MemoryTypes -> Nat \cup {None}]]
        /\ memory[MemoryLabels(k)][t] \in Nat \cup {None}
    BY <1>1, <2>1 DEF TypeOK
  <2>3. None \notin Nat
    BY LabelAssumption
  <2>4. CASE GaugeHandle
    BY <2>1, <2>2, <2>3, <2>4 DEF GaugeHandle, GetOrCreate
  <2>5. CASE GaugePeak
    <3>1. Bytes(rec.kb[rec.type]) \in Nat
      BY <2>1 DEF Bytes
    <3> HIDE DEF Bytes
    <3> QED BY <2>1, <2>2, <2>3, <2>5, <3>1 DEF GaugePeak
  <2>6. CASE RemoveMemory
    <3>1. MemoryLabels(k) # MemoryLabels(sweep.key)
      BY <1>1, <2>6 DEF RemoveMemory, GateInv, MemorySeriesOrphaned, SharesMemorySeriesWith
    <3>2. memory'[MemoryLabels(k)] = memory[MemoryLabels(k)]
      BY <2>1, <2>2, <2>6, <3>1 DEF RemoveMemory
    <3> QED BY <2>2, <2>3, <3>2
  <2>7. CASE UNCHANGED memory
    BY <2>2, <2>3, <2>7
  <2> QED
    BY <1>1, <2>4, <2>5, <2>6, <2>7
       DEF Next, BeginEvent, RecordStep, KillsHandle, KillsInc, TimestampHandle, TimestampSet,
           TouchLastSeen, SweepStep, DrainDue, ScanStale, RemoveKills, RemoveTimestamp,
           CountEviction, PodStep, PodDeleted, NotePodDeleted, PodRecreated, Scrape, Tick,
           SetClockBack, registryVars
<1>2. TypeOK /\ GateInv /\ [Next]_vars => [\A k \in Tracked, t \in MemoryTypes : Holds(k, t)]_vars
  BY <1>1
<1> QED
  BY <1>2, TypeCorrect, GateHolds, PTL DEF Spec, MemoryPeakHeld

=============================================================================
