# A TLA+ model of the OOM watcher

The OOM watcher is a per-node agent. An eBPF probe on the tracepoint
`oom:mark_victim` reports every process the kernel's OOM killer picks; a
userspace process resolves the victim's PID to a Kubernetes container and
exports Prometheus metrics about it. This directory models the parts of it that
several threads, tasks or CPUs share, checks them with TLC on small instances
and proves the main results with TLAPS for every instance.

## Inventory

| Component | State | Operations | Talks to |
|---|---|---|---|
| eBPF probe (`oom-watcher-ebpf/src/main.rs`) | `EVENTS` ring, `DROPPED` per-CPU counters | `mark_victim`, on any CPU | ring buffer source, through the two maps |
| Ring buffer source (`source.rs`) | `pending`, the `AsyncFd`'s readiness | `new`, `next`, `dropped_total` | epoll/tokio below, watch loop above |
| Watch loop (`watch.rs`) | position in its loop | `run`, `process_event` | source, resolver, recorder, heartbeat |
| Resolution (`resolve.rs`, `enrich.rs`, `kubernetes.rs`) | pod store, readiness latch | `resolve`, `identity_of`, `wait_until_synced`, the watch stream | API server, `/proc`, the collector (deletions) |
| Metrics collector (`metrics.rs`) | registry, `last_seen`, `deleted_after`, `last_dropped_total` | `record_oom_event`, `evict_stale`, `note_pod_deleted`, `record_dropped_total`, `get_metrics` | called by four tasks |
| Health (`health.rs`, `http.rs`) | `started`, `last_beat_seconds` | `mark_started`, `beat`, `liveness` | watch loop, kubelet |
| Supervisor (`main.rs`) | four task handles | start-up, `select!`, shutdown | everything |
| Tracepoint layout (`tracepoint.rs`) | none | `check_layout`, `parse_format` | kernel's `format` file |

What is hard here: the kernel, the reactor and the watch loop meet at an
edge-triggered readiness bit; `record_oom_event` and `evict_stale` work on the
same label sets from two threads and synchronise on one mutex that covers only
part of the first; eviction must lose to the scraper and win against
cardinality; pod names outlive pods; the pod cache lags and can miss events; and
every task's end must end the process.

What makes each part correct:

- *event path*: every kill is recorded once, in order, or counted as dropped;
  the loop never sleeps on a readable ring; drops get reported.
- *collector*: no series leaks, no live series is damaged, peaks survive the
  eviction of a sibling, nothing is evicted unscraped, everything goes in the
  end.
- *resolution*: an identity names the container that was killed; a miss means
  there is none; an unsynced cache is an error and never a miss.
- *health*: a running loop is not reported stale, a stuck one is.
- *supervisor*: the process does not outlive any of its workers.

## Modules

| Module | Stands for |
|---|---|
| `LossyFifo` | what the event path promises: kills are accepted or lost at once, accepted ones delivered once and in order while the consumer runs |
| `EventPath` | probe, ring, reactor, `RingBufSource`, watch loop, `record_dropped_total` |
| `EventPathProofs` | theorems about `EventPath` |
| `MetricsCollector` | `record_oom_event`, `evict_stale`, `note_pod_deleted` and scrapes, under the tasks that call them |
| `MetricsCollectorProofs` | theorems about `MetricsCollector`: types, leaks, memory peaks |
| `MetricsSweepProofs` | what the sweeper and the recorder leave to each other, and to the scraper |
| `PodCache` | the watch stream, the pod store, and the resolution of a PID against it |
| `PodCacheProofs` | theorems about `PodCache`: types, the identity that is found |
| `PodMirrorProofs` | the store as a view of the API server, deletions, victims that must be found |
| `Supervisor` | `main`, the heartbeat, `/healthz`, and the kubelet that probes and restarts the container |
| `SupervisorProofs` | theorems about `Supervisor`: types, the alarm, the exit |
| `SupervisorProbeProofs` | why the liveness probe spares a container whose loop runs |
| `TracepointLayout` | `parse_format`, `check_layout`, `verify_kernel_layout` and the probe's struct, as operators |
| `ContainerId` | `extract_container_id` and its patterns, as operators |
| `KernelText` | the kernel as the author of both texts; checks the operators above on what it writes |
| `KernelTextProofs` | the operators against their references, for texts of any length |
| `MCMetricsCollector`, `MCSupervisor` | TLC instances (symmetry sets, negative numbers) |

Operators called "Mutant of X" next to X are plausible wrong versions of it.
They are part of no specification; each shows that some property can fail.

### EventPath

A kill is a number. `ring` holds the records the probe has reserved, each
committed or not; `probe[c]` is the record CPU `c` is still writing. `Reserve`
and `Commit` are the two halves of `EVENTS.output`, which other CPUs can
separate; `Drop` is its failure. A commit wakes epoll only for the record the
consumer is waiting for (the oldest), as the ring does with flags 0; the edge
becomes tokio readiness when the reactor runs (`Deliver`). `task` is the
position of the watch loop: `Readable` takes the readiness guard, `DrainOne`
and `DrainedEmpty` are the `while let`, `ClearReady` is `guard.clear_ready()`,
which in tokio clears only the readiness the guard was taken for (`fresh` tells
whether a newer one came). `TickerWins` is the other arm of the `select!`.
`ReportDropped` is `dropped_total` and `record_dropped_total`.

`CpuOffline` and `CpuOnline` let a reading of `DROPPED` miss part of the sum, the
case the comment above `record_dropped_total` is written for. Whether the kernel
and aya ever produce it is outside this repository. `misread` is history: some
reading did. Only `DropsReportedWhenQuiet` excepts it.

A kill whose fields the probe cannot read makes `mark_victim` return before the
ring and before `DROPPED`: nothing in the code counts it. `unread` is there for
`NothingLost` to name these kills, not to show that they are reported.

Bounds: `MaxKills` caps the kills; with a ring of `RingSlots` 2 and 5 kills the
ring fills, drops and drains more than once.

### MetricsCollector

A label set (`SeriesKey`) is a pod name, a container name and a container id; an
id is a pod object and a restart in it, so that ids are never reused while pod
names are (`PodRecreated`). Families are functions from label sets, `None` where
there is no series. `rec` is the call of `record_oom_event` in progress and
`sweep` that of `evict_stale`, each cut where a lock is released: a metric
family's lock around `with_label_values` and `remove_label_values`, the mutex of
`deleted_after`, the mutex of `last_seen` (`LastSeenLocked`: from the scan to the
end of the removals). The sweep asks whether a sibling is still tracked before it
takes a label set's first series (`orphaned`), removes one memory type at a time
(`RemoveMemory`) and counts the eviction last (`CountEviction`). A handle taken
before a removal updates nothing a scrape can see.

Time is in units, not seconds: only the order of `ScrapeInterval`,
`RecordBudget`, `Grace` and `TTL` matters. `TimeAssumption` states what
`metrics.rs` and the README ask of the configuration (both delays exceed the
scrape interval), with room for an event in flight. The sweeper may run at any
time, which includes every sweep interval. `unexposed`, `overlapped` and `bereft`
are history: label sets with an unscraped increment; label sets last recorded while
a sweep was removing those very label sets; and label sets whose memory series a
sweep took with a stale sibling, after it was written and before they were
tracked. `SetClockBack` sets the wall clock back by
`Setback` units; the scrapes go on by their own clock (`sinceScrape`). It is left
out while an event is being recorded, whose time is measured by the same clock
in the model, and between a sweep's reading of the clock and its scan, which
would make a long-gone `now` the sweep's. A clock set *forward* by more than the
TTL evicts everything at once, by the design of a TTL on wall-clock time; it is
not modelled.

Bounds: `MaxEvents`, `MaxUid`, `MaxEventTime`, `MaxTime`. Two events suffice for
every interaction of one recording with one sweep and an earlier series; with a
`TTL` of 3 and a clock up to 5 or more a series ages out while another is fresh.
In `metrics_eviction` the clock is set back once, by a whole `TTL`, so that times
ahead of `now` are in both bookkeeping maps; the other runs leave it alone.

### PodCache

A pod has one container; an instance of it is a pod object and a restart in it,
and its container id names exactly that. `node` is what the kubelet runs, `api`
what it has reported, `wire` the watch events on their way, `store` what the
lookup reads: four copies of the truth, each later than the one before. The
watcher lists (`ListPods`, `InitApply`, `InitDone`, through the reflector's
buffer), then applies watch events; `WatchFails` is a list that fails half-way
or a watch that has expired, and leads to a new list, as
`default_backoff` and kube's watcher do. A watch error that resumes from where
the watch was needs no action: no event is lost.

`event` is the kill the watch loop is at. Between the kill and the read of
`/proc/<pid>/cgroup` the victim may be reaped and its PID given to another
process (`PidReused`; the code cannot tell, since nothing but the PID ties
`/proc/<pid>` to the victim, and the properties name the case: `event.reused`);
between that read and the lookup the cache's task may run, since the two tasks
are on different threads. `SyncWaitOver` may come before the store is ready: the
timeout. `NoContainerId`, `CgroupUnreadable`, `LookUpUnsynced` and `LookUp` are
the ways to the three outcomes. The patterns of `extract_container_id` are
reduced here to what they are for: a container's cgroup yields its id, any other
yields nothing. `ContainerId` has the patterns.

Bounds: in `pod_cache`, `MaxRestarts` 3 lets a kill be overtaken by one restart
and by two (one more than `lastState` remembers), `MaxUid` 2 lets a pod be
recreated, one failure of list or watch lets a relist meet a store that is not
empty. One kill is enough: a resolution leaves nothing behind but a counter.
`pod_cache_mirror` is about the store alone: two pods, so that a list can fail
between them, each recreated once and updated once, and no kill. The behaviours
end when the bounds are used up, hence no deadlock check: a node without pods is
idle.

### Supervisor

`stage` is where `main` is: `connect`, `bind`, `attach` and `spawn` are the
parts of the start-up in their order, `supervise` is the `select!`, `drop` the
time from leaving it to the end of the process, when the runtime waits for
tasks to reach an await. `tasks` are the four `JoinHandle`s; in standalone mode
there is no pod cache and its handle is never ready. `loop` is the event
processor: the wait for the cache, the two stores of `mark_started` as two steps
(`Seed`, `MarkStarted`), the `select!`, the processing of an event. `/healthz` is
three steps, as `health_handler` and `liveness` read: the clock
(`ProbeAccepted`), `started` (`LoadStarted`), the heartbeat (`LoadBeat`).

Nothing depends on the time of day, so clocks are differences: `age` is the wall
clock minus the last heartbeat, `toTick` the monotonic time to the ticker's next
deadline, overdue when negative. `ClockStep` sets the wall clock, also between a
probe's reading of the clock and its reading of the heartbeat. `Tick` lets a unit
of time pass unless something is `Urgent`: the start-up, a ready `select!` arm and
a probe take less than a unit, and the scheduler runs a ready loop within
`MaxDelay`.

The kubelet is external: it probes from `initialDelaySeconds` on, counts
failures, sends SIGTERM at the threshold or on a rollout, SIGKILL after the grace
period, and restarts the container. Before `shutdown_signal` is polled, SIGTERM
has its default disposition (`DefaultDisposition`). `Panic` ends the process at any
time: the profiles abort. `Wedge` is an event's handling that blocks; it may go on
again, and nothing says that it must.

`jumped` (the clock was set since the last beat) and `stuck` (the loop was stuck at
some time since a probe last succeeded, or when the SIGTERM was sent) are history,
for the properties only.

One unit is 15 seconds and the constants are the crate's and the chart's: beats
every 30 s, stale after 90, probes every 30 s from 30 s on, three failures, 30 s of
grace, and the 10 s of `CACHE_SYNC_TIMEOUT` rounded up to one unit. The wall clock is set once, by two minutes either way: more than the
limit. `Horizon` caps the age where no further step can bring it back below the
limit, at any moment of the life of any container. Restarts go on for ever; the
state space is finite without any other bound.

### TracepointLayout, ContainerId, KernelText

A format file is a sequence of lines, a declaration a sequence of tokens and
attributes key-value pairs; a cgroup file is a sequence of tokens, where a run of
exactly 64 hex digits, a longer one, a runtime's name and `kubepods` are tokens.
White space and digits are abstracted, the order of evaluation is not: the first
line with the name, the first attribute with the key, the last token of the
declaration, the first pattern that matches, its leftmost match.

`KernelText` produces the inputs. The kernel's developers start from the 6.9
tracepoint or the one before it and remove, add, retype, redeclare or swap fields
(`MaxEdits`); the entry's offsets follow from C's alignment. `LayoutVerdictExact`
compares the check's verdict with the definition of being right, the offsets of
the probe's own `#[repr(C)]` struct, which is in another crate, where nothing
but a comment ties it to `REQUIRED_FIELDS`. The cgroup drivers append delimited segments
(`MaxSegments`); `IdAsDocumented` compares the three patterns with the precedence
their comment states. Two edits allow one that undoes what another did; four
segments hold a runtime's id, one below `kubepods`, another one and a line break.
Being right is a matter of place, name and size: a field redeclared as another kind
of the same size is told apart neither by `check_layout` nor here.
The two texts do not interact, so each is varied with the other at its start.

## Runs

| Run | Result | Shows |
|---|---|---|
| `event_path` | pass | kill order, no uncounted loss of a kill that was read, no stranded record, drops reported once the path is quiet, the drop counter never goes down when the sum does; `EventPath` implements `LossyFifo`, liveness included |
| `event_path_inflated` | violation | after the sum fell and recovered, the counter exceeds the drops |
| `metrics_registry` | pass | no leak, tracked series exist but for the two cases the violations show, memory peaks held, evictions counted once, with pods recreated |
| `metrics_eviction` | pass | no series is evicted unscraped if pod names are not reused, and everything is evicted in the end, also when the clock is set back; two restarts, two memory types |
| `metrics_lost_increment` | violation | `record_oom_event` racing a sweep leaves `last_seen` without a series |
| `metrics_shared_memory` | violation | a restart being recorded loses the memory series it shares to the eviction of a stale sibling |
| `metrics_recreated` | violation | a pod recreated under its name loses a series unscraped |
| `pod_cache` | pass | an identity is the killed restart's; a container the store knew resolves across one restart |
| `pod_cache_mirror` | pass | the store plus the events on their way is the API server's state; pods leave a watched store only reported; after failing lists and watches the store converges |
| `pod_cache_missed` | violation | a pod deleted while the watch is down is not reported |
| `supervisor` | pass | a stale heartbeat is a stuck loop; the probe kills no container whose loop runs; a stuck loop is replaced; the process does not outlive a worker; how it ended says why |
| `kernel_text` | pass | the start-up check names exactly the fields that are not at the offset and of the width the probe's struct has them; the container id is the one the comment on the patterns promises |

The violations are the findings of `PROJECT.json`:

- `record_dropped_total` swaps the lower total in before it rejects it, so the
  recovery is counted again.
- Holding `last_seen` across the removals protects a label set from being
  touched during a sweep, not from having been incremented before the touch. The
  window is one event wide and needs a series at its TTL (or a deleted pod's)
  killed again at that moment; `TrackedSeriesExist` shows that no other label set
  loses its kills or its timestamp by it, and `NoLeakedSeries` that the remains are
  swept.
- The memory series leave out the container id, so restarts share them, and they
  go with the last restart that `last_seen` tracks. A restart whose first kill is
  being recorded has written them but is not tracked yet: when a sweep evicts its
  stale sibling at that moment, the restart ends up tracked without a memory
  series until its next kill. `TrackedSeriesExist` excepts exactly that
  (`bereft`), `MemoryPeakHeld` covers the restarts that are tracked already.
- `deleted_after` is keyed on the pod's name and never cancelled.
- A relist replaces the store without `Delete` events, so a deletion that falls
  into the gap is never passed to `note_pod_deleted`; the TTL still evicts its
  series.

Met while modelling, with no run of their own:

- The store being synced means that the first list has landed, not that it is up
  to date, so a miss for a container that runs on the node is possible, although
  `kubernetes.rs:258` calls it "a real miss".
- `liveness` subtracts two readings of the wall clock, so a clock set forward by
  more than 90 s makes a loop that is parked in its `select!` read as stale until
  its next beat, although `health.rs:13` says a stale heartbeat proves a loop that
  is not scheduled or blocked. `AlarmMeansWedged` therefore excepts a clock that
  was set, and `NeverKilledNeedlessly` shows that the failure threshold absorbs it:
  the beat comes before the third failure.
- The comment at `metrics.rs:332` says a backward step "merely delays eviction by
  one sweep"; it delays it by as long as the step was (`SetClockBack`). Nothing
  is lost by it.
- `verify_kernel_layout` takes the absence of *moved* fields for the pre-6.9
  tracepoint, so a kernel that only drops the last field is refused with the
  advice to use 6.9. The field is named all the same.

## Fairness

`EventPath`: the reactor and the watch loop's task are scheduled (weak
fairness), a CPU that reserved a record commits it, and `select!` does not pass
over a ready source forever: tokio polls its branches in random order and the
ticker is due once in 30 seconds, hence strong fairness for the two ways
`next()` advances. `ReadinessFails` is possible at any time and has no fairness.
`MetricsCollector`: the watch loop, the sweeper and the pod cache's task are
scheduled, Prometheus scrapes, time passes. Kills, deletions and recreations are
never forced. `PodCache`: the cache's task and the watch loop are scheduled, and
a list or watch is answered in the end (failures are finitely many:
`MaxRelists`); the cluster, the victim and the PID allocator owe nothing, and no
failure is forced. `Supervisor`: tokio schedules `main` and the loop, the kubelet
does its work, time passes. A stuck loop owes nothing, nor does any fault or the
end of one; that is why `NotWedgedForever` has to come from the kubelet.
`KernelText` has no liveness.

## Proofs

TLAPS proves, for every value of the constants that satisfies the `ASSUME`s:

- `EventPathProofs`
  - `TypeCorrect`.
  - `NeverParksOnARecord`. `NoStrandedRecord` alone says nothing about the drain;
    `WakeInv` adds that readiness is set during a drain and that, between reading
    the ring empty and clearing, a record that becomes readable leaves an edge or
    a newer readiness behind.
  - `NoDropUnreported`, by `DropInv`: as long as no reading missed a share of the
    sum, an unreported drop leaves a record in the ring, an event pending or one
    being processed.
  - `DropCounterMonotone`.
  - `NoKillLost` and `RecordedInOrder`, both from one description of what a step
    does to the kills on their way (`TransitStep`): append the newest, take the
    oldest, or nothing; `CurrentInv` says when `process_event` holds one.
  - `EventPathRefinesFifo`: the safety half of `ImplementsFifo`.
- `MetricsCollectorProofs`
  - `TypeCorrect`.
  - `NoSeriesLeaks`, by `LeakInv`: while a sweep works on a label set, the parts
    it has removed are absent unless the recorder in flight put them back.
  - `PeakSurvivesSiblings`, by `GateInv`: the answer to whether a tracked sibling is
    left stays true until the memory series are gone, since nothing is touched while
    the sweep holds `last_seen`. `NoSeriesLeaks` needs it as well.
- `MetricsSweepProofs`
  - `DamageConfined` (`TrackedSeriesExist`), by `TrackInv`. `HandsInv` says that
    what the sweeper has in hand is no longer tracked and that the recording of a
    label set among it is marked; `RemoveSpares`, that a removal takes from any other
    label set at most the memory series. `RecordInv` says which counters a recording
    has made so far unless it is marked, and which gauges unless they were taken with
    a sibling; so a touch of `last_seen` finds every part but for these two cases
    (`CompleteInv`), which `metrics_lost_increment` and `metrics_shared_memory` show
    to be real.
  - `EvictionsCountedOnce` (`EvictionsAccounted`). The sum alone is not inductive:
    the touch at the end of a recording adds a label set to it. `AccountInv` keeps
    one kill to spare from the counter's increment to the touch.
  - `EvictionAfterScrape` (`OnlyScrapedSeriesEvicted`), by `ScrapeInv`: a label set
    with an unscraped increment was touched no longer ago than an event and a scrape
    may take (`ClockInv`), its pod's deadline lies a scrape ahead (`DeadlineInv`), and
    a pod that is already due is out of every event's reach (`DueInv`). It holds
    through settings back of the clock, which `SetClockBack` may take. The
    hypothesis `MaxUid = 1` (no pod is recreated under its name) is needed:
    `metrics_recreated` is the counterexample without it.
- `PodCacheProofs`
  - `TypeCorrect`. `TypeOK` needs `ClusterInv` (a container on the node has a pod
    object, and no restart is reported before it happened) and `CountInv` (a kill
    is counted as a failure at most once).
  - `IdentityIsVictims`, by `VictimInv`: until the PID is given away `/proc` shows
    the victim or nothing, so the id looked up is the victim's, and both passes
    return the id they were given.
- `PodMirrorProofs`, all from `ViewInv`, which says of each pod's views in the order
  store, list, wire, API server what it says of neighbours in that order
  - `StoreMirrorsApi` (`MirrorsApi`): the last event on the wire, or without one the
    list, is what the API server has (`MirrorInv`), also during a list.
  - `NoWatchedDeletionMissed` (`WatchedDeletionsReported`), an action property: the
    next event concerns the very object the store shows (`ChainInv`), so an object
    is replaced or removed only by its own deletion.
  - `KnownVictimResolves` (`KnownContainerResolves`): as long as the object lives,
    later views show the same object and no earlier restart (`OrderInv`), and a
    view carries the restart before the one that runs (`SoundInv`); so a store that
    knew the victim still does after one more restart (`StillKnown`).
- `SupervisorProofs`, for every choice of intervals, thresholds and clock steps in
  which one beat and the scheduler's delay fit into the limit
  - `TypeCorrect`. `TypeOK` needs `CountInv`: a container that is not being
    terminated is below its failure threshold.
  - `AlarmSound`, by `HeartInv`. What `AlarmMeansWedged` says of the moment of a
    verdict follows from what holds all the time: `started` is only seen with the
    seed heartbeat behind it, and, unless the clock was set, the last beat of a
    loop that is not stuck is as recent as the ticker's deadline makes it
    (`Recent`), which is within `BeatInterval + MaxDelay`.
  - `ExitExplained`, by `ExitInv`: time passes after a SIGTERM only while the loop
    is stuck, since everything else in `main` and in the drop is immediate.
- `SupervisorProbeProofs`
  - `HealthyLoopSpared` (`NeverKilledNeedlessly`), for `ProbeSettings`: the first
    probe comes after `CACHE_SYNC_TIMEOUT`, the failures needed span more than a late
    beat, and the clock is set at most once. `StartInv` says that there is no probe
    before the loop has started. `StreakInv` accounts for a run of failures on a loop
    that is not stuck: either no beat came since the clock was set, and the run fits
    into the ticker's interval (`Unbeaten`), or one came and the next probe sees it
    (`Recovered`), unless it overtook the probe being served (`Overtaken`). The
    chart's settings satisfy `ProbeSettings`. The last hypothesis is needed: with
    two settings of the clock TLC finds a healthy container killed, the second
    setting undoing what the beat between them had put right.
- `KernelTextProofs`
  - `IdExtraction` (`IdAsDocumented`), for files of any length: where a pattern
    matches (`MatchIs` and one lemma for each pattern), that the leftmost match is
    the one taken (`FirstMatch`), and that the first pattern that matches at all is
    the one with the precedence the comment gives it (`RankIs`, `BestPlace`). The
    invariant needed of the file is only its type.
  - `VerdictExact` (`LayoutVerdictExact`), for any number of edits and any sizes. The
    invariant `EntryInv` says that no two fields have one name, since the check takes
    the first line with a name. `OffsetsAre` gives the offsets C's alignment yields
    for an entry of any length, `FieldsFound` what `parse_format` reads back from the
    file written for them, `JudgeIs` the verdict on one field, `RequiredAsDecoded`
    that `REQUIRED_FIELDS` are the offsets of the probe's own struct.

`Offsets` is a recursive function, and the library's induction theorems, which take
a predicate, cannot be instantiated here. `MinOfNat` and `UpTo` give induction the
form the provers can use: a set of numbers that has 0 and the successor of each of
its members has them all.

Only model-checked: the liveness results (`ImplementsFifo`'s fairness,
`EventuallyNoSeries`, `EventuallyMirrors`, `NotWedgedForever`,
`WorkerDeathEndsProcess`), which the prover cannot handle. Every invariant and
every action property of a passing run is proved. The five violations are found by
TLC and need no proof.

## Plan

Every component with state is modelled and its safety proved. What is left, in
this order:

1. A pod of several containers in `PodCache`, where the lookup's two passes go over
every container before the second one starts, with the proofs carried over.
2. Safety lemmas behind the liveness results, such as that a sweep in hand always
shrinks and that a relist always comes nearer its end.

## Not modelled

Text: log lines, metric help, the exposition format, the HTTP bodies, error
wording. Building and loading the eBPF object, the memlock limit, container
images, Helm charts and scripts. `kilobytes * 1024` in 64 bits, which no kernel
figure can overflow. `enrich`, beyond the label set it produces. `env_seconds`: the
TTL is a constant of at least one. Build scripts. Poisoned mutexes: both profiles abort on panic.
