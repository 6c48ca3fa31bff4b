----------------------------- MODULE Supervisor -----------------------------
(***************************************************************************)
(* The process as a whole, and the kubelet that looks after it:            *)
(*                                                                         *)
(*   - main brings the parts up in order, spawns the tasks and ends with   *)
(*     the first of them that ends, or with a signal (main.rs);            *)
(*   - the watch loop stamps a heartbeat on every wakeup (watch.rs);       *)
(*   - /healthz turns the heartbeat's age into the probe's answer          *)
(*     (health.rs, http.rs);                                               *)
(*   - the kubelet probes, terminates, kills and restarts the container.   *)
(*                                                                         *)
(* Time passes in units.  Nothing depends on the time of day, so the       *)
(* clocks are kept as differences: the heartbeat's age by the wall clock,  *)
(* which may be set, and the ticker's and the kubelet's next deadline by   *)
(* the monotonic clock, which may not.                                     *)
(***************************************************************************)
EXTENDS Integers

CONSTANTS
  BeatInterval,      \* HEARTBEAT_INTERVAL_SECONDS
  SyncTimeout,       \* CACHE_SYNC_TIMEOUT
  MaxDelay,          \* how late the scheduler may run a task that is ready
  InitialDelay,      \* the liveness probe's initialDelaySeconds,
  Period,            \* its periodSeconds
  FailureThreshold,  \* and its failureThreshold
  Grace,             \* terminationGracePeriodSeconds
  StepSizes,         \* by how much the wall clock can be set, either way
  MaxSteps           \* bound: how often it is

StaleAfter == 3 * BeatInterval

ASSUME TimingAssumption ==
  /\ BeatInterval \in Nat \ {0} /\ SyncTimeout \in Nat /\ MaxDelay \in Nat
  /\ InitialDelay \in Nat /\ Period \in Nat \ {0} /\ FailureThreshold \in Nat \ {0}
  /\ Grace \in Nat \ {0} /\ StepSizes \subseteq Int /\ MaxSteps \in Nat
  /\ BeatInterval + MaxDelay <= StaleAfter

Tasks == {"pod_cache", "metrics_server", "event_processor", "series_sweeper"}

VARIABLES
  stage,      \* where main is
  tasks,      \* the JoinHandles: "none", "running", "ended" or "aborted"
  exit,       \* how the process ended
  signalled,  \* a SIGTERM has been delivered
  loop,       \* where the event processor's task is
  waited,     \* how long it has been in wait_until_synced
  toTick,     \* time to the ticker's next deadline, negative when overdue
  started,    \* Health::started
  age,        \* the wall clock minus Health::last_beat_seconds
  probe,      \* the /healthz request being served
  kubelet,    \* the kubelet's probe worker and termination
  steps,      \* counts towards MaxSteps
  jumped,     \* history: the clock was set, and the loop has not beaten since
  stuck       \* history: the loop has been stuck since a probe last succeeded
              \* or the SIGTERM was sent

mainVars   == <<stage, tasks, exit, signalled>>
loopVars   == <<loop, waited, toTick, started, age>>
outerVars  == <<probe, kubelet, steps, jumped, stuck>>
vars == <<stage, tasks, exit, signalled, loop, waited, toTick, started, age,
          probe, kubelet, steps, jumped, stuck>>

(* An age beyond the horizon stays beyond the limit whatever the clock is  *)
(* still set to; last_beat_seconds is built as zero, the epoch.            *)
Horizon == StaleAfter + 1 + MaxSteps * BeatInterval * 4
Aged(n) == IF n > Horizon THEN Horizon ELSE n

NoProbe == [at |-> "none", set |-> 0]
NotTerminating == -1

Stages == {"connect", "bind", "attach", "spawn", "supervise", "drop", "down"}
LoopStates ==
  {"none",    \* not spawned
   "sync",    \* wait_until_synced
   "mark",    \* in mark_started, nothing stored
   "seeded",  \* in mark_started, the heartbeat stored
   "select",  \* in the select!
   "busy",    \* in process_event
   "wedged",  \* in process_event and not getting on
   "ended"}   \* the source ended

NoTasks == [t \in Tasks |-> "none"]

(* Of a fresh container.  The phase of the probes is the kubelet's own.    *)
FreshKubelets ==
  [probeIn: InitialDelay .. (InitialDelay + Period - 1), fails: {0}, term: {NotTerminating}]

Init ==
  /\ stage = "connect" /\ tasks = NoTasks /\ exit = "none" /\ signalled = FALSE
  /\ loop = "none" /\ waited = 0 /\ toTick = 0 /\ started = FALSE /\ age = Horizon
  /\ probe = NoProbe /\ kubelet \in FreshKubelets
  /\ steps = 0 /\ jumped = FALSE /\ stuck = FALSE

-----------------------------------------------------------------------------
(* main *)

(* The process is gone, and its memory with it. *)
Gone(why) ==
  /\ stage' = "down" /\ exit' = why /\ tasks' = NoTasks
  /\ loop' = "none" /\ waited' = 0 /\ toTick' = 0 /\ started' = FALSE /\ age' = Horizon
  /\ probe' = NoProbe /\ jumped' = FALSE
  /\ UNCHANGED <<signalled, kubelet, steps, stuck>>

(* KubernetesClient::new: a pod cache, or standalone mode. *)
Connect ==
  /\ stage = "connect" /\ ~signalled
  /\ stage' = "bind"
  /\ \/ tasks' = [tasks EXCEPT !["pod_cache"] = "running"]
     \/ UNCHANGED tasks
  /\ UNCHANGED <<exit, signalled, loopVars, outerVars>>

(* The listener is bound before its task is spawned. *)
Bind ==
  /\ stage = "bind" /\ ~signalled
  /\ stage' = "attach"
  /\ tasks' = [tasks EXCEPT !["metrics_server"] = "running"]
  /\ UNCHANGED <<exit, signalled, loopVars, outerVars>>

(* RingBufSource::new. *)
Attach ==
  /\ stage = "attach" /\ ~signalled
  /\ stage' = "spawn"
  /\ UNCHANGED <<tasks, exit, signalled, loopVars, outerVars>>

(* A `?` on the way: main returns and the runtime is dropped. *)
StartupFails ==
  /\ stage \in {"bind", "attach"} /\ ~signalled
  /\ stage' = "drop" /\ exit' = "error"
  /\ UNCHANGED <<tasks, signalled, loopVars, outerVars>>

(* The event processor and the series sweeper. *)
SpawnTasks ==
  /\ stage = "spawn" /\ ~signalled
  /\ stage' = "supervise"
  /\ tasks' = [tasks EXCEPT !["event_processor"] = "running", !["series_sweeper"] = "running"]
  /\ loop' = IF tasks["pod_cache"] = "none" THEN "mark" ELSE "sync"
  /\ UNCHANGED <<exit, signalled, waited, toTick, started, age, outerVars>>

(* A task's future completes. *)
TaskEnds(t) ==
  /\ stage \notin {"drop", "down"}
  /\ tasks[t] = "running"
  /\ t = "event_processor" => loop = "select"
  /\ tasks' = [tasks EXCEPT ![t] = "ended"]
  /\ loop' = IF t = "event_processor" THEN "ended" ELSE loop
  /\ UNCHANGED <<stage, exit, signalled, waited, toTick, started, age, outerVars>>

Aborted == [t \in Tasks |-> IF tasks[t] = "running" THEN "aborted" ELSE tasks[t]]

(* Mutant of SelectWorker: the arm of the sweeper is missing. *)
SelectWorkerButSweeper(t) ==
  /\ stage = "supervise"
  /\ tasks[t] = "ended" /\ t # "series_sweeper"
  /\ stage' = "drop" /\ exit' = "error"
  /\ tasks' = Aborted
  /\ UNCHANGED <<signalled, loopVars, outerVars>>

(* select!, the arm of a task, and the aborts after it. *)
SelectWorker(t) ==
  /\ stage = "supervise"
  /\ tasks[t] = "ended"
  /\ stage' = "drop" /\ exit' = "error"
  /\ tasks' = Aborted
  /\ UNCHANGED <<signalled, loopVars, outerVars>>

(* Mutant of SigtermReceived: only SIGINT is listened for. *)
SigintReceived == FALSE

(* shutdown_signal: sigterm.recv() resolves. *)
SigtermReceived == signalled

(* select!, shutdown_signal. *)
SelectSignal ==
  /\ stage = "supervise"
  /\ SigtermReceived
  /\ stage' = "drop" /\ exit' = "ok"
  /\ tasks' = Aborted
  /\ UNCHANGED <<signalled, loopVars, outerVars>>

(* The handler cannot be installed: `res?` leaves main before the aborts. *)
SelectSignalFails ==
  /\ stage = "supervise"
  /\ stage' = "drop" /\ exit' = "error"
  /\ UNCHANGED <<tasks, signalled, loopVars, outerVars>>

(* Until shutdown_signal is polled the signal has its default disposition. *)
DefaultDisposition ==
  /\ stage \in {"connect", "bind", "attach", "spawn"}
  /\ signalled
  /\ Gone("signal")

(* The profiles say panic = "abort". *)
Panic ==
  /\ stage # "down"
  /\ Gone("abort")

(* The runtime's drop waits for every task to reach an await. *)
RuntimeDropped ==
  /\ stage = "drop"
  /\ loop # "wedged"
  /\ Gone(exit)

-----------------------------------------------------------------------------
(* The event processor's task: wait_until_synced, mark_started, run. *)

LoopRuns == stage # "down" /\ (stage = "drop" => loop \in {"busy", "wedged"})

(* A store to last_beat_seconds.  A probe that has read the clock already  *)
(* still sees the two clocks apart.                                        *)
Beat ==
  /\ age' = 0
  /\ jumped' = (jumped /\ probe.at # "none")
  /\ UNCHANGED <<probe, kubelet, steps, stuck>>

(* Mutant of SyncTimedOut: the wait has no timeout. *)
SyncNeverTimesOut == FALSE

(* wait_until_synced gives up. *)
SyncTimedOut == waited >= SyncTimeout

(* The first list has landed, or the wait is given up: run either way. *)
SyncOver ==
  /\ LoopRuns /\ loop = "sync"
  /\ loop' = "mark"
  /\ UNCHANGED <<waited, toTick, started, age, mainVars, outerVars>>

(* Mutant of Seed: started is published before the heartbeat. *)
SeedLast ==
  /\ LoopRuns /\ loop = "mark"
  /\ loop' = "seeded"
  /\ started' = TRUE
  /\ UNCHANGED <<waited, toTick, age, mainVars, outerVars>>

(* mark_started: the heartbeat first, *)
Seed ==
  /\ LoopRuns /\ loop = "mark"
  /\ loop' = "seeded"
  /\ Beat
  /\ UNCHANGED <<waited, toTick, started, mainVars>>

(* Mutant of MarkStarted: started is never published. *)
MarkStartedForgotten ==
  /\ LoopRuns /\ loop = "seeded"
  /\ loop' = "select"
  /\ toTick' = BeatInterval
  /\ UNCHANGED <<waited, started, age, mainVars, outerVars>>

(* then started, with release; run takes the first tick at once. *)
MarkStarted ==
  /\ LoopRuns /\ loop = "seeded"
  /\ loop' = "select"
  /\ started' = TRUE
  /\ toTick' = BeatInterval
  /\ UNCHANGED <<waited, age, mainVars, outerVars>>

(* Wake::Beat *)
TickerFires ==
  /\ LoopRuns /\ loop = "select"
  /\ toTick <= 0
  /\ toTick' = toTick + BeatInterval
  /\ Beat
  /\ UNCHANGED <<loop, waited, started, mainVars>>

(* Wake::Event *)
EventArrives ==
  /\ LoopRuns /\ loop = "select"
  /\ loop' = "busy"
  /\ UNCHANGED <<waited, toTick, started, age, mainVars, outerVars>>

(* process_event returns and the heartbeat is stamped after it. *)
EventDone ==
  /\ LoopRuns /\ loop \in {"busy", "wedged"}
  /\ loop' = "select"
  /\ Beat
  /\ UNCHANGED <<waited, toTick, started, mainVars>>

(* process_event blocks. *)
Wedge ==
  /\ LoopRuns /\ loop = "busy"
  /\ loop' = "wedged"
  /\ stuck' = TRUE
  /\ UNCHANGED <<waited, toTick, started, age, mainVars, probe, kubelet, steps, jumped>>

-----------------------------------------------------------------------------
(* The kubelet's probe, and /healthz. *)

Serving == tasks["metrics_server"] = "running" /\ stage \notin {"drop", "down"}
Terminating == kubelet.term # NotTerminating

(* The container has been told to stop; it is not probed any more. *)
Told(fails) == [probeIn |-> 0, fails |-> fails, term |-> 0]

(* A probe has been answered or has failed: enough failures in a row and   *)
(* the container is terminated.                                            *)
Answered(ok) ==
  LET fails == IF ok THEN 0 ELSE kubelet.fails + 1
  IN  /\ probe' = NoProbe
      /\ stuck' = IF ok \/ fails = FailureThreshold THEN loop = "wedged" ELSE stuck
      /\ IF fails = FailureThreshold
           THEN /\ kubelet' = Told(fails)
                /\ signalled' = TRUE
           ELSE /\ kubelet' = [kubelet EXCEPT !.probeIn = Period, !.fails = fails]
                /\ UNCHANGED signalled

ProbeDue == stage # "down" /\ ~Terminating /\ probe.at = "none" /\ kubelet.probeIn <= 0

(* health_handler reads the clock before it looks at the heartbeat. *)
ProbeAccepted ==
  /\ ProbeDue /\ Serving
  /\ probe' = [NoProbe EXCEPT !.at = "now"]
  /\ UNCHANGED <<mainVars, loopVars, kubelet, steps, jumped, stuck>>

ProbeRefused ==
  /\ ProbeDue \/ (probe.at # "none" /\ stage # "down" /\ ~Terminating)
  /\ ~Serving
  /\ Answered(FALSE)
  /\ UNCHANGED <<stage, tasks, exit, loopVars, steps, jumped>>

(* liveness: started, with acquire. *)
LoadStarted ==
  /\ probe.at = "now" /\ Serving /\ ~Terminating
  /\ IF started
       THEN probe' = [probe EXCEPT !.at = "started"] /\ UNCHANGED <<kubelet, stuck, signalled>>
       ELSE Answered(FALSE)
  /\ UNCHANGED <<stage, tasks, exit, loopVars, steps, jumped>>

(* saturating_sub *)
AgeSeconds(now) == IF now < 0 THEN 0 ELSE now

(* Mutant of Live: the server answers for itself. *)
LiveWhileServing == TRUE

(* Liveness::Live, the only answer that is a 200; now is the clock as the  *)
(* handler read it, before it was set by probe.set.                        *)
Live == AgeSeconds(age - probe.set) <= StaleAfter

(* liveness: the heartbeat. *)
LoadBeat ==
  /\ probe.at = "started" /\ Serving /\ ~Terminating
  /\ Answered(Live)
  /\ UNCHANGED <<stage, tasks, exit, loopVars, steps, jumped>>

(* The pod is deleted, by a rollout say. *)
Rollout ==
  /\ stage # "down" /\ ~Terminating
  /\ kubelet' = Told(0)
  /\ probe' = NoProbe
  /\ signalled' = TRUE /\ stuck' = (loop = "wedged")
  /\ UNCHANGED <<stage, tasks, exit, loopVars, steps, jumped>>

Sigkill ==
  /\ stage # "down"
  /\ kubelet.term = Grace
  /\ Gone("killed")

Restart ==
  /\ stage = "down"
  /\ stage' = "connect" /\ exit' = "none" /\ signalled' = FALSE
  /\ kubelet' \in FreshKubelets /\ stuck' = FALSE
  /\ UNCHANGED <<tasks, loopVars, probe, steps, jumped>>

-----------------------------------------------------------------------------
(* Time. *)

(* What does not take a whole unit, or has waited as long as it may. *)
Urgent ==
  \/ stage \in {"connect", "bind", "attach", "spawn", "down"}
  \/ stage = "supervise" /\ (SigtermReceived \/ \E t \in Tasks : tasks[t] = "ended")
  \/ stage = "drop" /\ loop # "wedged"
  \/ loop \in {"mark", "seeded"}
  \/ loop = "sync" /\ SyncTimedOut
  \/ loop \in {"select", "busy"} /\ toTick <= -MaxDelay
  \/ ProbeDue
  \/ probe.at # "none"
  \/ kubelet.term = Grace

Tick ==
  /\ ~Urgent
  /\ age' = Aged(age + 1)
  /\ waited' = IF loop = "sync" THEN waited + 1 ELSE waited
  /\ toTick' = IF started /\ toTick > -BeatInterval - MaxDelay THEN toTick - 1 ELSE toTick
  /\ kubelet' = IF Terminating THEN [kubelet EXCEPT !.term = @ + 1]
                               ELSE [kubelet EXCEPT !.probeIn = IF @ > 0 THEN @ - 1 ELSE 0]
  /\ UNCHANGED <<mainVars, loop, started, probe, steps, jumped, stuck>>

(* The wall clock is set. *)
ClockStep ==
  /\ steps < MaxSteps /\ stage # "down"
  /\ steps' = steps + 1
  /\ jumped' = TRUE
  /\ \E d \in StepSizes :
       /\ age' = Aged(age + d)
       /\ probe' = IF probe.at = "none" THEN probe ELSE [probe EXCEPT !.set = @ + d]
  /\ UNCHANGED <<mainVars, loop, waited, toTick, started, kubelet, stuck>>

-----------------------------------------------------------------------------
Main ==
  \/ Connect \/ Bind \/ Attach \/ SpawnTasks
  \/ (\E t \in Tasks : SelectWorker(t)) \/ SelectSignal \/ DefaultDisposition
  \/ RuntimeDropped

Loop == SyncOver \/ Seed \/ MarkStarted \/ TickerFires \/ (loop # "wedged" /\ EventDone)

Kubelet ==
  ProbeAccepted \/ ProbeRefused \/ LoadStarted \/ LoadBeat \/ Sigkill \/ Restart

Faults ==
  \/ StartupFails \/ SelectSignalFails \/ Panic \/ (\E t \in Tasks : TaskEnds(t))
  \/ EventArrives \/ Wedge \/ (loop = "wedged" /\ EventDone)
  \/ Rollout \/ ClockStep

Next == Main \/ Loop \/ Kubelet \/ Faults \/ Tick

(* The runtime schedules main and the loop, the kubelet works, time        *)
(* passes.  No fault is forced, nor is the end of one.                     *)
Fairness == WF_vars(Main) /\ WF_vars(Loop) /\ WF_vars(Kubelet) /\ WF_vars(Tick)

Spec == Init /\ [][Next]_vars /\ Fairness

-----------------------------------------------------------------------------
(* Properties. *)

TypeOK ==
  /\ stage \in Stages
  /\ tasks \in [Tasks -> {"none", "running", "ended", "aborted"}]
  /\ exit \in {"none", "ok", "error", "signal", "abort", "killed"}
  /\ signalled \in BOOLEAN /\ started \in BOOLEAN /\ jumped \in BOOLEAN /\ stuck \in BOOLEAN
  /\ loop \in LoopStates
  /\ waited \in 0..SyncTimeout
  /\ toTick \in Int /\ age \in Int /\ age <= Horizon
  /\ probe \in [at: {"none", "now", "started"}, set: Int]
  /\ kubelet \in [probeIn: 0..(InitialDelay + Period), fails: 0..FailureThreshold,
                  term: NotTerminating..Grace]
  /\ steps \in 0..MaxSteps

(* A heartbeat that reads as stale is a loop that is stuck in event        *)
(* handling: not one that has just started, not one that was scheduled     *)
(* late, not one busy with events, as long as the wall clock was not set   *)
(* since the last beat (health.rs:13).                                     *)
AlarmMeansWedged ==
  probe.at = "started" /\ ~Live => loop = "wedged" \/ jumped

(* How the process ended says why: it reports success only when it was     *)
(* asked to stop, and a termination takes the whole grace period only      *)
(* because the loop is stuck, whenever in the process's life the SIGTERM   *)
(* comes (main.rs:179 and 235).                                            *)
ExitTellsWhy ==
  /\ exit = "ok" => signalled
  /\ exit = "killed" => stuck

(* The liveness probe never has a container killed whose loop runs: start  *)
(* up with a pod cache that is slow to sync is covered, and so is a clock  *)
(* that is set by more than the limit (health.rs:33, http.rs:53).          *)
NeverKilledNeedlessly ==
  [][kubelet.fails' = FailureThreshold /\ kubelet.fails # FailureThreshold
       => stuck \/ ~Serving]_vars

(* A stuck loop does not last: the heartbeat stops, the probe fails and    *)
(* the container is replaced, also when the stuck loop keeps the process   *)
(* from ending by itself (health.rs:4).                                    *)
NotWedgedForever == []<>(loop # "wedged")

(* When a task ends the process ends, at once or, if the watch loop is     *)
(* stuck, at the hands of the kubelet (main.rs:179).                       *)
WorkerDeathEndsProcess == (\E t \in Tasks : tasks[t] = "ended") ~> (stage = "down")

=============================================================================
