----------------------- MODULE SupervisorProbeProofs -----------------------
(***************************************************************************)
(* Why the liveness probe of Supervisor spares a container whose loop      *)
(* runs, although it does not outlive a clock that is set: with the        *)
(* settings below, the loop has started before the first probe, and beats  *)
(* again before the probes have failed often enough.                       *)
(***************************************************************************)
EXTENDS SupervisorProofs

(* What is asked of the probe: its first attempt comes after the wait for  *)
(* the pod cache is over, and its failures in a row span more than a       *)
(* heartbeat, late as it may be.  The clock is set once at most: set again *)
(* after the beat that followed, it does have a healthy container killed.  *)
ProbeSettings ==
  /\ SyncTimeout < InitialDelay
  /\ BeatInterval + MaxDelay < (FailureThreshold - 1) * Period
  /\ MaxSteps <= 1

(* Before the loop has started there is no probe. *)
StartInv ==
  /\ stage \notin {"supervise", "drop"} => waited = 0
  /\ stage = "supervise" => loop # "none"
  /\ stage = "down" => probe.at = "none"
  /\ ~started /\ ~Terminating /\ stage # "down" =>
       /\ kubelet.probeIn + waited >= InitialDelay
       /\ kubelet.fails = 0 /\ probe.at = "none"

(* The loop is not held up and its probes are served. *)
Fine == Serving /\ ~stuck /\ ~Terminating

(* Failures in a row since the clock was set, with no beat after it: the   *)
(* time since the first of them is part of the ticker's interval.          *)
Unbeaten == kubelet.fails * Period - kubelet.probeIn <= BeatInterval - toTick

(* A beat came while a probe that had read the clock was being served. *)
Overtaken ==
  probe.at # "none" /\ Recent /\ kubelet.fails * Period <= BeatInterval + MaxDelay

(* A beat came, and the next probe will see it. *)
Recovered == Recent /\ probe.set = 0

(* A ticker further behind than the scheduler allows is one that a stuck   *)
(* loop has left; no time passes before it has caught up.                  *)
CatchingUp == kubelet.probeIn = Period /\ probe.at = "none"

(* Only a clock that was set tells a heartbeat wrongly. *)
SetInv == jumped => steps >= 1

(* The next probe is timed from the answer to the last one. *)
ServedInv == ~Terminating /\ probe.at # "none" => kubelet.probeIn = 0

TickerInv == started /\ ~stuck /\ ~Terminating => toTick >= -MaxDelay \/ CatchingUp

StreakInv ==
  Fine /\ kubelet.fails > 0 =>
    /\ kubelet.probeIn <= Period /\ steps >= 1
    /\ Unbeaten \/ Overtaken \/ Recovered

FailureInv == SetInv /\ ServedInv /\ TickerInv /\ StreakInv

ProbeInv == StartInv /\ FailureInv

-----------------------------------------------------------------------------
(* Before the loop has started no probe is due. *)
LEMMA NoEarlyProbe ==
  ASSUME ProbeSettings, TypeInv, StartInv, ~started, ~Terminating, stage # "down"
  PROVE  ~ProbeDue /\ probe.at = "none" /\ kubelet.probeIn > 0
<1>1. /\ kubelet.probeIn \in Nat /\ waited \in Nat /\ waited <= SyncTimeout
      /\ kubelet.probeIn + waited >= InitialDelay /\ probe.at = "none"
  BY TimingAssumption DEF TypeInv, TypeOK, StartInv
<1>2. kubelet.probeIn > 0
  BY <1>1, TimingAssumption DEF ProbeSettings
<1> QED BY <1>1, <1>2 DEF ProbeDue

(* Every step keeps the probes after the start. *)
LEMMA StartStep ==
  ASSUME ProbeSettings
  PROVE  TypeInv /\ HeartInv /\ StartInv /\ [Next]_vars => StartInv'
<1> SUFFICES ASSUME TypeInv, HeartInv, StartInv, [Next]_vars PROVE StartInv'
  OBVIOUS
<1> USE TimingAssumption
     DEF TypeInv, TypeOK, HeartInv, StartInv, Terminating, mainVars, loopVars, outerVars,
         Stages, LoopStates
<1>1. CASE Connect \/ Bind \/ Attach \/ StartupFails \/ SelectSignalFails
  BY <1>1 DEF Connect, Bind, Attach, StartupFails, SelectSignalFails
<1>2. CASE SpawnTasks
  BY <1>2 DEF SpawnTasks
<1>3. CASE SelectSignal \/ \E t \in Tasks : SelectWorker(t)
  BY <1>3 DEF SelectSignal, SelectWorker
<1>4. CASE DefaultDisposition \/ RuntimeDropped \/ Panic \/ Sigkill
  BY <1>4 DEF DefaultDisposition, RuntimeDropped, Panic, Sigkill, Gone, NoProbe
<1>5. CASE SyncOver \/ MarkStarted \/ EventArrives \/ Wedge
  BY <1>5 DEF SyncOver, MarkStarted, EventArrives, Wedge, LoopRuns
<1>6. CASE Seed \/ TickerFires \/ EventDone
  BY <1>6 DEF Seed, TickerFires, EventDone, Beat, LoopRuns
<1>7. CASE ProbeAccepted
  BY <1>7, NoEarlyProbe DEF ProbeAccepted, ProbeDue, Serving
<1>8. CASE ProbeRefused \/ LoadStarted \/ LoadBeat
  <2>1. /\ UNCHANGED <<stage, tasks, loop, waited, started>> /\ ~Terminating /\ stage # "down"
        /\ probe.at # "none" \/ ProbeDue
    BY <1>8 DEF ProbeRefused, LoadStarted, LoadBeat, ProbeDue, Serving
  <2>2. started
    BY <2>1, NoEarlyProbe
  <2> QED BY <2>1, <2>2
<1>9. CASE Rollout
  BY <1>9 DEF Rollout, Told, NoProbe, NotTerminating
<1>10. CASE Restart
  <2>1. kubelet'.probeIn \in Nat /\ kubelet'.probeIn >= InitialDelay /\ kubelet'.fails = 0
    BY <1>10 DEF Restart, FreshKubelets
  <2>2. /\ UNCHANGED <<loop, waited, started, probe>> /\ stage = "down" /\ stage' = "connect"
        /\ waited = 0
    BY <1>10 DEF Restart
  <2> QED BY <2>1, <2>2
<1>11. CASE \E t \in Tasks : TaskEnds(t)
  BY <1>11 DEF TaskEnds
<1>12. CASE ClockStep
  BY <1>12 DEF ClockStep
<1>13. CASE Tick
  <2>1. /\ UNCHANGED <<stage, tasks, loop, started, probe>> /\ ~ProbeDue
        /\ stage \in {"supervise", "drop"} /\ loop \notin {"mark", "seeded"}
        /\ stage = "drop" => loop = "wedged"
        /\ waited' = IF loop = "sync" THEN waited + 1 ELSE waited
    BY <1>13 DEF Tick, Urgent
  <2>2. CASE started
    BY <2>1, <2>2
  <2>3. CASE ~started /\ ~Terminating
    <3>1. loop = "sync" /\ waited' = waited + 1
      BY <2>1, <2>3
    <3>2. kubelet.probeIn > 0
      BY <2>1, <2>3, NoEarlyProbe
    <3>3. kubelet'.probeIn = kubelet.probeIn - 1 /\ kubelet'.fails = kubelet.fails
      BY <1>13, <2>3, <3>2 DEF Tick
    <3> QED BY <2>1, <2>3, <3>1, <3>3
  <2>4. CASE Terminating
    <3>1. kubelet'.term # NotTerminating
      BY <1>13, <2>4 DEF Tick, NotTerminating
    <3> QED BY <2>1, <3>1
  <2> QED BY <2>2, <2>3, <2>4
<1>14. CASE UNCHANGED vars
  BY <1>14 DEF vars
<1> QED
  BY <1>1, <1>2, <1>3, <1>4, <1>5, <1>6, <1>7, <1>8, <1>9, <1>10, <1>11, <1>12, <1>13, <1>14
     DEF Next, Main, Loop, Kubelet, Faults

-----------------------------------------------------------------------------
(* The time that the failures so far have taken is a number, and one more  *)
(* failure adds a period.                                                  *)
LEMMA StreakInt ==
  ASSUME TypeInv
  PROVE  /\ kubelet.fails * Period \in Nat
         /\ (kubelet.fails + 1) * Period = kubelet.fails * Period + Period
BY TimingAssumption DEF TypeInv, TypeOK

(* While it has not started, nothing the process does fails a probe. *)
LEMMA FailureBeforeStart ==
  ASSUME ProbeSettings, TypeInv, HeartInv, StartInv, FailureInv,
         Connect \/ Bind \/ Attach \/ SpawnTasks \/ SyncOver \/ Seed \/ MarkStarted
  PROVE  FailureInv'
<1> USE TimingAssumption
     DEF TypeInv, TypeOK, HeartInv, StartInv, FailureInv, SetInv, ServedInv, TickerInv,
         StreakInv, Terminating, Fine, mainVars, loopVars, outerVars, Stages, LoopStates
<1>1. ~started /\ stage # "down" /\ UNCHANGED <<kubelet, probe, steps, stuck>>
  BY DEF Connect, Bind, Attach, SpawnTasks, SyncOver, Seed, MarkStarted, Beat, LoopRuns
<1>2. ~Terminating => kubelet.fails = 0 /\ probe.at = "none"
  BY <1>1
<1>3. (jumped' => jumped) /\ (started' => toTick' = BeatInterval)
  BY <1>1 DEF Connect, Bind, Attach, SpawnTasks, SyncOver, Seed, MarkStarted, Beat
<1> QED BY <1>1, <1>2, <1>3

(* A beat ends a row of failures, but for the probe that it overtakes. *)
LEMMA FailureAtBeat ==
  ASSUME ProbeSettings, TypeInv, HeartInv, ExitInv, FailureInv, TickerFires \/ EventDone
  PROVE  FailureInv'
<1> USE TimingAssumption DEF TypeInv, TypeOK, HeartInv, Terminating, mainVars
<1>1. /\ UNCHANGED <<stage, tasks, started, probe, kubelet, steps, stuck>>
      /\ age' = 0 /\ (jumped' => jumped)
      /\ toTick' \in Int /\ toTick' >= toTick
  BY DEF TickerFires, EventDone, Beat
<1>2. SetInv' /\ ServedInv' /\ TickerInv'
  BY <1>1 DEF FailureInv, SetInv, ServedInv, TickerInv, CatchingUp
<1>3. ASSUME Fine', kubelet'.fails > 0
      PROVE  /\ kubelet'.probeIn <= Period /\ steps' >= 1
             /\ (Overtaken \/ Recovered)'
  <2>1. /\ kubelet.probeIn <= Period /\ steps >= 1 /\ ~stuck /\ ~Terminating
        /\ Unbeaten \/ Overtaken \/ Recovered
    BY <1>1, <1>3 DEF FailureInv, StreakInv, Fine, Serving
  <2>2. Recent'
    BY <1>1 DEF Recent
  <2>3. CASE probe.at = "none"
    BY <1>1, <2>1, <2>2, <2>3 DEF Recovered
  <2>4. CASE probe.at # "none" /\ Recovered
    BY <1>1, <2>1, <2>2, <2>4 DEF Recovered
  <2>5. CASE probe.at # "none" /\ Overtaken
    BY <1>1, <2>1, <2>2, <2>5 DEF Overtaken
  <2>6. CASE probe.at # "none" /\ Unbeaten
    <3>1. kubelet.probeIn = 0 /\ toTick >= -MaxDelay
      <4>1. started
        BY DEF TickerFires, EventDone
      <4> QED BY <2>1, <2>6, <4>1 DEF FailureInv, ServedInv, TickerInv, CatchingUp
    <3>2. kubelet.fails * Period <= BeatInterval + MaxDelay
      BY <2>6, <3>1, StreakInt DEF Unbeaten
    <3> QED BY <1>1, <2>1, <2>2, <2>6, <3>2 DEF Overtaken
  <2> QED BY <1>1, <2>1, <2>3, <2>4, <2>5, <2>6
<1> QED BY <1>2, <1>3 DEF FailureInv, StreakInv

(* While time passes, a row of failures and the ticker age alike. *)
LEMMA FailureAtTick ==
  ASSUME ProbeSettings, TypeInv, HeartInv, ExitInv, StartInv, FailureInv, Tick
  PROVE  FailureInv'
<1> USE TimingAssumption DEF TypeInv, TypeOK, HeartInv, mainVars, LoopStates
<1>1. /\ UNCHANGED <<stage, tasks, started, probe, steps, jumped, stuck, loop>>
      /\ probe.at = "none" /\ stage # "down" /\ ~ProbeDue
      /\ age' = Aged(age + 1) /\ age' \in Int
  BY HorizonInt DEF Tick, Urgent, Aged
<1>2. ~Terminating' => /\ ~Terminating /\ kubelet.probeIn > 0
                       /\ kubelet'.probeIn = kubelet.probeIn - 1 /\ kubelet'.fails = kubelet.fails
  BY <1>1 DEF Tick, Terminating, NotTerminating, ProbeDue
<1>3. started /\ ~stuck => toTick > -MaxDelay /\ toTick' = toTick - 1
  <2>1. started /\ ~stuck => loop \in {"select", "busy", "ended"}
    BY DEF ExitInv
  <2>2. loop # "ended"
    BY DEF Tick, Urgent, Tasks
  <2> QED BY <2>1, <2>2 DEF Tick, Urgent
<1>4. SetInv' /\ ServedInv' /\ TickerInv'
  BY <1>1, <1>2, <1>3 DEF FailureInv, SetInv, ServedInv, TickerInv
<1>5. ASSUME Fine', kubelet'.fails > 0
      PROVE  /\ kubelet'.probeIn <= Period /\ steps' >= 1
             /\ (Unbeaten \/ Recovered)'
  <2>1. Fine /\ kubelet.fails > 0 /\ ~Terminating'
    BY <1>1, <1>2, <1>5 DEF Fine, Serving
  <2>2. /\ kubelet.probeIn <= Period /\ steps >= 1
        /\ Unbeaten \/ Recovered
    BY <1>1, <2>1 DEF FailureInv, StreakInv, Overtaken
  <2>3. toTick > -MaxDelay /\ toTick' = toTick - 1
    <3>1. started
      BY <1>1, <2>1 DEF StartInv, Fine
    <3> QED BY <1>3, <2>1, <3>1 DEF Fine
  <2>4. CASE Unbeaten
    <3>1. Unbeaten'
      BY <1>2, <2>1, <2>3, <2>4, StreakInt DEF Unbeaten
    <3> QED BY <1>1, <1>2, <2>1, <2>2, <3>1
  <2>5. CASE Recovered
    <3>1. age' <= age + 1
      BY <1>1, HorizonInt DEF Aged
    <3>2. Recent'
      BY <1>1, <2>3, <2>5, <3>1 DEF Recovered, Recent
    <3> QED BY <1>1, <1>2, <2>1, <2>2, <2>5, <3>2 DEF Recovered
  <2> QED BY <2>2, <2>4, <2>5
<1> QED BY <1>4, <1>5 DEF FailureInv, StreakInv

(* An answer that does not end the container's time. *)
LEMMA AnsweredOn ==
  ASSUME TypeInv, NEW ok \in BOOLEAN, ~Terminating, Answered(ok), ~Terminating'
  PROVE  /\ probe' = NoProbe /\ kubelet'.probeIn = Period
         /\ kubelet'.fails = IF ok THEN 0 ELSE kubelet.fails + 1
         /\ ~ok => stuck' = stuck
<1> DEFINE fails == IF ok THEN 0 ELSE kubelet.fails + 1
<1>1. fails # FailureThreshold
  BY DEF Answered, Told, Terminating, NotTerminating
<1>2. /\ kubelet' = [kubelet EXCEPT !.probeIn = Period, !.fails = fails]
      /\ probe' = NoProbe /\ (~ok => stuck' = stuck)
  BY <1>1 DEF Answered
<1> HIDE DEF fails
<1>3. kubelet'.probeIn = Period /\ kubelet'.fails = fails
  BY <1>2 DEF TypeInv, TypeOK
<1> QED BY <1>2, <1>3 DEF fails

(* A failure of a loop that runs is one the clock made; it is the first of *)
(* a row, one more before the beat, or the last.                           *)
LEMMA FailureAtAnswer ==
  ASSUME ProbeSettings, TypeInv, HeartInv, ExitInv, StartInv, FailureInv,
         ProbeRefused \/ LoadStarted \/ LoadBeat
  PROVE  FailureInv'
<1> USE TimingAssumption DEF TypeInv, TypeOK, HeartInv, loopVars
<1>1. /\ UNCHANGED <<stage, tasks, loop, waited, toTick, started, age, steps, jumped>>
      /\ ~Terminating /\ stage # "down" /\ (probe.at # "none" \/ ProbeDue)
  BY DEF ProbeRefused, LoadStarted, LoadBeat, ProbeDue, Serving
<1>2. started
  BY <1>1, NoEarlyProbe
<1>3. CASE LoadStarted
  <2>1. /\ probe' = [probe EXCEPT !.at = "started"] /\ UNCHANGED <<kubelet, stuck>>
        /\ probe.at # "none"
    BY <1>2, <1>3 DEF LoadStarted
  <2>2. probe'.at # "none" /\ probe'.set = probe.set
    BY <2>1
  <2> QED BY <1>1, <2>1, <2>2
       DEF FailureInv, SetInv, ServedInv, TickerInv, StreakInv, CatchingUp, Fine, Serving,
           Terminating, Unbeaten, Overtaken, Recovered, Recent
<1>4. CASE ProbeRefused \/ LoadBeat
  <2> DEFINE ok == LoadBeat /\ Live
  <2>1. ok \in BOOLEAN /\ Answered(ok) /\ (Serving => LoadBeat)
    <3>1. CASE LoadBeat
      <4>1. Answered(Live) /\ ok = Live
        BY <3>1 DEF LoadBeat, Live
      <4> QED BY <3>1, <4>1
    <3>2. CASE ~LoadBeat
      <4>1. Answered(FALSE) /\ ~Serving /\ ok = FALSE
        BY <1>4, <3>2 DEF ProbeRefused
      <4> QED BY <4>1
    <3> QED BY <3>1, <3>2
  <2> HIDE DEF ok
  <2>2. ~Terminating' => /\ probe' = NoProbe /\ kubelet'.probeIn = Period
                         /\ kubelet'.fails = IF ok THEN 0 ELSE kubelet.fails + 1
                         /\ ~ok => stuck' = stuck
    BY <1>1, <2>1, AnsweredOn
  <2>3. SetInv' /\ ServedInv' /\ TickerInv'
    BY <1>1, <2>2 DEF FailureInv, SetInv, ServedInv, TickerInv, CatchingUp, NoProbe
  <2>4. ASSUME Fine', kubelet'.fails > 0
        PROVE  /\ kubelet'.probeIn <= Period /\ steps' >= 1
               /\ (Unbeaten \/ Recovered)'
    <3>1. ~ok /\ Fine
      BY <1>1, <2>1, <2>2, <2>4 DEF Fine, Serving
    <3>a. LoadBeat /\ ~Live /\ probe.at = "started"
      BY <2>1, <3>1 DEF ok, Fine, LoadBeat
    <3>2. kubelet'.probeIn = Period /\ kubelet'.fails = kubelet.fails + 1 /\ probe' = NoProbe
      BY <2>2, <2>4, <3>1 DEF Fine
    <3>3. kubelet.probeIn = 0
      BY <3>1, <3>a DEF FailureInv, ServedInv, Fine
    <3>4. ~Recovered
      <4>1. Recovered => age <= BeatInterval + MaxDelay /\ probe.set = 0
        BY DEF Recovered, Recent
      <4> QED BY <3>a, <4>1, HorizonInt DEF Live, AgeSeconds
    <3>5. steps >= 1
      <4>1. loop \in {"select", "busy", "ended"}
        BY <1>2, <3>1 DEF ExitInv, Fine
      <4>2. jumped
        BY <3>1, <3>4, <4>1 DEF Recovered
      <4> QED BY <4>2 DEF FailureInv, SetInv
    <3>6. kubelet.fails * Period <= BeatInterval - toTick \/ Overtaken
      <4>1. CASE kubelet.fails = 0
        BY <4>1
      <4>2. CASE kubelet.fails > 0
        BY <3>1, <3>3, <3>4, <4>2, StreakInt DEF FailureInv, StreakInv, Unbeaten
      <4> QED BY <4>1, <4>2
    <3>7. CASE Overtaken
      <4>1. Recovered'
        BY <1>1, <3>2, <3>7 DEF Overtaken, Recovered, Recent, NoProbe
      <4> QED BY <1>1, <3>2, <3>5, <4>1
    <3>8. CASE kubelet.fails * Period <= BeatInterval - toTick
      <4>1. kubelet'.fails * Period = kubelet.fails * Period + Period
        BY <3>2, StreakInt
      <4>2. Unbeaten'
        BY <1>1, <3>2, <3>8, <4>1, StreakInt DEF Unbeaten
      <4> QED BY <1>1, <3>2, <3>5, <4>2
    <3> QED BY <3>6, <3>7, <3>8
  <2> QED BY <2>3, <2>4 DEF FailureInv, StreakInv
<1> QED BY <1>3, <1>4

(* Every step keeps the failures of a loop that runs within a heartbeat. *)
LEMMA FailureStep ==
  ASSUME ProbeSettings
  PROVE  TypeInv /\ HeartInv /\ ExitInv /\ StartInv /\ FailureInv /\ [Next]_vars => FailureInv'
<1> SUFFICES ASSUME TypeInv, HeartInv, ExitInv, StartInv, FailureInv, [Next]_vars
             PROVE  FailureInv'
  OBVIOUS
<1>1. CASE Connect \/ Bind \/ Attach \/ SpawnTasks \/ SyncOver \/ Seed \/ MarkStarted
  BY <1>1, FailureBeforeStart
<1>2. CASE TickerFires \/ EventDone
  BY <1>2, FailureAtBeat
<1>3. CASE ProbeRefused \/ LoadStarted \/ LoadBeat
  BY <1>3, FailureAtAnswer
<1>4. CASE Tick
  BY <1>4, FailureAtTick
<1> USE TimingAssumption
     DEF TypeInv, TypeOK, HeartInv, FailureInv, SetInv, ServedInv, TickerInv, StreakInv,
         CatchingUp, Fine, Serving, Terminating, mainVars, loopVars, outerVars
<1>5. CASE UNCHANGED <<stage, tasks, started, toTick, age, probe, kubelet, steps, jumped, stuck>>
  BY <1>5 DEF Unbeaten, Overtaken, Recovered, Recent
<1>6. CASE EventArrives \/ UNCHANGED vars
  BY <1>5, <1>6 DEF EventArrives, vars
<1>7. CASE StartupFails \/ SelectSignalFails \/ SelectSignal \/ \E t \in Tasks : SelectWorker(t)
  BY <1>7 DEF StartupFails, SelectSignalFails, SelectSignal, SelectWorker
<1>8. CASE DefaultDisposition \/ RuntimeDropped \/ Panic \/ Sigkill
  BY <1>8 DEF DefaultDisposition, RuntimeDropped, Panic, Sigkill, Gone, NoProbe
<1>9. CASE \E t \in Tasks : TaskEnds(t)
  <2>1. /\ UNCHANGED <<stage, started, toTick, age, probe, kubelet, steps, jumped, stuck>>
        /\ Serving' => Serving
    BY <1>9 DEF TaskEnds, Tasks
  <2> QED BY <2>1 DEF Unbeaten, Overtaken, Recovered, Recent
<1>10. CASE Wedge
  BY <1>10 DEF Wedge
<1>11. CASE Rollout
  BY <1>11 DEF Rollout, Told, NotTerminating
<1>12. CASE Restart
  <2>1. kubelet'.fails = 0
    BY <1>12 DEF Restart, FreshKubelets
  <2>2. /\ UNCHANGED <<started, probe, steps, jumped>> /\ ~started /\ probe.at = "none"
    BY <1>12 DEF Restart, StartInv
  <2> QED BY <2>1, <2>2
<1>13. CASE ProbeAccepted
  <2>1. /\ UNCHANGED <<stage, tasks, started, toTick, age, kubelet, steps, jumped, stuck>>
        /\ probe.at = "none" /\ probe.set = 0 /\ probe'.set = 0 /\ kubelet.probeIn = 0
    BY <1>13 DEF ProbeAccepted, ProbeDue, NoProbe
  <2> QED BY <2>1 DEF Unbeaten, Overtaken, Recovered, Recent
<1>14. CASE ClockStep
  <2>1. /\ UNCHANGED <<stage, tasks, started, toTick, kubelet, stuck>>
        /\ steps = 0 /\ steps' = 1 /\ probe'.at = probe.at
    BY <1>14 DEF ClockStep, ProbeSettings
  <2> QED BY <2>1
<1> QED
  BY <1>1, <1>2, <1>3, <1>4, <1>6, <1>7, <1>8, <1>9, <1>10, <1>11, <1>12, <1>13, <1>14
     DEF Next, Main, Loop, Kubelet, Faults

(* The invariants of the probe hold. *)
LEMMA ProbeInvariants ==
  ASSUME ProbeSettings
  PROVE  Spec => [](TypeInv /\ HeartInv /\ ExitInv /\ ProbeInv)
<1>1. Init => ProbeInv
  <2> SUFFICES ASSUME Init PROVE ProbeInv
    OBVIOUS
  <2>1. kubelet.fails = 0 /\ kubelet.probeIn \in Nat /\ kubelet.probeIn >= InitialDelay
    BY TimingAssumption DEF Init, FreshKubelets
  <2>2. /\ stage = "connect" /\ waited = 0 /\ probe.at = "none" /\ ~started /\ ~jumped
    BY DEF Init, NoProbe
  <2> QED BY <2>1, <2>2, TimingAssumption
       DEF ProbeInv, StartInv, FailureInv, SetInv, ServedInv, TickerInv, StreakInv
<1>2. TypeInv /\ HeartInv /\ ExitInv /\ ProbeInv /\ [Next]_vars => ProbeInv'
  BY StartStep, FailureStep DEF ProbeInv
<1> QED BY <1>1, <1>2, Invariants, TypeStep, HeartStep, ExitStep, PTL DEF Spec

(* A container whose loop runs is spared: when the first probe comes after *)
(* the wait for the pod cache, and as many failures as it takes span more  *)
(* than a late heartbeat, only a stuck loop or a server that is gone uses  *)
(* up the failure threshold, also if the wall clock is set at the worst    *)
(* moment (health.rs:33, http.rs:53).                                      *)
THEOREM HealthyLoopSpared ==
  ASSUME ProbeSettings
  PROVE  Spec => NeverKilledNeedlessly
<1> DEFINE Kills == kubelet.fails' = FailureThreshold /\ kubelet.fails # FailureThreshold
<1>1. TypeInv /\ HeartInv /\ ExitInv /\ ProbeInv /\ [Next]_vars
        => [Kills => stuck \/ ~Serving]_vars
  <2> SUFFICES ASSUME TypeInv, HeartInv, ExitInv, StartInv, FailureInv, Next, Kills,
                      ~stuck, Serving
               PROVE  FALSE
    BY DEF ProbeInv
  <2> USE TimingAssumption DEF TypeInv, TypeOK
  <2>1. CASE LoadStarted \/ LoadBeat
    <3>1. ~Terminating /\ probe.at # "none" /\ stage # "down"
      BY <2>1 DEF LoadStarted, LoadBeat, Serving
    <3>2. started
      BY <3>1 DEF StartInv
    <3>3. LoadBeat /\ ~Live /\ kubelet.fails + 1 = FailureThreshold
      BY <2>1, <3>2 DEF LoadStarted, LoadBeat, Answered, Told, Live
    <3>4. kubelet.fails * Period > BeatInterval + MaxDelay
      BY <3>3 DEF ProbeSettings
    <3>5. kubelet.fails > 0
      BY <3>4
    <3>6. kubelet.probeIn = 0 /\ toTick >= -MaxDelay
      BY <3>1, <3>2 DEF FailureInv, ServedInv, TickerInv, CatchingUp
    <3>7. ~Unbeaten /\ ~Overtaken
      BY <3>4, <3>6, StreakInt DEF Unbeaten, Overtaken
    <3>8. ~Recovered
      <4>1. Recovered => age <= BeatInterval + MaxDelay /\ probe.set = 0
        BY DEF Recovered, Recent, HeartInv
      <4> QED BY <3>3, <4>1, HorizonInt DEF Live, AgeSeconds
    <3> QED BY <3>1, <3>5, <3>7, <3>8 DEF FailureInv, StreakInv, Fine
  <2>2. CASE Restart
    BY <2>2 DEF Restart, Serving
  <2>3. CASE Rollout
    BY <2>3 DEF Rollout, Told
  <2>4. CASE Tick
    BY <2>4 DEF Tick, Terminating
  <2>5. CASE kubelet' = kubelet
    BY <2>5
  <2>6. CASE ProbeRefused
    BY <2>6 DEF ProbeRefused
  <2>7. Next => \/ LoadStarted \/ LoadBeat \/ Restart \/ Rollout \/ Tick \/ ProbeRefused
                \/ kubelet' = kubelet
    BY DEF Next, Main, Loop, Kubelet, Faults, Connect, Bind, Attach, SpawnTasks, SelectWorker,
           SelectSignal, DefaultDisposition, RuntimeDropped, SyncOver, Seed, MarkStarted,
           TickerFires, EventDone, EventArrives, Wedge, ProbeAccepted, Sigkill, StartupFails,
           SelectSignalFails, Panic, TaskEnds, ClockStep, Gone, Beat, outerVars
  <2> QED BY <2>1, <2>2, <2>3, <2>4, <2>5, <2>6, <2>7
<1>2. [Next]_vars /\ TypeInv /\ HeartInv /\ ExitInv /\ ProbeInv
        => [kubelet.fails' = FailureThreshold /\ kubelet.fails # FailureThreshold
              => stuck \/ ~Serving]_vars
  BY <1>1
<1> QED BY <1>2, ProbeInvariants, PTL DEF Spec, NeverKilledNeedlessly

=============================================================================
