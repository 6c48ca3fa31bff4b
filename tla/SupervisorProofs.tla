-------------------------- MODULE SupervisorProofs --------------------------
(***************************************************************************)
(* Theorems about Supervisor, for any intervals, delays, probe settings    *)
(* and clock steps that TimingAssumption admits.                           *)
(***************************************************************************)
EXTENDS Supervisor, TLAPS

(* The kubelet counts to the threshold only once. *)
CountInv == ~Terminating => kubelet.fails < FailureThreshold

TypeInv == TypeOK /\ CountInv

(* The last beat is as recent as the ticker lets it be. *)
Recent == age <= 0 \/ (toTick >= -MaxDelay /\ age <= BeatInterval - toTick)

(* What a probe sees of the heartbeat. *)
HeartInv ==
  /\ started <=> loop \in {"select", "busy", "wedged", "ended"}
  /\ probe.at = "started" => started
  /\ probe.at = "none" \/ ~jumped => probe.set = 0
  /\ loop = "ended" => \/ stage = "supervise" /\ tasks["event_processor"] = "ended"
                       \/ stage = "drop"
  /\ loop # "none" => stage \in {"supervise", "drop"}
  /\ toTick <= BeatInterval
  /\ loop = "seeded" /\ ~jumped => age <= 0
  /\ loop \in {"select", "busy", "ended"} /\ ~jumped => Recent

(* What the grace period is spent on. *)
ExitInv ==
  /\ exit = "ok" => signalled
  /\ exit = "killed" => stuck /\ stage = "down"
  /\ Terminating => signalled
  /\ kubelet.term > 0 => stuck
  /\ loop = "wedged" => stuck /\ stage # "down"

-----------------------------------------------------------------------------
(* The limits are numbers, and one late beat is within them. *)
LEMMA HorizonInt == Horizon \in Nat /\ StaleAfter \in Nat /\ BeatInterval + MaxDelay <= StaleAfter
<1>1. MaxSteps * BeatInterval \in Nat
  BY TimingAssumption
<1> DEFINE n == MaxSteps * BeatInterval
<1>2. n \in Nat /\ MaxSteps * BeatInterval = n
  BY <1>1
<1> HIDE DEF n
<1>3. StaleAfter \in Nat
  BY TimingAssumption DEF StaleAfter
<1> QED BY <1>2, <1>3, TimingAssumption DEF Horizon

(* Tasks that are aborted are tasks still. *)
LEMMA AbortedTyped ==
  ASSUME TypeOK
  PROVE  /\ Aborted \in [Tasks -> {"none", "running", "ended", "aborted"}]
         /\ tasks["event_processor"] = "ended" => Aborted["event_processor"] = "ended"
BY DEF TypeOK, Aborted, Tasks

(* The end of the process leaves the types. *)
LEMMA GoneTyped ==
  ASSUME TypeInv, NEW why \in {"ok", "error", "signal", "abort", "killed", "none"}, Gone(why)
  PROVE  TypeInv'
<1> USE TimingAssumption, HorizonInt DEF TypeInv, TypeOK, CountInv, Terminating, Gone
<1>1. tasks' \in [Tasks -> {"none", "running", "ended", "aborted"}]
  BY DEF NoTasks
<1>2. probe' \in [at: {"none", "now", "started"}, set: Int]
  BY DEF NoProbe
<1>3. /\ jumped' \in BOOLEAN /\ started' \in BOOLEAN
      /\ signalled' \in BOOLEAN /\ stuck' \in BOOLEAN
  OBVIOUS
<1>4. stage' \in Stages /\ loop' \in LoopStates /\ waited' \in 0..SyncTimeout
  BY DEF Stages, LoopStates
<1>5. age' \in Int /\ age' <= Horizon /\ toTick' \in Int
  OBVIOUS
<1>6. UNCHANGED <<kubelet, steps>> /\ exit' = why
  OBVIOUS
<1>7. CountInv'
  BY <1>6
<1>8. TypeOK'
  BY <1>1, <1>2, <1>3, <1>4, <1>5, <1>6
<1> QED BY <1>7, <1>8

(* ... and so does an answer, or the lack of one. *)
LEMMA AnsweredTyped ==
  ASSUME TypeInv, NEW ok \in BOOLEAN, ~Terminating, Answered(ok)
  PROVE  /\ probe' \in [at: {"none", "now", "started"}, set: Int]
         /\ stuck' \in BOOLEAN /\ signalled' \in BOOLEAN
         /\ kubelet' \in [probeIn: 0..(InitialDelay + Period), fails: 0..FailureThreshold,
                          term: NotTerminating..Grace]
         /\ CountInv'
         /\ probe'.at = "none" /\ probe'.set = 0
         /\ signalled => signalled'
         /\ kubelet'.term # NotTerminating => signalled'
         /\ kubelet'.term \in {-1, 0}
         /\ loop = "wedged" /\ stuck => stuck'
<1> USE TimingAssumption DEF TypeInv, TypeOK, CountInv, Terminating, NotTerminating
<1>1. /\ probe' \in [at: {"none", "now", "started"}, set: Int]
      /\ probe'.at = "none" /\ probe'.set = 0
  BY DEF Answered, NoProbe
<1>2. stuck' \in BOOLEAN /\ (loop = "wedged" /\ stuck => stuck')
  BY DEF Answered
<1> DEFINE fails == IF ok THEN 0 ELSE kubelet.fails + 1
<1>3. fails \in 0..FailureThreshold
  OBVIOUS
<1>4. CASE fails = FailureThreshold
  <2>1. kubelet' = Told(fails) /\ signalled' = TRUE
    BY <1>4 DEF Answered
  <2>2. kubelet' = [probeIn |-> 0, fails |-> fails, term |-> 0]
    BY <2>1 DEF Told
  <2> HIDE DEF fails
  <2> QED BY <1>1, <1>2, <1>3, <1>4, <2>1, <2>2
<1>5. CASE fails # FailureThreshold
  <2>1. kubelet' = [kubelet EXCEPT !.probeIn = Period, !.fails = fails] /\ signalled' = signalled
    BY <1>5 DEF Answered
  <2> HIDE DEF fails
  <2>2. signalled' \in BOOLEAN /\ (signalled => signalled')
    BY <2>1
  <2> DEFINE K == [probeIn: 0..(InitialDelay + Period), fails: 0..FailureThreshold, term: -1..Grace]
  <2>a. kubelet \in K /\ Period \in 0..(InitialDelay + Period)
    OBVIOUS
  <2>3. /\ kubelet'.term = kubelet.term /\ kubelet'.fails = fails
        /\ kubelet' \in [probeIn: 0..(InitialDelay + Period), fails: 0..FailureThreshold,
                          term: -1..Grace]
    BY <2>1, <2>a, <1>3
  <2>4. CountInv'
    BY <2>3, <1>3, <1>5
  <2> QED BY <1>1, <1>2, <2>2, <2>3, <2>4
<1> QED BY <1>4, <1>5

-----------------------------------------------------------------------------
(* Every step keeps the types. *)
LEMMA TypeStep == TypeInv /\ [Next]_vars => TypeInv'
<1> SUFFICES ASSUME TypeInv, [Next]_vars PROVE TypeInv'
  OBVIOUS
<1> USE TimingAssumption, HorizonInt
     DEF TypeInv, TypeOK, CountInv, Terminating, Stages, LoopStates, mainVars, loopVars, outerVars
<1>1. ASSUME Connect PROVE TypeInv'
  BY <1>1 DEF Connect
<1>2. ASSUME Bind PROVE TypeInv'
  BY <1>2 DEF Bind
<1>3. ASSUME Attach PROVE TypeInv'
  BY <1>3 DEF Attach
<1>4. ASSUME SpawnTasks PROVE TypeInv'
  BY <1>4 DEF SpawnTasks
<1>5. ASSUME NEW t \in Tasks, SelectWorker(t) PROVE TypeInv'
  BY <1>5, AbortedTyped DEF SelectWorker
<1>6. ASSUME SelectSignal PROVE TypeInv'
  BY <1>6, AbortedTyped DEF SelectSignal
<1>7. ASSUME DefaultDisposition PROVE TypeInv'
  BY <1>7, GoneTyped DEF DefaultDisposition
<1>8. ASSUME RuntimeDropped PROVE TypeInv'
  <2>1. exit \in {"ok", "error", "signal", "abort", "killed", "none"}
    OBVIOUS
  <2> QED BY <1>8, <2>1, GoneTyped DEF RuntimeDropped
<1>9. ASSUME SyncOver PROVE TypeInv'
  BY <1>9 DEF SyncOver
<1>10. ASSUME Seed PROVE TypeInv'
  <2>1. jumped' \in BOOLEAN
    BY <1>10 DEF Seed, Beat
  <2>2. /\ loop' = "seeded" /\ age' = 0
        /\ UNCHANGED <<toTick, waited, started, stage, tasks, exit, signalled, probe, kubelet, steps, stuck>>
    BY <1>10 DEF Seed, Beat
  <2> QED BY <2>1, <2>2
<1>11. ASSUME MarkStarted PROVE TypeInv'
  BY <1>11 DEF MarkStarted
<1>12. ASSUME TickerFires PROVE TypeInv'
  <2>1. jumped' \in BOOLEAN
    BY <1>12 DEF TickerFires, Beat
  <2>2. /\ toTick' = toTick + BeatInterval /\ age' = 0
        /\ UNCHANGED <<loop, waited, started, stage, tasks, exit, signalled, probe, kubelet, steps, stuck>>
    BY <1>12 DEF TickerFires, Beat
  <2> QED BY <2>1, <2>2
<1>13. ASSUME EventDone PROVE TypeInv'
  <2>1. jumped' \in BOOLEAN
    BY <1>13 DEF EventDone, Beat
  <2>2. /\ loop' = "select" /\ age' = 0
        /\ UNCHANGED <<toTick, waited, started, stage, tasks, exit, signalled, probe, kubelet, steps, stuck>>
    BY <1>13 DEF EventDone, Beat
  <2> QED BY <2>1, <2>2
<1>14. ASSUME ProbeAccepted PROVE TypeInv'
  BY <1>14 DEF ProbeAccepted, NoProbe
<1>15. ASSUME ProbeRefused PROVE TypeInv'
  <2>1. ~Terminating /\ Answered(FALSE)
    BY <1>15 DEF ProbeRefused, ProbeDue
  <2>2. UNCHANGED <<stage, tasks, exit, loop, waited, toTick, started, age, steps, jumped>>
    BY <1>15 DEF ProbeRefused
  <2> HIDE DEF TypeInv, TypeOK, CountInv, Terminating
  <2>3. /\ probe' \in [at: {"none", "now", "started"}, set: Int]
        /\ stuck' \in BOOLEAN /\ signalled' \in BOOLEAN /\ CountInv'
        /\ kubelet' \in [probeIn: 0..(InitialDelay + Period), fails: 0..FailureThreshold,
                         term: NotTerminating..Grace]
    BY <2>1, AnsweredTyped
  <2> QED BY <2>2, <2>3 DEF TypeInv, TypeOK
<1>16. ASSUME LoadStarted PROVE TypeInv'
  <2>1. CASE started
    BY <1>16, <2>1 DEF LoadStarted
  <2>2. CASE ~started
    BY <1>16, <2>2, AnsweredTyped DEF LoadStarted
  <2> QED BY <2>1, <2>2
<1>17. ASSUME LoadBeat PROVE TypeInv'
  <2>1. Live \in BOOLEAN
    BY DEF Live
  <2> QED BY <1>17, <2>1, AnsweredTyped DEF LoadBeat
<1>18. ASSUME Sigkill PROVE TypeInv'
  BY <1>18, GoneTyped DEF Sigkill
<1>19. ASSUME Restart PROVE TypeInv'
  <2>1. /\ kubelet'.fails = 0
        /\ kubelet' \in [probeIn: 0..(InitialDelay + Period), fails: 0..FailureThreshold,
                        term: NotTerminating..Grace]
    BY <1>19 DEF Restart, FreshKubelets, NotTerminating
  <2>2. CountInv' 
    BY <2>1
  <2>3. stuck' \in BOOLEAN /\ signalled' \in BOOLEAN /\ stage' = "connect" /\ exit' = "none"
    BY <1>19 DEF Restart
  <2>4. UNCHANGED <<tasks, loop, waited, toTick, started, age, probe, steps, jumped>>
    BY <1>19 DEF Restart
  <2> QED BY <2>1, <2>2, <2>3, <2>4
<1>20. ASSUME StartupFails PROVE TypeInv'
  BY <1>20 DEF StartupFails
<1>21. ASSUME SelectSignalFails PROVE TypeInv'
  BY <1>21 DEF SelectSignalFails
<1>22. ASSUME Panic PROVE TypeInv'
  BY <1>22, GoneTyped DEF Panic
<1>23. ASSUME NEW t \in Tasks, TaskEnds(t) PROVE TypeInv'
  BY <1>23 DEF TaskEnds
<1>24. ASSUME EventArrives PROVE TypeInv'
  BY <1>24 DEF EventArrives
<1>25. ASSUME Wedge PROVE TypeInv'
  BY <1>25 DEF Wedge
<1>26. ASSUME Rollout PROVE TypeInv'
  BY <1>26 DEF Rollout, Told, NoProbe, NotTerminating
<1>27. ASSUME ClockStep PROVE TypeInv'
  BY <1>27 DEF ClockStep, Aged
<1>28. ASSUME Tick PROVE TypeInv'
  BY <1>28 DEF Tick, Urgent, SyncTimedOut, ProbeDue, Aged, NotTerminating
<1>29. CASE UNCHANGED vars
  BY <1>29 DEF vars
<1> QED
  BY <1>1, <1>2, <1>3, <1>4, <1>5, <1>6, <1>7, <1>8, <1>9, <1>10, <1>11, <1>12, <1>13,
     <1>14, <1>15, <1>16, <1>17, <1>18, <1>19, <1>20, <1>21, <1>22, <1>23, <1>24, <1>25,
     <1>26, <1>27, <1>28, <1>29
     DEF Next, Main, Loop, Kubelet, Faults

(* Every step keeps the heartbeat recent. *)
LEMMA HeartStep == TypeInv /\ HeartInv /\ [Next]_vars => HeartInv'
<1> SUFFICES ASSUME TypeInv, HeartInv, [Next]_vars PROVE HeartInv'
  OBVIOUS
<1> USE TimingAssumption, HorizonInt
     DEF TypeInv, TypeOK, HeartInv, Recent, mainVars, loopVars, outerVars, Stages, LoopStates
<1>1. ASSUME Connect PROVE HeartInv'
  BY <1>1 DEF Connect
<1>2. ASSUME Bind PROVE HeartInv'
  BY <1>2 DEF Bind
<1>3. ASSUME Attach PROVE HeartInv'
  BY <1>3 DEF Attach
<1>4. ASSUME SpawnTasks PROVE HeartInv'
  BY <1>4 DEF SpawnTasks, Tasks
<1>5. ASSUME NEW t \in Tasks, SelectWorker(t) PROVE HeartInv'
  BY <1>5, AbortedTyped DEF SelectWorker, LoopRuns
<1>6. ASSUME SelectSignal PROVE HeartInv'
  BY <1>6, AbortedTyped DEF SelectSignal
<1>7. ASSUME DefaultDisposition PROVE HeartInv'
  BY <1>7 DEF DefaultDisposition, Gone, NoProbe
<1>8. ASSUME RuntimeDropped PROVE HeartInv'
  BY <1>8 DEF RuntimeDropped, Gone, NoProbe
<1>9. ASSUME SyncOver PROVE HeartInv'
  BY <1>9 DEF SyncOver, LoopRuns
<1>10. ASSUME Seed PROVE HeartInv'
  <2>1. ~jumped' => ~jumped \/ probe.at = "none"
    BY <1>10 DEF Seed, Beat
  <2>2. /\ loop' = "seeded" /\ age' = 0
        /\ UNCHANGED <<toTick, waited, started, stage, tasks, probe>>
    BY <1>10 DEF Seed, Beat
  <2>3. stage \in {"supervise", "drop"} /\ loop = "mark"
    BY <1>10 DEF Seed
  <2> QED BY <2>1, <2>2, <2>3
<1>11. ASSUME MarkStarted PROVE HeartInv'
  BY <1>11 DEF MarkStarted, LoopRuns
<1>12. ASSUME TickerFires PROVE HeartInv'
  <2>1. ~jumped' => ~jumped \/ probe.at = "none"
    BY <1>12 DEF TickerFires, Beat
  <2>2. /\ toTick' = toTick + BeatInterval /\ age' = 0
        /\ UNCHANGED <<loop, waited, started, stage, tasks, probe>>
    BY <1>12 DEF TickerFires, Beat
  <2>3. stage \in {"supervise", "drop"} /\ loop = "select" /\ toTick <= 0
    BY <1>12 DEF TickerFires
  <2> QED BY <2>1, <2>2, <2>3
<1>13. ASSUME EventDone PROVE HeartInv'
  <2>1. ~jumped' => ~jumped \/ probe.at = "none"
    BY <1>13 DEF EventDone, Beat
  <2>2. /\ loop' = "select" /\ age' = 0
        /\ UNCHANGED <<toTick, waited, started, stage, tasks, probe>>
    BY <1>13 DEF EventDone, Beat
  <2>3. stage \in {"supervise", "drop"} /\ loop \in {"busy", "wedged"}
    BY <1>13 DEF EventDone
  <2> QED BY <2>1, <2>2, <2>3
<1>14. ASSUME ProbeAccepted PROVE HeartInv'
  BY <1>14 DEF ProbeAccepted, NoProbe
<1>15. ASSUME ProbeRefused PROVE HeartInv'
  <2>1. ~Terminating /\ Answered(FALSE)
    BY <1>15 DEF ProbeRefused, ProbeDue
  <2>2. UNCHANGED <<stage, tasks, exit, loop, waited, toTick, started, age, steps, jumped>>
    BY <1>15 DEF ProbeRefused
  <2> QED BY <2>1, <2>2, AnsweredTyped
<1>16. ASSUME LoadStarted PROVE HeartInv'
  <2>1. CASE started
    BY <1>16, <2>1 DEF LoadStarted
  <2>2. CASE ~started
    <3>1. ~Terminating /\ Answered(FALSE)
      BY <1>16, <2>2 DEF LoadStarted
    <3>2. UNCHANGED <<stage, tasks, exit, loop, waited, toTick, started, age, steps, jumped>>
      BY <1>16 DEF LoadStarted
    <3> QED BY <3>1, <3>2, AnsweredTyped
  <2> QED BY <2>1, <2>2
<1>17. ASSUME LoadBeat PROVE HeartInv'
  <2>1. ~Terminating /\ Answered(Live) /\ Live \in BOOLEAN
    BY <1>17 DEF LoadBeat, Live
  <2>2. UNCHANGED <<stage, tasks, exit, loop, waited, toTick, started, age, steps, jumped>>
    BY <1>17 DEF LoadBeat
  <2> QED BY <2>1, <2>2, AnsweredTyped
<1>18. ASSUME Sigkill PROVE HeartInv'
  BY <1>18 DEF Sigkill, Gone, NoProbe
<1>19. ASSUME Restart PROVE HeartInv'
  BY <1>19 DEF Restart, NoProbe
<1>20. ASSUME StartupFails PROVE HeartInv'
  BY <1>20 DEF StartupFails
<1>21. ASSUME SelectSignalFails PROVE HeartInv'
  BY <1>21 DEF SelectSignalFails
<1>22. ASSUME Panic PROVE HeartInv'
  BY <1>22 DEF Panic, Gone, NoProbe
<1>23. ASSUME NEW t \in Tasks, TaskEnds(t) PROVE HeartInv'
  BY <1>23 DEF TaskEnds, Tasks
<1>24. ASSUME EventArrives PROVE HeartInv'
  BY <1>24 DEF EventArrives, LoopRuns
<1>25. ASSUME Wedge PROVE HeartInv'
  BY <1>25 DEF Wedge, LoopRuns
<1>26. ASSUME Rollout PROVE HeartInv'
  BY <1>26 DEF Rollout, NoProbe
<1>27. ASSUME ClockStep PROVE HeartInv'
  BY <1>27 DEF ClockStep, Aged
<1>28. ASSUME Tick PROVE HeartInv'
  BY <1>28 DEF Tick, Urgent, Tasks, Aged
<1>29. CASE UNCHANGED vars
  BY <1>29 DEF vars
<1> QED
  BY <1>1, <1>2, <1>3, <1>4, <1>5, <1>6, <1>7, <1>8, <1>9, <1>10, <1>11, <1>12, <1>13,
     <1>14, <1>15, <1>16, <1>17, <1>18, <1>19, <1>20, <1>21, <1>22, <1>23, <1>24, <1>25,
     <1>26, <1>27, <1>28, <1>29
     DEF Next, Main, Loop, Kubelet, Faults

(* Every step keeps the reason of a long termination. *)
LEMMA ExitStep == TypeInv /\ ExitInv /\ [Next]_vars => ExitInv'
<1> SUFFICES ASSUME TypeInv, ExitInv, [Next]_vars PROVE ExitInv'
  OBVIOUS
<1> USE TimingAssumption
     DEF TypeInv, TypeOK, ExitInv, Terminating, mainVars, loopVars, outerVars, Stages,
         LoopStates, NotTerminating
<1>1. ASSUME Connect PROVE ExitInv'
  BY <1>1 DEF Connect
<1>2. ASSUME Bind PROVE ExitInv'
  BY <1>2 DEF Bind
<1>3. ASSUME Attach PROVE ExitInv'
  BY <1>3 DEF Attach
<1>4. ASSUME SpawnTasks PROVE ExitInv'
  BY <1>4 DEF SpawnTasks
<1>5. ASSUME NEW t \in Tasks, SelectWorker(t) PROVE ExitInv'
  BY <1>5 DEF SelectWorker
<1>6. ASSUME SelectSignal PROVE ExitInv'
  BY <1>6 DEF SelectSignal, SigtermReceived
<1>7. ASSUME DefaultDisposition PROVE ExitInv'
  BY <1>7 DEF DefaultDisposition, Gone
<1>8. ASSUME RuntimeDropped PROVE ExitInv'
  BY <1>8 DEF RuntimeDropped, Gone
<1>9. ASSUME SyncOver PROVE ExitInv'
  BY <1>9 DEF SyncOver
<1>10. ASSUME Seed PROVE ExitInv'
  BY <1>10 DEF Seed, Beat
<1>11. ASSUME MarkStarted PROVE ExitInv'
  BY <1>11 DEF MarkStarted
<1>12. ASSUME TickerFires PROVE ExitInv'
  BY <1>12 DEF TickerFires, Beat
<1>13. ASSUME EventDone PROVE ExitInv'
  BY <1>13 DEF EventDone, Beat
<1>14. ASSUME ProbeAccepted PROVE ExitInv'
  BY <1>14 DEF ProbeAccepted
<1>15. ASSUME ProbeRefused PROVE ExitInv'
  <2>1. ~Terminating /\ Answered(FALSE)
    BY <1>15 DEF ProbeRefused, ProbeDue
  <2>2. UNCHANGED <<stage, tasks, exit, loop, waited, toTick, started, age, steps, jumped>>
    BY <1>15 DEF ProbeRefused
  <2> HIDE DEF TypeInv, TypeOK, Terminating
  <2>3. /\ signalled => signalled'
        /\ kubelet'.term # NotTerminating => signalled'
        /\ kubelet'.term \in {-1, 0}
        /\ loop = "wedged" /\ stuck => stuck'
    BY <2>1, AnsweredTyped
  <2>4. exit # "killed"
    BY <1>15 DEF ProbeRefused, ProbeDue
  <2> QED BY <2>2, <2>3, <2>4 DEF ExitInv, Terminating
<1>16. ASSUME LoadStarted PROVE ExitInv'
  <2>1. CASE started
    BY <1>16, <2>1 DEF LoadStarted
  <2>2. CASE ~started
    <3>1. ~Terminating /\ Answered(FALSE)
      BY <1>16, <2>2 DEF LoadStarted
    <3>2. UNCHANGED <<stage, tasks, exit, loop, waited, toTick, started, age, steps, jumped>>
      BY <1>16 DEF LoadStarted
    <3> HIDE DEF TypeInv, TypeOK, Terminating
    <3>3. /\ signalled => signalled'
          /\ kubelet'.term # NotTerminating => signalled'
          /\ kubelet'.term \in {-1, 0}
          /\ loop = "wedged" /\ stuck => stuck'
      BY <3>1, AnsweredTyped
    <3>4. exit # "killed"
      BY <1>16 DEF LoadStarted, Serving
    <3> QED BY <3>2, <3>3, <3>4 DEF ExitInv, Terminating
  <2> QED BY <2>1, <2>2
<1>17. ASSUME LoadBeat PROVE ExitInv'
  <2>1. ~Terminating /\ Answered(Live) /\ Live \in BOOLEAN
    BY <1>17 DEF LoadBeat, Live
  <2>2. UNCHANGED <<stage, tasks, exit, loop, waited, toTick, started, age, steps, jumped>>
    BY <1>17 DEF LoadBeat
  <2> HIDE DEF TypeInv, TypeOK, Terminating
  <2>3. /\ signalled => signalled'
        /\ kubelet'.term # NotTerminating => signalled'
        /\ kubelet'.term \in {-1, 0}
        /\ loop = "wedged" /\ stuck => stuck'
    BY <2>1, AnsweredTyped
  <2>4. exit # "killed"
    BY <1>17 DEF LoadBeat, Serving
  <2> QED BY <2>2, <2>3, <2>4 DEF ExitInv, Terminating
<1>18. ASSUME Sigkill PROVE ExitInv'
  BY <1>18 DEF Sigkill, Gone
<1>19. ASSUME Restart PROVE ExitInv'
  <2>1. kubelet'.term = -1 /\ exit' = "none" /\ loop' = loop
    BY <1>19 DEF Restart, FreshKubelets
  <2>2. loop # "wedged"
    BY <1>19 DEF Restart
  <2> QED BY <2>1, <2>2
<1>20. ASSUME StartupFails PROVE ExitInv'
  BY <1>20 DEF StartupFails
<1>21. ASSUME SelectSignalFails PROVE ExitInv'
  BY <1>21 DEF SelectSignalFails
<1>22. ASSUME Panic PROVE ExitInv'
  BY <1>22 DEF Panic, Gone
<1>23. ASSUME NEW t \in Tasks, TaskEnds(t) PROVE ExitInv'
  BY <1>23 DEF TaskEnds
<1>24. ASSUME EventArrives PROVE ExitInv'
  BY <1>24 DEF EventArrives
<1>25. ASSUME Wedge PROVE ExitInv'
  BY <1>25 DEF Wedge, LoopRuns
<1>26. ASSUME Rollout PROVE ExitInv'
  <2>1. signalled' /\ (loop = "wedged" => stuck') /\ kubelet'.term = 0
    BY <1>26 DEF Rollout, Told
  <2>2. exit' = exit /\ loop' = loop /\ stage' = stage /\ stage # "down" /\ exit # "killed"
    BY <1>26 DEF Rollout
  <2> QED BY <2>1, <2>2
<1>27. ASSUME ClockStep PROVE ExitInv'
  BY <1>27 DEF ClockStep
<1>28. ASSUME Tick PROVE ExitInv'
  BY <1>28 DEF Tick, Urgent, SigtermReceived
<1>29. CASE UNCHANGED vars
  BY <1>29 DEF vars
<1> QED
  BY <1>1, <1>2, <1>3, <1>4, <1>5, <1>6, <1>7, <1>8, <1>9, <1>10, <1>11, <1>12, <1>13,
     <1>14, <1>15, <1>16, <1>17, <1>18, <1>19, <1>20, <1>21, <1>22, <1>23, <1>24, <1>25,
     <1>26, <1>27, <1>28, <1>29
     DEF Next, Main, Loop, Kubelet, Faults

-----------------------------------------------------------------------------
(* The first state. *)
LEMMA InitHolds == Init => TypeInv /\ HeartInv /\ ExitInv
<1> SUFFICES ASSUME Init PROVE TypeInv /\ HeartInv /\ ExitInv
  OBVIOUS
<1> USE TimingAssumption, HorizonInt DEF Init
<1>1. kubelet.fails = 0 /\ kubelet.term = -1
  BY DEF FreshKubelets, NotTerminating
<1>2. kubelet \in [probeIn: 0..(InitialDelay + Period), fails: 0..FailureThreshold,
                  term: NotTerminating..Grace]
  BY DEF FreshKubelets, NotTerminating
<1>3. probe \in [at: {"none", "now", "started"}, set: Int] /\ probe.at = "none" /\ probe.set = 0
  BY DEF NoProbe
<1>4. tasks \in [Tasks -> {"none", "running", "ended", "aborted"}]
  BY DEF NoTasks
<1>5. TypeInv
  <2>1. signalled \in BOOLEAN /\ started \in BOOLEAN /\ jumped \in BOOLEAN /\ stuck \in BOOLEAN
    OBVIOUS
  <2>2. stage \in Stages /\ loop \in LoopStates
    BY DEF Stages, LoopStates
  <2>3. waited \in 0..SyncTimeout /\ steps \in 0..MaxSteps
    OBVIOUS
  <2>4. toTick \in Int /\ age \in Int /\ age <= Horizon /\ exit = "none"
    OBVIOUS
  <2> HIDE DEF Init
  <2>5. CountInv
    BY <1>1 DEF CountInv, Terminating
  <2> QED BY <1>2, <1>3, <1>4, <2>1, <2>2, <2>3, <2>4, <2>5 DEF TypeInv, TypeOK
<1>6. HeartInv
  BY <1>3 DEF HeartInv
<1>7. ExitInv
  BY <1>1 DEF ExitInv, Terminating, NotTerminating
<1> QED BY <1>5, <1>6, <1>7

(* The invariants hold together. *)
LEMMA Invariants == Spec => [](TypeInv /\ HeartInv /\ ExitInv)
<1>1. TypeInv /\ HeartInv /\ ExitInv /\ [Next]_vars => (TypeInv /\ HeartInv /\ ExitInv)'
  BY TypeStep, HeartStep, ExitStep
<1> QED BY <1>1, InitHolds, PTL DEF Spec

(* Types: main's stages, the tasks' handles, the heartbeat and the         *)
(* kubelet's counts stay within their ranges, the wait for the pod cache   *)
(* within its timeout.                                                     *)
THEOREM TypeCorrect == Spec => []TypeOK
<1>1. TypeInv => TypeOK
  BY DEF TypeInv
<1> QED BY <1>1, Invariants, PTL

(* The alarm is sound: whatever the intervals, as long as one interval and *)
(* the scheduler's delay fit in the limit, a heartbeat that /healthz calls *)
(* stale belongs to a stuck loop or to a clock that was set.               *)
THEOREM AlarmSound == Spec => []AlarmMeansWedged
<1>1. TypeInv /\ HeartInv => AlarmMeansWedged
  <2> SUFFICES ASSUME TypeInv, HeartInv, probe.at = "started", loop # "wedged", ~jumped
               PROVE  Live
    BY DEF AlarmMeansWedged
  <2> USE TimingAssumption, HorizonInt DEF TypeInv, TypeOK, HeartInv
  <2>1. probe.set = 0 /\ loop \in {"select", "busy", "ended"}
    OBVIOUS
  <2>2. age <= BeatInterval + MaxDelay
    BY <2>1 DEF Recent
  <2> QED BY <2>1, <2>2 DEF Live, AgeSeconds
<1> QED BY <1>1, Invariants, PTL

(* A SIGTERM is heeded: the process ends with success only when asked, and *)
(* only a stuck loop makes a termination last the whole grace period.      *)
THEOREM ExitExplained == Spec => []ExitTellsWhy
<1>1. ExitInv => ExitTellsWhy
  BY DEF ExitInv, ExitTellsWhy
<1> QED BY <1>1, Invariants, PTL

=============================================================================
