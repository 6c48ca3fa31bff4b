\* One unit is 15 seconds; the chart's probe and the crate's constants.
SPECIFICATION Spec
CONSTANTS
  BeatInterval = 2
  SyncTimeout = 1
  MaxDelay = 1
  InitialDelay = 2
  Period = 2
  FailureThreshold = 3
  Grace = 2
  StepSizes <- MCStepSizes
  MaxSteps = 1
INVARIANTS TypeOK AlarmMeansWedged ExitTellsWhy
PROPERTIES NeverKilledNeedlessly NotWedgedForever WorkerDeathEndsProcess
