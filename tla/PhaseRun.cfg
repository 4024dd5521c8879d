SPECIFICATION PhaseRunFairSpec
CONSTANTS
  Task <- OneTask
  Run <- NoRun
  Worker <- TwoBackends
  Config = {c1, c2}
  CopyConfig = {c1, c2}
  c1 = c1
  c2 = c2
  NItems = 2
  ResumeBound <- ResumesOnce
  MaxRunEpoch = 0
  MaxControl = 2
  None = None
  Components <- SmallPlans
  Faults = {"component", "startup", "expiry", "crash"}
INVARIANT RunnerHandsBack
PROPERTIES PhasePassedWhole StopEnds
CHECK_DEADLOCK FALSE
