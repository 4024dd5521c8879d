SPECIFICATION Spec
CONSTANTS
  Task <- OneTask
  Run <- OneRun
  Worker <- Workers
  Config = {c1, c2}
  CopyConfig = {c2}
  c1 = c1
  c2 = c2
  w1 = w1
  w2 = w2
  NItems = 2
  ResumeBound <- ResumesAlong
  MaxRunEpoch = 0
  MaxControl = 1
  None = None
SYMMETRY WorkerSymmetry
INVARIANTS HolderNeverConflicts CheckpointChain PhasesCovered EvidenceBacked
PROPERTIES ImplementsFencedSlot
CHECK_DEADLOCK FALSE
