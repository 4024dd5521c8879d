SPECIFICATION FairSpec
CONSTANTS
  Worker <- TwoWorkers
  w1 = w1
  w2 = w2
  NFiles = 3
  MaxEpoch = 5
  Faults <- AllFaults
  None = None
INVARIANTS TypeOK CursorBehindDisk
PROPERTIES ForeignKept StagingKept ImplementsPublication Settles
CHECK_DEADLOCK FALSE
