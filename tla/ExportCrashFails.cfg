SPECIFICATION Spec
CONSTANTS
  Worker <- OneWorker
  w1 = w1
  w2 = w2
  NFiles = 2
  MaxEpoch = 3
  Faults <- NoFaults
  None = None
INVARIANT CrashNeverFails
CHECK_DEADLOCK FALSE
