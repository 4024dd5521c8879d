SPECIFICATION FairSpec
CONSTANTS
  Task <- TwoTasks
  Run <- OneRun
  Worker <- Workers
  Config = {c2}
  CopyConfig = {c2}
  c1 = c1
  c2 = c2
  w1 = w1
  w2 = w2
  NItems = 0
  ResumeBound <- NoResumes
  MaxRunEpoch = 2
  MaxControl = 1
  None = None
INVARIANTS TypeOK SlotConsistent ResumeStateSound
PROPERTIES ControlHonored QueueServed RunSettles
CHECK_DEADLOCK FALSE
