SPECIFICATION RewriteSpec
CONSTANTS
  Task <- OneTask
  Run <- NoRun
  Worker <- TwoBackends
  Config = {r1, k1}
  CopyConfig = {k1}
  r1 = r1
  k1 = k1
  NItems = 1
  ResumeBound <- ResumesTwice
  MaxRunEpoch = 0
  MaxControl = 2
  None = None
  Components <- OneEach
  Faults = {"component", "crash"}
  Sample <- ThreeSamples
  Facts <- ThreeFacts
  DuplicateGroup = {}
  AestheticMinimum <- MinimumTwo
  TopScore = 2
  Reviewer = {}
  Client = {}
  Selection <- OnlyThree
  Setting = {}
  MaxDecisions = 1
  MetricsDone = TRUE
  MaxBackup = 2
INVARIANTS FilesAccounted CompletedRestorable
PROPERTIES OnlyConfirmedLeave CompletedAsConfirmed
CHECK_DEADLOCK FALSE
