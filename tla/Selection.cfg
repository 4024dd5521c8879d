SPECIFICATION ReviewSpec
CONSTANTS
  Task = {1}
  Run <- TwoRuns
  Worker = {}
  Config = {c1}
  CopyConfig = {c1}
  c1 = c1
  v1 = v1
  x1 = x1
  NItems = 1
  ResumeBound <- NoResumes
  MaxRunEpoch = 1
  MaxControl = 0
  None = None
  Sample <- FiveSamples
  Facts <- FiveFacts
  DuplicateGroup <- TwoGroups
  AestheticMinimum <- NoMinimum
  TopScore = 2
  Reviewer = {v1}
  Client = {x1}
  Selection <- Selections
  Setting <- SomeSettings
  MaxDecisions = 2
  MetricsDone = TRUE
INVARIANTS DecisionChain BalanceTight
PROPERTIES RunsAsConfirmed DuplicatesKeepOne
CHECK_DEADLOCK FALSE
