SPECIFICATION AuditSpec
CONSTANTS
  Opened = {"style", "aesthetic", "duplicates", "risk"}
  Asked = {"all", "pending_review", "approved_exclude"}
  Sample = {1, 2}
  Items <- SomeItems
  Automatic <- SomeAutomatic
  Rank <- SameRank
  Earlier <- TwoOverlays
  PageSize = 1
  MaxLoads = 2
  MaxDecisions = 2
  None = None
INVARIANTS ShownIsCurrent KeepsOne SubmissionsLand
CHECK_DEADLOCK FALSE
