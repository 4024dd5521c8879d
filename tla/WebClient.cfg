SPECIFICATION ClientSpec
CONSTANTS
  Task = {gated, exporting}
  gated = gated
  exporting = exporting
  Starts <- OneStart
  Remembered = {gated}
  Leads <- SomeLeads
  Controls <- SomeControls
  Removable = {"failed"}
  MaxEvents = 2
  MaxClicks = 2
  MaxFaults = 1
  MaxTrouble = 2
  None = None
INVARIANTS AnnouncedOnce
PROPERTIES DetailsAdvance CatchesUp
CHECK_DEADLOCK FALSE
