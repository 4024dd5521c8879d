SPECIFICATION FairSpec
CONSTANTS
  Model <- OneAndTwo
  NFiles <- FileCounts
  Order <- SecondNeedsFirst
  Wanted = {2}
  Size = 2
  Faults = {"refused", "cut", "wrong", "restart", "crash"}
  MaxRequest = 2
  MaxRestart = 1
  Spoils <- DependencyOnly
INVARIANTS InstalledWhole RunsOnWhole
PROPERTIES DownloadedKept WaitEnds
CHECK_DEADLOCK FALSE
