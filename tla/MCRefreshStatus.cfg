CONSTANTS
  LastRefresh = 3
  LastStage = 2
  Faults = {"redis", "crash"}
  None = None
SPECIFICATION FairSpec
INVARIANTS OneRefresh StoredNotAhead
PROPERTIES RefreshEnds
CHECK_DEADLOCK FALSE
