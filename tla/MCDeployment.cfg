CONSTANTS
  Sources = {x1}
  Syncs = {s1, s2}
  Refused = {1}
  BatchSize = 2
  LastEvent = 3
  Pages <- ListedPage
  LastVersion = 2
  Callers = {c1, c2}
  OneProcess = TRUE
  Videos = {v1, v2}
  MonthlyLimit = 1
  LastMonth = 2
  LastRun = 1
  LastCrash = 1
  Torn = Torn
  None = None
SPECIFICATION FairSpec
CHECK_DEADLOCK FALSE
INVARIANTS
  TypeOK
  EdgeFresh
PROPERTIES
  ImplementsBudget
  EventsReachGraph
  InOrderUnlessRetried
