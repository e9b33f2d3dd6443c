CONSTANTS
  Sources <- MCSources
  Posts = {1, 2}
  Videos <- MCVideos
  Time <- MCTime
  Windows <- MCWindows
  Made <- MCMade
  Keywords <- MCKeywords
  MaxClusters = 2
  MaxConnections = 2
  MaxEdges = 4
  MaxDegree = 2
  MaxGraph = 6
  MaxInsights = 2
  LastRun = 3
  LastIssue = 2
  Workers = {w1, w2}
  Lists <- MCLists
  JudgeEnabled = TRUE
  LastVersion = 2
  LastCycle = 2
  Users = {u1, u2}
  PublicOwner = public
  Playlists = {p1, p2}
  LastRequest = 3
  LastMove = 1
  None = None
SPECIFICATION Spec
SYMMETRY Same
CHECK_DEADLOCK FALSE
INVARIANTS
  TypeOK
  PagesAgree
  GraphSound
  IssueSound
  WorkersSound
  OwnersSound
