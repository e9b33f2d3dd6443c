CONSTANTS
  Refreshers = {r1}
  Posts = {p1, p2}
  Videos = {v1}
  Versions = {a}
  ProcessLimit = 1
  TranscriptBudget = 1
  Faults = {"x", "youtube", "materials", "ledger", "syntheses", "redis"}
  None = None
SPECIFICATION FairSpec
INVARIANTS NoStrandedSource
PROPERTIES LatestRunKeepsSources WindowReachesInbox
