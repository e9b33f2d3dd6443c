CONSTANTS
  Refreshers = {r1}
  Posts = {p1, p2}
  Videos = {}
  Versions = {a}
  ProcessLimit = 1
  TranscriptBudget = 1
  Faults = {"latest"}
  None = None
SPECIFICATION Spec
PROPERTIES LatestRunKeepsSources
