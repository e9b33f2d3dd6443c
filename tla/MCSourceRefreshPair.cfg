CONSTANTS
  Refreshers = {r1, r2}
  Posts = {p1}
  Videos = {}
  Versions = {a, b}
  ProcessLimit = 1
  TranscriptBudget = 1
  Faults = {"redis", "syntheses", "abort"}
  None = None
SPECIFICATION Spec
INVARIANTS TypeOK RunsGrounded IndexGrounded
