CONSTANTS
  Processes = {p1, p2}
  LastRun = 2
  LastCrash = 1
  None = None
SPECIFICATION FairSpec
INVARIANTS TypeOK PublishedIsSaved
PROPERTIES FlipsToCompleteRun ReadModelsCatchUp
