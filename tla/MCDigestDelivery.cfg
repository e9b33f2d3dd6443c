CONSTANTS
  Generators = {g1, g2}
  Sources = {s1, s2}
  Bodies = {a, b}
  LastDay = 2
  Faults = {}
  None = None
SPECIFICATION Spec
INVARIANTS TypeOK OneMailPerDay SourceInOneIssue NoSourcePassedOver
PROPERTIES SentIssueIsFinal
CHECK_DEADLOCK FALSE
