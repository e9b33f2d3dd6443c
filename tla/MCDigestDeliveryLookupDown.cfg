CONSTANTS
  Generators = {g1}
  Sources = {s1, s2}
  Bodies = {a, b}
  LastDay = 2
  Faults = {"digest"}
  None = None
SPECIFICATION Spec
PROPERTIES SentIssueIsFinal
