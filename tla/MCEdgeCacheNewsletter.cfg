CONSTANTS
  Pages <- SecondPages
  LastVersion = 1
  None = None
SPECIFICATION Spec
INVARIANTS
  EdgeFresh
