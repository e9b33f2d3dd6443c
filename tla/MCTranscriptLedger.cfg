CONSTANTS
  Workers = {w1, w2}
  Videos = {v1, v2, v3}
  MonthlyLimit = 1
  LastMonth = 2
  None = None
SPECIFICATION FairSpec
INVARIANTS
  TypeOK
  BudgetRespected
  RequestedAtMostOnce
PROPERTIES
  CompletedIsFinal
  ImplementsBudget
  ClaimEnds
