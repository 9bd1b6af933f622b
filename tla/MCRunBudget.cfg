SPECIFICATION RunBudgetSpec
CONSTANTS
  TopWord = 3
  Amounts = {0, 1, 2}
  Intervals = {1, 3}
  Chunks = {2, 4}
INVARIANTS
  RunBudgetTypeOK
  FuelAccounted
  BudgetExclusive
  DeadlinePrompt
PROPERTY YieldsApart
