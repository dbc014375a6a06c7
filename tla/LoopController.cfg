SPECIFICATION FairSpec
CONSTANTS
  NumGoals = 2
  MaxIters = {0, 3}
  RollbackAfter = 2
  StrategyAfter = 1
  BudgetOn = TRUE
  JobsAllowed = TRUE
  MaxCalls = 1
  IterCap = 2
INVARIANTS
  TypeOK
  PassedTagIsGood
  StrategyApplied
  ClosedIsComplete
  SessionInv
PROPERTIES
  RollbackRestores
  LedgerSpec
  Terminates
  LimitsEnd
