SPECIFICATION Spec
CONSTANTS
  Budget = 9
  Window = 4
  StrategyAfter = 1
  RollbackAfter = 3
  HasGood = TRUE
  MaxCalls = 2
  ResultSizes = {1, 2}
  Sizes = {1, 4, 7}
  MaxIter = 5
INVARIANTS
  TypeOK
  FailureShown
  PromptIsPacked
  AdviceShown
  CallsAnswered
