\* Every plan of MCPlans under a budget of five steps and seven tokens.
CONSTANTS
  Nodes = {1, 2, 3}
  Plans <- MCPlans
  MaxSteps = 5
  MaxTokens = 7
  FinalReserve = 1
  StepsEach = 1
  MaxDepth = 3
  Parallel = 2
  Threads = 2
  Fallbacks = 1
  CallTokens = 2
SPECIFICATION FairSpec
CHECK_DEADLOCK FALSE
INVARIANTS BudgetHolds OutcomeEarned
PROPERTIES TaskEnds
