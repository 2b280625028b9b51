CONSTANTS
  a = a
  b = b
  c = c
  None = None
  Actions <- TwoActions
  MaxDepth = 2
  MaxIterations = 4
  Concurrency = 3
  Scores = {0, 1}
  Modes <- Careful
  MaxRuns = 3
SPECIFICATION FairSpec
CHECK_DEADLOCK FALSE
INVARIANTS TreeSound MemoryMatchesTree
PROPERTIES BudgetSpent RunsEnd
