CONSTANTS
  a = a
  b = b
  c = c
  None = None
  Actions <- TwoActions
  MaxDepth = 2
  MaxIterations = 4
  Concurrency = 3
  Scores = {0, 1}
  Modes <- Careless
  MaxRuns = 2
SPECIFICATION Spec
CHECK_DEADLOCK FALSE
INVARIANTS PublishAtomic Resumable Reattached AllReleased TrajectoryWhole
