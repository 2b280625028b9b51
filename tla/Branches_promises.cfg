CONSTANTS
  Forever = 99
  Nothing = Nothing
  Ids = {1, 2}
  Vals = {1}
  BranchVals = {3}
  Names = {b1, b2}
  Agents = {a1}
  Strategy = "fail_on_conflict"
  Shared = FALSE
  DeepForks = FALSE
  MaxClock = 3
  MaxLocal = 2
  MaxBranches = 2
SPECIFICATION Spec
CHECK_DEADLOCK FALSE
INVARIANTS TopK ConflictsTrue
