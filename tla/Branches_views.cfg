CONSTANTS
  Forever = 99
  Nothing = Nothing
  Ids = {1, 2}
  Vals = {1}
  BranchVals = {2}
  Names = {b1, b2}
  Agents = {a1}
  Strategy = "fail_on_conflict"
  Shared = FALSE
  DeepForks = FALSE
  MaxClock = 3
  MaxLocal = 2
  MaxBranches = 2
SPECIFICATION Spec
CHECK_DEADLOCK FALSE
SYMMETRY Symmetry
INVARIANTS MemorySound Snapshots
PROPERTIES Implements
