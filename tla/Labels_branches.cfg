CONSTANTS
  Forever = 99
  Nothing = Nothing
  Ids = {1}
  MainVals = {1}
  BranchVals = {2}
  Names = {b1, b2}
  Agents = {a1, a2}
  Overlaps = FALSE
  MaxBranches = 2
  MaxClock = 5
  MaxViews = 2
SPECIFICATION Spec
CHECK_DEADLOCK FALSE
SYMMETRY Symmetry
INVARIANTS MemorySound MainSees CleanBranchSees
