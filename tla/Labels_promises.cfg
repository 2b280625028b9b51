CONSTANTS
  Forever = 99
  Nothing = Nothing
  Ids = {1, 2}
  MainVals = {1}
  BranchVals = {2}
  Names = {b1, b2}
  Agents = {a1, a2}
  Overlaps = FALSE
  MaxBranches = 2
  MaxClock = 4
  MaxViews = 2
SPECIFICATION KilledSpec
CHECK_DEADLOCK FALSE
INVARIANTS BranchSees ForkSees MainTravels MainSees
