CONSTANTS
  id1 = id1
  s1 = s1
  s2 = s2
  Free = Free
  Ids = {id1}
  Slots = {s1, s2}
  Readers = {}
  MAX_TS = 99
  MaxPages = 4
  MaxClock = 3
  MaxBatch = 3
  BlockSize = 3
  Skips = {1}
  Budgets = {0, 1}
  SparseBelow = 2
  PackTo = 2
  MaxMerges = 4096
  SizeRange = 65536
  StoreBuffered = FALSE
  MayRefuse = FALSE
  MayThrow = FALSE
SPECIFICATION Spec
CHECK_DEADLOCK FALSE
SYMMETRY Symmetric
INVARIANTS VacuumReclaimsAll BudgetKept
