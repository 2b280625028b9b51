CONSTANTS
  id1 = id1
  r1 = r1
  s1 = s1
  s2 = s2
  Free = Free
  Ids = {id1}
  Slots = {s1, s2}
  Readers = {r1}
  MAX_TS = 99
  MaxPages = 4
  MaxClock = 1
  MaxBatch = 4
  BlockSize = 4
  Skips = {1}
  Budgets = {0}
  SparseBelow = 2
  PackTo = 2
  MaxMerges = 4096
  SizeRange = 65536
  StoreBuffered = TRUE
  MayRefuse = TRUE
  MayThrow = TRUE
SPECIFICATION FairSpec
CHECK_DEADLOCK TRUE
PROPERTIES SearchReturns
