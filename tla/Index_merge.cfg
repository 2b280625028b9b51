CONSTANTS
  id1 = id1
  id2 = id2
  s1 = s1
  s2 = s2
  s3 = s3
  Free = Free
  Ids = {id1, id2}
  Slots = {s1, s2, s3}
  Readers = {}
  MAX_TS = 99
  MaxPages = 6
  MaxClock = 5
  MaxBatch = 1
  BlockSize = 1
  Skips = {1}
  Budgets = {0}
  SparseBelow = 2
  PackTo = 2
  MaxMerges = 4096
  SizeRange = 65536
  StoreBuffered = FALSE
  MayRefuse = FALSE
  MayThrow = FALSE
SPECIFICATION Spec
CHECK_DEADLOCK FALSE
SYMMETRY Symmetric
INVARIANTS TimeTravel LocationsExact ClosedIsQueued
