CONSTANTS
  id1 = id1
  id2 = id2
  r1 = r1
  s1 = s1
  s2 = s2
  Free = Free
  Ids = {id1, id2}
  Slots = {s1, s2}
  Readers = {r1}
  MAX_TS = 99
  MaxPages = 4
  MaxClock = 3
  MaxBatch = 1
  BlockSize = 1
  Skips = {1}
  Budgets = {0}
  SparseBelow = 2
  PackTo = 2
  MaxMerges = 4096
  SizeRange = 65536
  StoreBuffered = FALSE
  MayRefuse = FALSE
  MayThrow = FALSE
SPECIFICATION Spec
CHECK_DEADLOCK TRUE
SYMMETRY Symmetric
INVARIANTS SlotSafe SearchSound
PROPERTIES Implements
