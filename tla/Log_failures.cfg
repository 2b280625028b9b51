CONSTANTS
  id1 = id1
  id2 = id2
  Torn = Torn
  Ids = {id1, id2}
  Labels = {0}
  MAX_TS = 99
  Sync = TRUE
  Crashes = {"power"}
  MayFailWrite = TRUE
  MayFailSync = FALSE
  MayRefuse = FALSE
  Skips = {1}
  BlockSize = 2
  MaxBatch = 2
  MaxClock = 3
  MaxCrashes = 2
SPECIFICATION Spec
CHECK_DEADLOCK TRUE
SYMMETRY Symmetric
INVARIANTS NothingLost CheckpointFaithful ReplayAccepted
