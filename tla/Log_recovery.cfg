CONSTANTS
  id1 = id1
  id2 = id2
  Torn = Torn
  Ids = {id1, id2}
  Labels = {0}
  MAX_TS = 99
  Sync = TRUE
  Crashes = {"process", "power"}
  MayFailWrite = TRUE
  MayFailSync = FALSE
  MayRefuse = TRUE
  Skips = {1}
  BlockSize = 1
  MaxBatch = 2
  MaxClock = 2
  MaxCrashes = 1
SPECIFICATION FairSpecRewritten
CHECK_DEADLOCK TRUE
INVARIANTS LogSound SurvivesUntilFault FaithfulUntilFault
PROPERTIES Reopens
