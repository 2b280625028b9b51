CONSTANTS
  Nobody = Nobody
  MAX_TS = 99
  Ids = {1, 2}
  Writers = {w1, w2}
  Readers = {r1}
  Capacity = 2
  Latest = TRUE
  K = 2
  MaxClock = 4
  MaxPages = 5
SPECIFICATION Spec
CHECK_DEADLOCK FALSE
INVARIANTS OneVersion NoStandoff RowsStay
