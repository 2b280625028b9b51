CONSTANTS
  Nobody = Nobody
  MAX_TS = 99
  Ids = {1, 2}
  Writers = {w1}
  Readers = {r1}
  Capacity = 2
  Latest = FALSE
  K = 2
  MaxClock = 4
  MaxPages = 5
SPECIFICATION Spec
CHECK_DEADLOCK FALSE
INVARIANTS BookExact SearchAnswers KeepsHistory
