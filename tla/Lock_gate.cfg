CONSTANTS
  Threads = {t1, t2, t3}
  Nobody = Nobody
  MaxNesting = 3
  MaxCalls = 3
SPECIFICATION FairSpec
CHECK_DEADLOCK FALSE
INVARIANTS GateSafe NoLostWakeup
PROPERTIES GetsIn
