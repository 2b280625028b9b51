CONSTANTS
  k1 = k1
  k2 = k2
  m1 = m1
  m2 = m2
  NoMeta = NoMeta
  Forever = 99
  Keys = {k1, k2}
  Metas = {m1, m2}
  Threads = {1}
  InitialCapacity = 2
  RepeatedIds = FALSE
  MaxClock = 4
  MaxVersions = 3
SPECIFICATION Spec
CHECK_DEADLOCK FALSE
SYMMETRY Symmetric
INVARIANTS SidecarSound SnapshotAnswers
PROPERTIES VacuumPrunes
