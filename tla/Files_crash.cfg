CONSTANTS
  Names = {"docs", "notes"}
  Files = {"docs", "notes"}
  FileOf <- OwnFiles
  CrashBefore = {"idle", "register", "vectors", "unlink_vectors"}
  FailAt = {"vectors"}
  MaxRevision = 3
  ClosedCounts = FALSE
  Stores = {"agent"}
  ManifestOf <- OwnManifest
  Engines = {"delta", "labels"}
  Deltas = {0, 1, 2}
  Renewed = FALSE
  MaxSaves = 4
SPECIFICATION FilesSpec
CHECK_DEADLOCK FALSE
INVARIANTS Opens Whole Tidy Recovers
