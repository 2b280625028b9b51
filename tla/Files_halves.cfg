CONSTANTS
  Names = {"docs", "notes"}
  Files = {"docs", "notes"}
  FileOf <- OwnFiles
  CrashBefore = {"idle", "register", "vectors", "unlink_vectors",
                 "create_vectors", "sidecar", "unlink_sidecar"}
  FailAt = {"vectors"}
  MaxRevision = 3
  ClosedCounts = FALSE
  Stores = {"agent"}
  ManifestOf <- OwnManifest
  Engines = {"labels"}
  Deltas = {0}
  Renewed = FALSE
  MaxSaves = 4
SPECIFICATION FilesSpec
CHECK_DEADLOCK FALSE
INVARIANTS Whole Tidy NoOrphans
