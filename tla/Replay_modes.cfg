CONSTANTS
  Nothing = Nothing
  Open = 99
  Engines = {"chronovec", "hnswlib", "faiss-ivfflat", "faiss-hnsw", "usearch", "chroma", "qdrant", "annoy"}
  Modes = {"bulk", "interleaved", "ops", "concurrent", "snapshot", "filtered", "equal", "batching"}
  Pool = 20
  Live = 4
  Batch = 2
  Cycles = 1
  Rounds = 2
  MinAnchors = 1
SPECIFICATION Spec
CHECK_DEADLOCK FALSE
INVARIANTS RunnerSound EngineHolds ReadersServed FilterExact
