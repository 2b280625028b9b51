CONSTANTS
  Nothing = Nothing
  Open = 99
  Engines = {"chronovec", "hnswlib", "faiss-ivfflat", "faiss-hnsw", "usearch", "chroma", "qdrant", "annoy"}
  Modes = {"bulk", "interleaved", "ops", "concurrent", "snapshot", "filtered", "equal", "batching"}
  Pool = 5
  Live = 3
  Batch = 1
  Cycles = 2
  Rounds = 2
  MinAnchors = 1
SPECIFICATION Spec
CHECK_DEADLOCK FALSE
INVARIANTS BurstHolds RowsDiffer BatchesHit
