SPECIFICATION SearchSpec
CONSTANTS
  KeepMetrics = 1
  KeepDocs = 1
  KeepLogs = 1
  KeepSamples = 1
  MaxAge = 1
  Times = {1, 3}
  QueueCap = 2
  Batch = 2
  PruneEvery = 2
  MaxOps = 3
  MaxFaults = 1
  MaxCrashes = 1
  Limit = 2
  ScanLimit = 2
  NONE = NONE
  LateSearches = FALSE
CHECK_DEADLOCK FALSE
INVARIANTS
  EmbeddingsPaired
  FlushPublishes
  TablesBounded
  SearchSound
PROPERTIES
  AcceptedPublished
  ImplementsStoreService
