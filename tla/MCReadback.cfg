SPECIFICATION ReadbackSpec
CONSTANTS
  ChunkSize = 2
  MaxFlushType = 2
  MinPendingSubmissions = 2
  MinChunkCount = 2
  MaxChunkCount = 3
  Occlusion = {o}
  Predicates = {p}
  Timestamps = {t}
  Events = {e}
  PoolSize = 5
  EmbeddedCapacity = 1
  StallBits = 2
  StallLimit = 1
  MaxCalls = 4
  TimerCalls = 3
  SliceCount = 3
  MapChunkSize = 2
  MapFlushType = 3
  MapCalls = 3
INVARIANTS
  ReadbackTypeOK
  ResultExact
  UsedOncePerReset
  SequentialMemory
PROPERTIES
  ReadbacksEnd
\* The application may do nothing more.
CHECK_DEADLOCK FALSE
