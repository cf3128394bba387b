SPECIFICATION StreamSpec
CONSTANTS
  Apps = {app}
  Injectors = {loader}
  Lockers = {locker}
  MaxChunks = 3
  MayThrow = TRUE
  BlockCount = 3
  RangeCount = 2
  MaxEntries = 7
  MaxLists = 2
  FrameCount = 3
  MaxFrames = 5
INVARIANTS
  StreamTypeOK
  FlagMatchesQueue
  SyncMeansExecuted
  RingSafe
  TimingsSound
PROPERTIES
  ImplementsStream
  WaitsAllEnd
\* The application may stop calling, and a worker that threw has ended.
CHECK_DEADLOCK FALSE
