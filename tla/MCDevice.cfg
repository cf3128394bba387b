SPECIFICATION DeviceSpec
CONSTANTS
  Callers = {a, b}
  Events = {e1, e2, e3}
  MaxValue = 2
  MayFail = TRUE
  Callbacks = {f, g}
  MaxSignal = 2
  Handles = {h1, h2, h3}
  Keys = {kd, ka, kb, kc}
  Default = kd
  NoKey = none
  MaxSlot = 2
  MaxLists = 2
  MaxSubmissions = 2
  MaxIssued = 2
  ChunkPages = 4
  MaxChunks = 2
  Alignments = {1, 2}
  MaskBits = 2
  SizeClasses = 2
  PageCount = 2
  MaxObjects = 4
INVARIANTS
  DeviceTypeOK
  FencePromises
  CalledExactlyWhenReached
  HeldHasKey
  BooksBalance
  ListsInOrder
  QueuesMoveOn
  MemorySound
PROPERTIES
  ImplementsCache
  ServicesProgress
\* The services may be left alone at any time, and a command list whose semaphore
\* never comes waits for ever.
CHECK_DEADLOCK FALSE
