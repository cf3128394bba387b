SPECIFICATION FairSpec
CONSTANTS
  Apps = {app}
  Injectors = {}
  Lockers = {locker}
  MaxChunks = 2
  MayThrow = FALSE
PROPERTIES
  EveryWaitEnds
CHECK_DEADLOCK FALSE
