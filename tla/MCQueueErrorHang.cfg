SPECIFICATION FairSpec
CONSTANTS
  Producers = {cs}
  Waiters = {app}
  MaxQueued = 1
  MaxEntries = 1
  Failures = {"OUT_OF_MEMORY"}
PROPERTIES
  IdleReturns
CHECK_DEADLOCK FALSE
