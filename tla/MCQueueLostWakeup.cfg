SPECIFICATION FairSpec
CONSTANTS
  Producers = {cs}
  Waiters = {app}
  MaxQueued = 1
  MaxEntries = 1
  Failures = {"DEVICE_LOST"}
PROPERTIES
  UntilReturns
CHECK_DEADLOCK FALSE
