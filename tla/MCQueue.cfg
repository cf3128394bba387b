SPECIFICATION FairSpec
CONSTANTS
  Producers = {cs}
  Waiters = {app}
  MaxQueued = 0
  MaxEntries = 2
  Failures = {"DEVICE_LOST", "OUT_OF_MEMORY", "OUT_OF_DATE"}
INVARIANTS
  TypeOK
  RetiredOnlyWhenDone
  IdleMeansRetired
  BoundedCommandLists
  OwnerSeesSubmissions
PROPERTIES
  ImplementsPipeline
  CallsReturn
CHECK_DEADLOCK FALSE
