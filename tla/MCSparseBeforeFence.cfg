SPECIFICATION Spec
CONSTANTS
  MaxLists = 1
  MaxSubmissions = 1
  MaxIssued = 1
INVARIANTS
  FenceStallsList
CHECK_DEADLOCK FALSE
