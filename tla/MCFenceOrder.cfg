SPECIFICATION Spec
CONSTANTS
  Callers = {a}
  Events = {e1, e2}
  MaxValue = 2
  MayFail = FALSE
INVARIANTS
  AllReachedFired
CHECK_DEADLOCK FALSE
