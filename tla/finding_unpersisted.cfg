SPECIFICATION Spec
CONSTANTS
  Callers = {a, d}
  LogOnly = {d}
  RingSize = 2
  MaxEntries = 3
  MaxCrashes = 1
INVARIANTS
  DecisionsPersist
CHECK_DEADLOCK FALSE
