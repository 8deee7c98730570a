SPECIFICATION Spec
CONSTANTS
  Callers = {a, b, d}
  LogOnly = {d}
  RingSize = 2
  MaxEntries = 6
  MaxCrashes = 1
SYMMETRY Symmetry
INVARIANTS
  NewestAreKept
  CallersInOrder
CHECK_DEADLOCK FALSE
