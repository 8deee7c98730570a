SPECIFICATION Spec
CONSTANTS
  Procs = {p1, p2}
  SlowHolders = TRUE
  Ids = {"a", "b", "x"}
  ScopedIds = {"a", "b"}
  Prios = {0, 1, 5, 6}
  Stamps = {1, 2}
SYMMETRY Symmetry
INVARIANTS
  UniqueIds
  ScanFindsBest
PROPERTIES
  AtomicUnlessRaced
CHECK_DEADLOCK FALSE
