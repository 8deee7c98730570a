SPECIFICATION Spec
CONSTANTS
  Callers = {a, b}
  Hosts = {g, h}
  Sources = {s}
  MaxHosts = 2
  MaxTime = 3
  MaxCalls = 3
SYMMETRY Symmetry
INVARIANTS
  OneAssetPerHost
  SeenTimesAreTrue
  RecallIsComplete
