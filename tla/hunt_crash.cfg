SPECIFICATION Spec
CONSTANTS
  Bases = {"a", "b"}
  Targets = {"t"}
  PlainTargets = {"t"}
  Unsafe = {}
  OutOfScope = {}
  InitialTasks <- OneTask
  MaxFindings = 1
  MaxCrashes = 1
  MaxCommands = 1
  MaxFailures = 1
  MaxStarts = 2
INVARIANTS
  StartedAsAsked
  DoneWasReported
PROPERTIES
  
  MovesAreAtomic
