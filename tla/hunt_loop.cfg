SPECIFICATION FairSpec
CONSTANTS
  Bases = {"a"}
  Targets = {"t", "u"}
  PlainTargets = {"t", "u"}
  Unsafe = {"u"}
  OutOfScope = {}
  InitialTasks <- OneTask
  MaxFindings = 2
  MaxCrashes = 0
  MaxCommands = 1
  MaxFailures = 1
  MaxStarts = 2
PROPERTIES
  PendingIsSpawned
