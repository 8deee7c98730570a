SPECIFICATION FairSpec
CONSTANTS
  Bases = {"a"}
  Targets = {"t"}
  PlainTargets = {}
  Unsafe = {}
  OutOfScope = {}
  InitialTasks <- OneTask
  MaxFindings = 1
  MaxCrashes = 0
  MaxCommands = 0
  MaxFailures = 0
  MaxStarts = 1
PROPERTIES
  PendingIsSpawned
