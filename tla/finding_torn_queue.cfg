SPECIFICATION Spec
CONSTANTS
  Bases = {"a", "b"}
  Targets = {"t"}
  PlainTargets = {"t"}
  Unsafe = {}
  OutOfScope = {}
  InitialTasks <- OneTask
  MaxFindings = 0
  MaxCrashes = 1
  MaxCommands = 0
  MaxFailures = 0
  MaxStarts = 1
INVARIANTS
  NoDataLoss
