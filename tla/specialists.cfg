SPECIFICATION FairSpec
CONSTANTS
  Calls = {c}
  Operators = {o, p}
  Targets = {t, u, x}
  Permitted = {t, u}
  MaxTargets = 2
  MaxToggles = 3
INVARIANTS
  LaunchesArePermitted
  KillStopsLaunches
  GateIsConfirmed
  LogTellsTheSwitch
PROPERTIES
  DisconnectEndsCall
CHECK_DEADLOCK FALSE
