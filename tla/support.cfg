SPECIFICATION SupportSpec
CONSTANTS
  WorkerIds = {a}
  Pids = {p1, p2}
  Terminals = {orch, t1, t2}
  Orchestrator = orch
  MaxSpawns = 3
  MaxStrangers = 1
  Users = {t1, t2}
  WaitTail = 2
  StatusTail = 1
  MaxPolls = 2
  ScopeNames <- ThreeNames
  RuleNames <- TwoNames
  MaxDots = 2
  ScopePaths <- FourPaths
  RulePrefixes <- TwoPaths
  RuleLists <- AtMostOneRule
  Limits <- SomeLimits
  Segments = {"a", "b"}
  MaxSegments = 5
  Keys = {1, 2, 3}
  Vals = {"v", "w"}
  MaxPairs = 4
  LimitedHosts = {"h"}
  Callers = {c1, c2}
  Rate = 1
  Burst = 2
  MaxTime = 3
  MaxResets = 1
  Entries = {"e"}
  Fields = {"f", "g"}
  Loggers = {c1, c2}
  ScanTargets = {"a", "b"}
  Elsewhere = {"c"}
  Allowable = {"a", "c"}
  MaxListed = 2
INVARIANTS
  StopHitsTheWorker
  ProxyFollowsTheRules
  DoorsAgree
  NormalFormIsRight
  GrantsWithinRate
  RedactedStaysRedacted
  OnlyAllowedAreUsed
PROPERTIES
  RemovalsSpareTheLive
  ShieldedWhenStarted
  SwitchStopsTheScan
CHECK_DEADLOCK FALSE
