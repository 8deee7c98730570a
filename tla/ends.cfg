SPECIFICATION EndsSpec
CONSTANTS
  Reqs = {r1, r2}
  Hosts <- MCHosts2
  Names <- MCHosts2
  NormHost <- MCNormHost2
  InScope = {"a", "x"}
  IPs <- MCIPs
  Blocked <- MCBlocked
  Answers <- MCAnswers2
  Kinds = {"forward", "connect"}
  Faults = {"ok"}
  MaxResolvedIPs = 3
  Burst = 1
  MaxRefills = 0
  MaxRedirects = 2
  ActiveTesting = TRUE
  DryRun = FALSE
  Procs = {p1, p2, p3, p4}
  SlowHolders = TRUE
  Servers = {s1, s2}
  Launchers = {l1, l2}
  Stoppers = {t1}
PROPERTIES
  EveryRequestEnds
  LockoutEnds
  ServesOrDies
INVARIANTS
  EveryContactIsPinned
  ExclusiveUnlessRaced
  StopCanReach
CHECK_DEADLOCK FALSE
