SPECIFICATION Spec
CONSTANTS
  Reqs = {r1, r2}
  Hosts <- MCHosts
  Names <- MCNames3
  NormHost <- MCNormHost3
  InScope = {"a", "b"}
  IPs <- MCIPs
  Blocked <- MCBlocked
  Answers <- MCAnswers
  Kinds = {"forward", "connect", "check", "health"}
  Faults = {"ok", "path", "port"}
  MaxResolvedIPs = 1
  Burst = 1
  MaxRefills = 1
  MaxRedirects = 2
  ActiveTesting = TRUE
  DryRun = FALSE
SYMMETRY Symmetry
INVARIANTS
  ContactsArePermitted
  PinnedContactsAreValid
  KillStopsLateRequests
  ForwardsAreAudited
  ContactsWithinRate
  CheckURLAgrees
