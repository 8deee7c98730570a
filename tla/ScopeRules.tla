----------------------------- MODULE ScopeRules -----------------------------
(***************************************************************************)
(* The scope engine (internal/scope/scope.go), the validation of its rules *)
(* (internal/config/config.go), and the places that ask it: `check` and    *)
(* `queue add`, which call IsURLInScope; the proxy and its redirects,      *)
(* which check scheme, port, host and path one by one; CheckURL of the MCP *)
(* tools, which does both; and validate_hosts, which asks about a host     *)
(* alone. Each prepares the host in its own way.                           *)
(*                                                                         *)
(* A host name is its labels, the host's own first, and its trailing dots; *)
(* case, spaces and IDN spelling are folded by normalize.Host wherever     *)
(* hosts are compared, and left out. A path is the pieces that prefixes    *)
(* tell apart. DNS, the kill switch and the gate are ProxyGate's subject.  *)
(***************************************************************************)
EXTENDS Integers, SequencesExt

CONSTANTS
  ScopeNames,  \* host names asked about, as sequences of labels
  RuleNames,   \* host names in rules
  MaxDots,     \* trailing dots of a host asked about
  ScopePaths,  \* paths asked about, as sequences of pieces
  RulePrefixes, \* values of path_prefix rules
  RuleLists,   \* sets of rules a program may list, for either purpose
  Limits       \* pairs of allowed schemes and ports, program's or default

VARIABLES program  \* the configuration loaded, or NoProgram

Host(labels, dots) == [labels |-> labels, dots |-> dots]
NoHost == Host(<< >>, 0)
NoPort == -1

Rules ==
  LET hosts == {Host(n, d) : n \in RuleNames, d \in {0, 1}}
      Rule(type, h, apex, prefix) ==
        [type |-> type, host |-> h, apex |-> apex, prefix |-> prefix]
  IN  {Rule("exact_host", h, FALSE, << >>) : h \in hosts}
        \cup {Rule("wildcard_host", h, a, << >>) : h \in hosts, a \in BOOLEAN}
        \cup {Rule("path_prefix", h, FALSE, v) : h \in hosts \cup {NoHost}, v \in RulePrefixes}
        \cup {Rule("cidr", NoHost, FALSE, << >>), Rule("other", NoHost, FALSE, << >>)}

ASSUME ScopeAssumption ==
  /\ << >> \notin ScopeNames \cup RuleNames
  /\ MaxDots \in Nat
  /\ RuleLists \subseteq SUBSET Rules

Programs == [include : RuleLists, exclude : RuleLists, own : Limits, default : Limits]

NoProgram == [include |-> {}, exclude |-> {}]

URLs == [scheme : {"http", "https"}, host : {Host(n, d) : n \in ScopeNames, d \in 0..MaxDots},
         port : {NoPort, 0, 443, 8080}, path : ScopePaths]
----------------------------------------------------------------------------
\* validateScopeRule.
RuleValid(r) ==
  \/ r.type \in {"exact_host", "wildcard_host", "path_prefix"} /\ r.host # NoHost
  \/ r.type = "cidr"

\* Config.Validate, as far as scope goes.
ProgramValid(c) ==
  /\ c.include # {}
  /\ \A r \in c.include \cup c.exclude : RuleValid(r)

\* normalize.Host takes off one trailing dot.
Normal(h) == [h EXCEPT !.dots = IF @ > 0 THEN @ - 1 ELSE 0]

\* matchWildcard normalizes both sides (the host, which IsHostInScope has normalized,
\* once more), and compares the text from the first dot on.
MatchWildcard(r, h) ==
  LET p == Normal(r.host)
      g == Normal(h)
  IN  /\ p.dots = g.dots
      /\ IsSuffix(p.labels, g.labels)
      /\ p.labels = g.labels => r.apex

\* matchHostRule; h is compared as the caller passes it.
MatchHostRule(r, h) ==
  CASE r.type \in {"exact_host", "path_prefix"} -> h = Normal(r.host)
    [] r.type = "wildcard_host"                -> MatchWildcard(r, h)
    [] OTHER                                   -> FALSE

\* Mutant: inclusions are looked at first, and the first match decides.
IncludedFirst(c, host) ==
  LET h == Normal(host)
  IN  \E r \in c.include : MatchHostRule(r, h)

\* IsHostInScope: exclusions by host first, then inclusions. A path_prefix inclusion
\* includes its whole host.
IsHostInScope(c, host) ==
  LET h == Normal(host)
  IN  /\ h # NoHost
      /\ ~\E r \in c.exclude : r.type # "path_prefix" /\ MatchHostRule(r, h)
      /\ \E r \in c.include : MatchHostRule(r, h)

PortOf(u) == IF u.port = NoPort THEN (IF u.scheme = "https" THEN 443 ELSE 80) ELSE u.port
PortValid(u) == PortOf(u) > 0

\* IsURLInScope: path exclusions compare the host as it stands in the URL.
IsURLInScope(c, u, schemes, ports) ==
  /\ u.scheme \in schemes
  /\ IsHostInScope(c, u.host)
  /\ PortValid(u) /\ PortOf(u) \in ports
  /\ ~\E r \in c.exclude : /\ r.type = "path_prefix" /\ MatchHostRule(r, u.host)
                           /\ IsPrefix(r.prefix, u.path)

\* The program's own limits, or the defaults.
Schemes(c) == IF c.own.schemes = {} THEN c.default.schemes ELSE c.own.schemes
AllowedPorts(c) == IF c.own.ports = {} THEN c.default.ports ELSE c.own.ports

\* `check`.
CheckCommand(c, u) == IsURLInScope(c, u, Schemes(c), AllowedPorts(c))

\* The validator that `queue add` gives the queue.
ScopeValidator(c, u) == IsURLInScope(c, u, Schemes(c), AllowedPorts(c))

\* The MCP tool validate_hosts, about a host alone.
ValidateHosts(c, h) == IsHostInScope(c, h)

\* The proxy is built with the same lists; NewProxy puts https and 443 where one is
\* empty.
ProxySchemes(c) == IF Schemes(c) = {} THEN {"https"} ELSE Schemes(c)
ProxyPorts(c) == IF AllowedPorts(c) = {} THEN {443} ELSE AllowedPorts(c)

\* The proxy's lists are never empty, so that an empty one would allow everything is of
\* no account.
ValidateScheme(c, u) == u.scheme \in ProxySchemes(c)
ValidatePort(c, u) == PortValid(u) /\ PortOf(u) \in ProxyPorts(c)

\* CheckPathExclusion; a rule without a host would exclude the path everywhere.
CheckPathExclusion(c, h, path) ==
  \E r \in c.exclude : /\ r.type = "path_prefix"
                       /\ Normal(r.host) = NoHost \/ h = Normal(r.host)
                       /\ IsPrefix(r.prefix, path)

\* ServeHTTP and validateRedirectTarget, whose host is normalized before
\* IsHostInScope normalizes it.
ProxyAdmits(c, u) ==
  LET h == Normal(u.host)
  IN  /\ ValidateScheme(c, u) /\ ValidatePort(c, u)
      /\ IsHostInScope(c, h)
      /\ ~CheckPathExclusion(c, h, u.path)

\* Mutant: the engine's own check of excluded paths is taken to be enough.
CheckURLOnce(c, u) ==
  /\ ValidateScheme(c, u) /\ ValidatePort(c, u)
  /\ IsURLInScope(c, u, ProxySchemes(c), ProxyPorts(c))

\* CheckURL.
CheckURLAdmits(c, u) ==
  /\ ValidateScheme(c, u) /\ ValidatePort(c, u)
  /\ IsURLInScope(c, u, ProxySchemes(c), ProxyPorts(c))
  /\ ~CheckPathExclusion(c, Normal(u.host), u.path)
----------------------------------------------------------------------------
ScopeInit == program = NoProgram

\* loadConfig of a command; a configuration that is not valid ends it.
LoadProgram(c) ==
  /\ program = NoProgram
  /\ ProgramValid(c)
  /\ program' = c

ScopeNext == \E c \in Programs : LoadProgram(c)

ScopeSpec == ScopeInit /\ [][ScopeNext]_program
----------------------------------------------------------------------------
Loaded == program # NoProgram

ScopeTypeOK == program \in Programs \cup {NoProgram}

\* What a rule covers, read from its meaning: the names alone, without dots.
Covers(r, h) ==
  CASE r.type \in {"exact_host", "path_prefix"} -> h.labels = r.host.labels
    [] r.type = "wildcard_host" -> /\ IsSuffix(r.host.labels, h.labels)
                                   /\ h.labels = r.host.labels => r.apex
    [] OTHER -> FALSE

\* Whether the rules allow u, whatever their order: "Exclusions override inclusions"
\* (scope.go:3).
Authorised(c, u) ==
  /\ \E r \in c.include : Covers(r, u.host)
  /\ ~\E r \in c.exclude : /\ Covers(r, u.host)
                           /\ r.type = "path_prefix" => IsPrefix(r.prefix, u.path)

\* Lists that name something, in the program or by default.
Limited(c) == Schemes(c) # {} /\ AllowedPorts(c) # {}

\* The proxy admits a URL if and only if the rules authorise it and its scheme and port
\* are allowed, however host and rules are spelt: with or without the trailing dot.
ProxyFollowsTheRules ==
  Loaded => \A u \in URLs : u.host.dots <= 1 =>
    (ProxyAdmits(program, u)
       <=> ValidateScheme(program, u) /\ ValidatePort(program, u) /\ Authorised(program, u))

\* The proxy and CheckURL give the same answer, and so do `check` and `queue add` where
\* some scheme and port are listed; where none are these two refuse what the proxy's
\* defaults admit. The host has no trailing dot (one, if no path is excluded). What the
\* proxy admits is on a host validate_hosts confirms, and what CheckURL allows the proxy
\* admits with a trailing dot too: CheckURL looks for excluded paths a second time, with
\* the normalized host.
DoorsAgree ==
  Loaded =>
    LET dots == IF \E r \in program.exclude : r.type = "path_prefix" THEN 0 ELSE 1
    IN  \A u \in URLs :
          /\ u.host.dots <= dots =>
               /\ CheckURLAdmits(program, u) <=> ProxyAdmits(program, u)
               /\ CheckCommand(program, u) <=> Limited(program) /\ ProxyAdmits(program, u)
               /\ ScopeValidator(program, u) <=> Limited(program) /\ ProxyAdmits(program, u)
               /\ ProxyAdmits(program, u) => ValidateHosts(program, u.host)
          /\ u.host.dots <= 1 /\ CheckURLAdmits(program, u) => ProxyAdmits(program, u)

\* Holds not: all of them agree on every URL. Where no scheme or port is listed the proxy
\* takes https and 443, and `check` refuses everything; and a trailing dot hides a path
\* exclusion from `check`.
AllDoorsAgree ==
  Loaded => \A u \in URLs : CheckCommand(program, u) <=> ProxyAdmits(program, u)

\* Holds not: normalizing a host twice is normalizing it once.
HostIsNormalAfterOnce ==
  \A n \in ScopeNames, d \in 0..MaxDots : Normal(Normal(Host(n, d))) = Normal(Host(n, d))

\* Holds not: "[x] Scope engine (include/exclude, wildcard, path_prefix, CIDR)"
\* (README.md:235): every kind of inclusion allows something. A cidr rule allows nothing
\* to anyone who asks; IsIPInScope, which reads it, has no caller.
EveryInclusionAllows ==
  Loaded /\ program.exclude = {} => \E h \in {Host(n, 0) : n \in RuleNames \cup ScopeNames} :
    IsHostInScope(program, h)
============================================================================
