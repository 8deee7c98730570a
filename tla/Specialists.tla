---------------------------- MODULE Specialists ----------------------------
(***************************************************************************)
(* The tools of the MCP server (internal/mcp) that start scanners: recon,  *)
(* vuln and gate (internal/specialist), with the adapters that run BBOT    *)
(* and Nuclei (internal/adapter), and the tools that turn the kill switch. *)
(*                                                                         *)
(* A specialist asks the same server, over HTTP, about the switch and      *)
(* about each target, twice, while other calls turn the switch and the     *)
(* client may go away. The switch is read in single steps: by the handler, *)
(* by gate, and by every check_url.                                        *)
(***************************************************************************)
EXTENDS Integers, FiniteSets

CONSTANTS
  Calls,       \* goroutines, each serving one call of a specialist tool
  Operators,   \* goroutines serving calls of the kill-switch tools
  Targets,     \* hosts callers name
  Permitted,   \* those CheckURL allows while the switch is off
  MaxTargets,  \* 100 in the code
  MaxToggles   \* bound: calls of the kill-switch tools

Tools == {"recon", "vuln", "gate"}
NoOne == "no one"

ASSUME SpecialistsAssumption ==
  /\ Permitted \subseteq Targets /\ IsFiniteSet(Targets)
  /\ MaxTargets \in Nat /\ MaxToggles \in Nat
  /\ NoOne \notin Operators

VARIABLES
  config,     \* how the server was configured
  killed,     \* the kill switch
  by,         \* activatedBy: who turned it on, NoOne when it is off
  pc,         \* where each call is
  req,        \* what it was called with
  todo,       \* targets the filter under way still has to check
  passed,     \* targets it has let pass
  first,      \* what the specialist's own filter let pass
  gone,       \* whether its client has gone: the context is cancelled
  outcome,    \* how it ended
  audited,    \* calls with a tool_invocation entry in the store's log
  switching,  \* what an operator's call has done and not yet logged
  action,     \* the last kill_switch action in the store's log
  toggles,
  launched,   \* history: the targets a scanner was started with
  late,       \* history: the switch has been on ever since the adapter's filter began
  confirmed,  \* history: gate has seen the switch off
  overlap     \* history: the switch was last turned while another entry was due

calls == <<pc, req, todo, passed, first, gone, outcome, audited>>
switch == <<killed, by, switching, action, toggles, overlap>>
vars == <<config, calls, switch, launched, late, confirmed>>

NoReq == [tool |-> "none"]
\* Whether the scope has exact_host rules only, whether scanners are run at
\* all, and the tools whose adapter lacks the Nuclei templates.
Configs ==
  [exactOnly : BOOLEAN, dryRun : BOOLEAN, unready : {{}, {"vuln", "gate"}}]

Requests == [tool : Tools, targets : SUBSET Targets, key : BOOLEAN, approved : BOOLEAN]

Goto(c, place) == pc' = [pc EXCEPT ![c] = place]

\* The call ends; callTool logs it after its execution, whatever came of it.
End(c, how) ==
  /\ Goto(c, "done")
  /\ outcome' = [outcome EXCEPT ![c] = how]
  /\ audited' = IF how = "unauthorized" THEN audited ELSE audited \cup {c}

NotEnded == UNCHANGED <<outcome, audited>>

StartFilter(c, place, targets) ==
  /\ Goto(c, place)
  /\ todo' = [todo EXCEPT ![c] = targets]
  /\ passed' = [passed EXCEPT ![c] = {}]
  /\ NotEnded

NoFilter == UNCHANGED <<todo, passed>>
----------------------------------------------------------------------------
Init ==
  /\ config \in Configs
  /\ killed \in BOOLEAN                       \* the configuration may turn it on
  /\ by = IF killed THEN "config" ELSE NoOne
  /\ pc = [c \in Calls |-> "idle"]
  /\ req = [c \in Calls |-> NoReq]
  /\ todo = [c \in Calls |-> {}]
  /\ passed = [c \in Calls |-> {}]
  /\ first = [c \in Calls |-> {}]
  /\ gone = [c \in Calls |-> FALSE]
  /\ outcome = [c \in Calls |-> "none"]
  /\ audited = {}
  /\ switching = [o \in Operators |-> "none"]
  /\ action = "none"
  /\ toggles = 0
  /\ launched = [c \in Calls |-> {}]
  /\ late = [c \in Calls |-> FALSE]
  /\ confirmed = [c \in Calls |-> FALSE]
  /\ overlap = FALSE

\* A request, with or without the API key and the operator's approval token.
Arrive(c) ==
  /\ pc[c] = "idle"
  /\ \E r \in Requests :
       /\ r.approved => r.tool = "gate"
       /\ req' = [req EXCEPT ![c] = r]
  /\ Goto(c, "admit")
  /\ UNCHANGED <<config, todo, passed, first, gone, outcome, audited, switch, launched,
                 late, confirmed>>

\* ServeHTTP wants the configured key.
Authorized(r) == r.key

\* specialistTargets: at least one target and at most a hundred.
AcceptableTargets(targets) == Cardinality(targets) \in 1..MaxTargets

\* handleRunSpecialist up to the call of the specialist.
Admit(c) ==
  /\ pc[c] = "admit"
  /\ LET r == req[c]
     IN  \/ ~Authorized(r) /\ End(c, "unauthorized") /\ NoFilter
         \/ /\ Authorized(r)
            /\ \/ killed
               \/ ~AcceptableTargets(r.targets)
               \/ r.tool = "gate" /\ ~r.approved
            /\ End(c, "denied") /\ NoFilter
         \/ /\ Authorized(r) /\ ~killed
            /\ AcceptableTargets(r.targets)
            /\ \/ r.tool = "recon" /\ config.exactOnly /\ End(c, "skipped") /\ NoFilter
               \/ /\ r.tool = "gate" /\ r.approved
                  /\ Goto(c, "switch") /\ NotEnded /\ NoFilter
               \/ /\ r.tool = "vuln" \/ (r.tool = "recon" /\ ~config.exactOnly)
                  /\ StartFilter(c, "filter", r.targets)
  /\ UNCHANGED <<config, req, first, gone, switch, launched, late, confirmed>>

\* Mutant: an error of the kill-switch request counts as "inactive".
GateSwitchOpen(c) ==
  /\ pc[c] = "switch"
  /\ \/ /\ killed
        /\ End(c, "blocked") /\ NoFilter
        /\ UNCHANGED confirmed
     \/ /\ StartFilter(c, "filter", req[c].targets)
        /\ confirmed' = [confirmed EXCEPT ![c] = ~killed]
  /\ UNCHANGED <<config, req, first, gone, switch, launched, late>>

\* killSwitchActive: the answer, or an error, which refuses too.
GateSwitch(c) ==
  /\ pc[c] = "switch"
  /\ \/ End(c, "error") /\ NoFilter /\ UNCHANGED confirmed
     \/ /\ killed /\ ~gone[c]
        /\ End(c, "blocked") /\ NoFilter
        /\ UNCHANGED confirmed
     \/ /\ ~killed /\ ~gone[c]
        /\ StartFilter(c, "filter", req[c].targets)
        /\ confirmed' = [confirmed EXCEPT ![c] = TRUE]
  /\ UNCHANGED <<config, req, first, gone, switch, launched, late>>

\* What check_url answers to call c: an error once its client has gone, and
\* never "allowed" while the switch is on.
Allows(c, t) == t \in Permitted /\ ~killed /\ ~gone[c]

\* Mutant: a check_url that fails lets the target pass.
CheckTargetOpen(c) ==
  /\ pc[c] \in {"filter", "refilter"}
  /\ \E t \in todo[c] :
       /\ todo' = [todo EXCEPT ![c] = @ \ {t}]
       /\ passed' = [passed EXCEPT ![c] = @ \cup {t}]
  /\ UNCHANGED <<config, pc, req, first, gone, outcome, audited, switch, launched,
                 late, confirmed>>

\* FilterInScope: one check_url; an error, or any other answer, blocks.
CheckTarget(c) ==
  /\ pc[c] \in {"filter", "refilter"}
  /\ \E t \in todo[c] :
       /\ todo' = [todo EXCEPT ![c] = @ \ {t}]
       /\ \/ UNCHANGED passed
          \/ Allows(c, t) /\ passed' = [passed EXCEPT ![c] = @ \cup {t}]
  /\ UNCHANGED <<config, pc, req, first, gone, outcome, audited, switch, launched,
                 late, confirmed>>

\* Mutant: the adapter trusts the specialist's filter.
RefilterTrusting(c) ==
  /\ pc[c] = "filter" /\ todo[c] = {}
  /\ first' = [first EXCEPT ![c] = passed[c]]
  /\ late' = [late EXCEPT ![c] = killed]
  /\ Goto(c, "refilter")
  /\ UNCHANGED <<config, req, todo, passed, gone, outcome, audited, switch, launched,
                 confirmed>>

\* The adapter filters what the specialist's filter let pass once more.
Refilter(c) ==
  /\ pc[c] = "filter" /\ todo[c] = {}
  /\ first' = [first EXCEPT ![c] = passed[c]]
  /\ late' = [late EXCEPT ![c] = killed]
  /\ StartFilter(c, "refilter", passed[c])
  /\ UNCHANGED <<config, req, gone, switch, launched, confirmed>>

\* The checks of RunBBOT and RunNuclei that follow: dry run, nothing left, an incomplete
\* configuration; otherwise the scanner is asked for its version.
Prepare(c) ==
  /\ pc[c] = "refilter" /\ todo[c] = {}
  /\ \/ config.dryRun /\ End(c, "dry_run")
     \/ ~config.dryRun /\ passed[c] = {} /\ End(c, "nothing")
     \/ ~config.dryRun /\ passed[c] # {} /\ req[c].tool \in config.unready /\ End(c, "error")
     \/ /\ ~config.dryRun /\ passed[c] # {} /\ req[c].tool \notin config.unready
        /\ Goto(c, "probe") /\ NotEnded
  /\ UNCHANGED <<config, req, todo, passed, first, gone, switch, launched, late, confirmed>>

\* The process that prints the version has ended: it has neither context nor timeout.
\* The scanner is started; a start may fail, and does when the context is cancelled.
Launch(c) ==
  /\ pc[c] = "probe"
  /\ \/ End(c, "ran") /\ UNCHANGED launched
     \/ /\ ~gone[c]
        /\ launched' = [launched EXCEPT ![c] = passed[c]]
        /\ Goto(c, "running") /\ NotEnded
  /\ UNCHANGED <<config, req, todo, passed, first, gone, switch, late, confirmed>>

\* The scanner ends by itself: nothing but the client makes it.
ScannerEnds(c) ==
  /\ pc[c] = "running"
  /\ End(c, "ran")
  /\ UNCHANGED <<config, req, todo, passed, first, gone, switch, launched, late,
                 confirmed>>

\* Mutant: the command does not get the request's context.
ScannerKilledNever(c) == FALSE /\ UNCHANGED vars

\* exec.CommandContext kills the scanner when the client has gone. A child of
\* the scanner that outlives it with its output open is left out.
ScannerKilled(c) ==
  /\ pc[c] = "running" /\ gone[c]
  /\ End(c, "ran")
  /\ UNCHANGED <<config, req, todo, passed, first, gone, switch, launched, late,
                 confirmed>>

Disconnect(c) ==
  /\ pc[c] \notin {"idle", "done"} /\ ~gone[c]
  /\ gone' = [gone EXCEPT ![c] = TRUE]
  /\ UNCHANGED <<config, pc, req, todo, passed, first, outcome, audited, switch,
                 launched, late, confirmed>>

\* handleActivateKillSwitch turns the switch, and logs it in a step of its own.
Activate(o) ==
  /\ switching[o] = "none" /\ toggles < MaxToggles
  /\ toggles' = toggles + 1
  /\ IF killed THEN UNCHANGED <<killed, by>> ELSE killed' = TRUE /\ by' = o
  /\ switching' = [switching EXCEPT ![o] = "activate"]
  /\ overlap' = \E p \in Operators \ {o} : switching[p] # "none"
  /\ UNCHANGED <<config, action, calls, launched, late, confirmed>>

\* handleDeactivateKillSwitch with the right token.
Deactivate(o) ==
  /\ switching[o] = "none" /\ toggles < MaxToggles
  /\ toggles' = toggles + 1
  /\ killed' = FALSE /\ by' = NoOne
  /\ late' = [c \in Calls |-> FALSE]
  /\ switching' = [switching EXCEPT ![o] = "deactivate"]
  /\ overlap' = \E p \in Operators \ {o} : switching[p] # "none"
  /\ UNCHANGED <<config, action, calls, launched, confirmed>>

\* Mutant: an attempt is logged like a success.
RefuseDeactivationAsDone(o) ==
  /\ switching[o] = "none"
  /\ action' = "deactivate"
  /\ UNCHANGED <<config, killed, by, switching, toggles, overlap, calls, launched, late,
                 confirmed>>

\* Without the token, or when none is configured, the attempt is logged only.
RefuseDeactivation(o) ==
  /\ switching[o] = "none"
  /\ action # "deactivate_denied"
  /\ action' = "deactivate_denied"
  /\ UNCHANGED <<config, killed, by, switching, toggles, overlap, calls, launched, late,
                 confirmed>>

LogSwitch(o) ==
  /\ switching[o] # "none"
  /\ action' = switching[o]
  /\ switching' = [switching EXCEPT ![o] = "none"]
  /\ UNCHANGED <<config, killed, by, toggles, overlap, calls, launched, late, confirmed>>

\* What the server does for a call by itself.
Serve(c) ==
  \/ Admit(c) \/ GateSwitch(c) \/ CheckTarget(c) \/ Refilter(c) \/ Prepare(c)
  \/ ScannerKilled(c)

Next ==
  \/ \E c \in Calls : Arrive(c) \/ Serve(c) \/ Launch(c) \/ ScannerEnds(c) \/ Disconnect(c)
  \/ \E o \in Operators :
       Activate(o) \/ Deactivate(o) \/ RefuseDeactivation(o) \/ LogSwitch(o)

Spec == Init /\ [][Next]_vars

\* The requests to the server have timeouts (30 s) and end with the context;
\* how long a scanner runs, or takes to print its version, is its own affair.
FairSpec == Spec /\ \A c \in Calls : WF_vars(Serve(c))
----------------------------------------------------------------------------
Places == {"idle", "admit", "switch", "filter", "refilter", "probe", "running",
           "done"}
Outcomes == {"none", "unauthorized", "denied", "skipped", "blocked", "error", "dry_run",
             "nothing", "ran"}

\* Every variable has its type, and the switch names an activator exactly
\* while it is on (Activate and Deactivate of internal/killswitch).
TypeOK ==
  /\ config \in Configs
  /\ killed \in BOOLEAN /\ by \in Operators \cup {NoOne, "config"}
  /\ killed <=> by # NoOne
  /\ pc \in [Calls -> Places]
  /\ req \in [Calls -> Requests \cup {NoReq}]
  /\ todo \in [Calls -> SUBSET Targets] /\ passed \in [Calls -> SUBSET Targets]
  /\ first \in [Calls -> SUBSET Targets] /\ launched \in [Calls -> SUBSET Targets]
  /\ gone \in [Calls -> BOOLEAN]
  /\ outcome \in [Calls -> Outcomes]
  /\ audited \subseteq Calls
  /\ switching \in [Operators -> {"none", "activate", "deactivate"}]
  /\ action \in {"none", "activate", "deactivate", "deactivate_denied"}
  /\ toggles \in 0..MaxToggles
  /\ late \in [Calls -> BOOLEAN] /\ confirmed \in [Calls -> BOOLEAN]
  /\ overlap \in BOOLEAN

\* A scanner is started only for targets that a call named and two filters in
\* turn let pass, each fail-closed; every one of them is permitted.
LaunchesArePermitted ==
  \A c \in Calls :
    launched[c] # {} =>
      /\ launched[c] \subseteq Permitted \cap first[c] \cap req[c].targets
      /\ req[c].key /\ ~config.dryRun

\* Once the switch has been turned on before the adapter's filter began, no
\* scanner starts while it stays on, although the handler and gate read the
\* switch long before (RunBBOT and RunNuclei ask again for every target).
KillStopsLaunches == \A c \in Calls : late[c] => launched[c] = {}

\* Gate starts Nuclei only with the operator's approval and after it has seen
\* the switch off itself; an error on the way to that answer refuses.
GateIsConfirmed ==
  \A c \in Calls :
    req[c].tool = "gate" /\ launched[c] # {} => req[c].approved /\ confirmed[c]

\* The store's log tells the state of the switch once all entries are in,
\* unless the calls that turned it last overlapped: turning it and logging it
\* are two steps, and refused attempts are logged between them.
LogTellsTheSwitch ==
  /\ \A o \in Operators : switching[o] = "none"
  /\ ~overlap
  /\ action \in {"activate", "deactivate"}
  => (killed <=> action = "activate")

\* A call whose client has gone ends, or waits for the scanner's version, which nothing
\* cuts short: its requests fail, and exec.CommandContext kills its scanner.
DisconnectEndsCall == \A c \in Calls : gone[c] ~> pc[c] \in {"probe", "done"}

\* specialist.go:34: Timeout is the "Max execution time", which would end a
\* scanner that does not end by itself.
ScansEnd == \A c \in Calls : pc[c] = "running" ~> pc[c] = "done"
============================================================================
