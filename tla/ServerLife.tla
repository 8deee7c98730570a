----------------------------- MODULE ServerLife -----------------------------
(***************************************************************************)
(* Servers start and stop (runServer, probeListen and runStop in           *)
(* cmd/pentest/main.go; daemonize in cmd/pentest/daemon_unix.go).          *)
(*                                                                         *)
(* `server` probes its two addresses, sets itself up, and then binds them  *)
(* in two goroutines; whichever fails ends the process with log.Fatalf.    *)
(* `server --daemon` starts such a process, writes that process's PID to   *)
(* the PID file and exits, without waiting for it. `stop` reads the file,  *)
(* sends SIGTERM and removes the file. Several of each may be under way.   *)
(*                                                                         *)
(* A server stands for its PID. os.WriteFile is one step: a `stop` that    *)
(* finds the file empty ends without effect.                               *)
(***************************************************************************)
EXTENDS Naturals

CONSTANTS
  Servers,   \* server processes, each started at most once
  Launchers, \* the `server --daemon` processes that start them
  Stoppers   \* terminals in which `stop` runs

VARIABLES
  phase,    \* where each server is
  todo,     \* the ports it has not bound yet
  owner,    \* who listens on each port
  parent,   \* the server a launcher has started and not yet written down
  upid,     \* what the PID file holds
  stop,     \* the command in each terminal
  sigterm,  \* servers that have been sent SIGTERM and have not ended yet
  clashed   \* history: servers a second command interfered with

serverVars == <<phase, todo, owner, parent, upid, stop, sigterm, clashed>>

Nobody  == "nobody"
Foreign == "another program"

ASSUME ServerAssumption ==
  Servers \cap (Launchers \cup {Nobody, Foreign}) = {}

Running == {"probing", "listening", "serving"}
Live(s) == phase[s] \in Running

\* The addresses a server listens on.
Ports == {"proxy", "mcp"}
----------------------------------------------------------------------------
ServerInit ==
  /\ phase = [s \in Servers |-> "unborn"]
  /\ todo = [s \in Servers |-> Ports]
  /\ owner = [p \in Ports |-> Nobody]
  /\ parent = [l \in Launchers |-> Nobody]
  /\ upid = Nobody
  /\ stop = [u \in Stoppers |-> [at |-> "idle", pid |-> Nobody]]
  /\ sigterm = {}
  /\ clashed = {}

\* The process ends and its listeners close.
Dies(s) ==
  /\ phase' = [phase EXCEPT ![s] = "dead"]
  /\ owner' = [p \in Ports |-> IF owner[p] = s THEN Nobody ELSE owner[p]]
  /\ sigterm' = sigterm \ {s}

StopsUnderWay == \E u \in Stoppers : stop[u].at # "idle"

\* daemonize starts the child. A server is interfered with when one is started while it
\* is there, or while another command still handles the PID file.
Launch(l, s) ==
  /\ parent[l] = Nobody
  /\ phase[s] = "unborn"
  /\ phase' = [phase EXCEPT ![s] = "probing"]
  /\ parent' = [parent EXCEPT ![l] = s]
  /\ clashed' = clashed \cup {r \in Servers : Live(r)}
       \cup (IF StopsUnderWay \/ \E k \in Launchers : parent[k] # Nobody
               THEN {s} ELSE {})
  /\ UNCHANGED <<todo, owner, upid, stop, sigterm>>

\* A server started without --daemon is in nobody's file.
StartInForeground(s) ==
  /\ phase[s] = "unborn"
  /\ phase' = [phase EXCEPT ![s] = "probing"]
  /\ clashed' = clashed \cup {s}
  /\ UNCHANGED <<todo, owner, parent, upid, stop, sigterm>>

\* Mutant: the launcher's own PID goes into the file.
WriteOwnPid(l) ==
  /\ parent[l] # Nobody
  /\ \/ upid' = l /\ UNCHANGED clashed
     \/ UNCHANGED upid /\ clashed' = clashed \cup {parent[l]}
  /\ parent' = [parent EXCEPT ![l] = Nobody]
  /\ UNCHANGED <<phase, todo, owner, stop, sigterm>>

\* The child's PID goes into the file, whatever has become of the child, and whatever
\* the file held. A failure is only logged.
WritePid(l) ==
  /\ parent[l] # Nobody
  /\ \/ upid' = parent[l] /\ UNCHANGED clashed
     \/ UNCHANGED upid /\ clashed' = clashed \cup {parent[l]}
  /\ parent' = [parent EXCEPT ![l] = Nobody]
  /\ UNCHANGED <<phase, todo, owner, stop, sigterm>>

\* No usable configuration, or one that enables the VPN, ends the process at once.
LoadFails(s) ==
  /\ phase[s] = "probing" /\ todo[s] = Ports /\ owner["proxy"] # s
  /\ Dies(s)
  /\ UNCHANGED <<todo, parent, upid, stop, clashed>>

\* probeListen binds the address for a moment ...
Probe(s, p) ==
  /\ phase[s] = "probing" /\ p \in todo[s]
  /\ p = "mcp" => "proxy" \notin todo[s]
  /\ IF owner[p] = Nobody
       THEN /\ owner' = [owner EXCEPT ![p] = s]
            /\ UNCHANGED <<phase, sigterm>>
       ELSE /\ owner[p] # s /\ Dies(s)
  /\ UNCHANGED <<todo, parent, upid, stop, clashed>>

\* ... and releases it. The proxy's address comes first.
Unprobe(s, p) ==
  /\ phase[s] = "probing" /\ owner[p] = s
  /\ owner' = [owner EXCEPT ![p] = Nobody]
  /\ todo' = [todo EXCEPT ![s] = @ \ {p}]
  /\ UNCHANGED <<phase, parent, upid, stop, sigterm, clashed>>

\* The proxy, the store and the MCP server are made; no configured database, no API
\* key or a malformed address ends the process.
SetUp(s) ==
  /\ phase[s] = "probing" /\ todo[s] = {}
  /\ \/ /\ phase' = [phase EXCEPT ![s] = "listening"]
        /\ UNCHANGED <<owner, sigterm>>
     \/ Dies(s)
  /\ todo' = [todo EXCEPT ![s] = Ports]
  /\ UNCHANGED <<parent, upid, stop, clashed>>

\* Mutant: a listener that cannot bind logs it and gives up.
ListenLogs(s, p) ==
  /\ phase[s] = "listening" /\ p \in todo[s]
  /\ IF owner[p] = Nobody
       THEN /\ owner' = [owner EXCEPT ![p] = s]
            /\ phase' = [phase EXCEPT ![s] = IF todo[s] = {p} THEN "serving" ELSE @]
       ELSE UNCHANGED <<owner, phase>>
  /\ todo' = [todo EXCEPT ![s] = @ \ {p}]
  /\ UNCHANGED <<parent, upid, stop, sigterm, clashed>>

\* ListenAndServe of either goroutine. The two come in either order.
Listen(s, p) ==
  /\ phase[s] = "listening" /\ p \in todo[s]
  /\ IF owner[p] = Nobody
       THEN /\ owner' = [owner EXCEPT ![p] = s]
            /\ phase' = [phase EXCEPT ![s] = IF todo[s] = {p} THEN "serving" ELSE @]
            /\ UNCHANGED sigterm
       ELSE Dies(s)
  /\ todo' = [todo EXCEPT ![s] = @ \ {p}]
  /\ UNCHANGED <<parent, upid, stop, clashed>>

\* A file that is not there, or empty, ends `stop`.
StopReadsPid(u) ==
  /\ stop[u].at = "idle" /\ upid # Nobody
  /\ stop' = [stop EXCEPT ![u] = [at |-> "signal", pid |-> upid]]
  /\ clashed' = clashed \cup {s \in Servers : \E l \in Launchers : parent[l] = s}
  /\ UNCHANGED <<phase, todo, owner, parent, upid, sigterm>>

\* SIGTERM; when no process has the PID, `stop` ends there and the file stays. No
\* handler is installed, so a server ends when the signal is delivered.
StopSignals(u) ==
  /\ stop[u].at = "signal"
  /\ LET s == stop[u].pid
     IN  IF s \in Servers /\ phase[s] \in Running \cup {"recycled"}
           THEN /\ sigterm' = sigterm \cup {s}
                /\ stop' = [stop EXCEPT ![u].at = "remove"]
           ELSE /\ stop' = [stop EXCEPT ![u] = [at |-> "idle", pid |-> Nobody]]
                /\ UNCHANGED sigterm
  /\ UNCHANGED <<phase, todo, owner, parent, upid, clashed>>

StopRemovesPid(u) ==
  /\ stop[u].at = "remove"
  /\ upid' = Nobody
  /\ stop' = [stop EXCEPT ![u] = [at |-> "idle", pid |-> Nobody]]
  /\ UNCHANGED <<phase, todo, owner, parent, sigterm, clashed>>

\* The signal is delivered.
Terminated(s) ==
  /\ s \in sigterm
  /\ Dies(s)
  /\ UNCHANGED <<todo, parent, upid, stop, clashed>>

\* The operating system hands a dead server's PID to another program.
Recycled(s) ==
  /\ phase[s] = "dead"
  /\ phase' = [phase EXCEPT ![s] = "recycled"]
  /\ UNCHANGED <<todo, owner, parent, upid, stop, sigterm, clashed>>

\* Another program takes a port, or gives it back.
ForeignBinds(p) ==
  /\ owner[p] \in {Nobody, Foreign}
  /\ owner' = [owner EXCEPT ![p] = IF @ = Nobody THEN Foreign ELSE Nobody]
  /\ UNCHANGED <<phase, todo, parent, upid, stop, sigterm, clashed>>

\* Steps of a server, which the scheduler does not starve.
Runs(s) ==
  \/ \E p \in Ports : Probe(s, p) \/ Unprobe(s, p) \/ Listen(s, p)
  \/ LoadFails(s) \/ SetUp(s)

ServerNext ==
  \/ \E l \in Launchers : WritePid(l) \/ \E s \in Servers : Launch(l, s)
  \/ \E s \in Servers :
       StartInForeground(s) \/ Runs(s) \/ Terminated(s) \/ Recycled(s)
  \/ \E u \in Stoppers : StopReadsPid(u) \/ StopSignals(u) \/ StopRemovesPid(u)
  \/ \E p \in Ports : ForeignBinds(p)

ServerSpec == ServerInit /\ [][ServerNext]_serverVars

ServerFairness ==
  \A s \in Servers : WF_serverVars(Runs(s)) /\ WF_serverVars(Terminated(s))
----------------------------------------------------------------------------
\* Every server, port and command is of its kind.
ServerTypeOK ==
  /\ phase \in [Servers -> {"unborn", "dead", "recycled"} \cup Running]
  /\ todo \in [Servers -> SUBSET Ports]
  /\ owner \in [Ports -> Servers \cup {Nobody, Foreign}]
  /\ parent \in [Launchers -> Servers \cup {Nobody}]
  /\ upid \in Servers \cup Launchers \cup {Nobody}
  /\ stop \in [Stoppers -> [at : {"idle", "signal", "remove"},
                             pid : Servers \cup Launchers \cup {Nobody}]]
  /\ sigterm \subseteq Servers /\ clashed \subseteq Servers

\* A server that listens and that nobody has told to stop can be stopped: its PID is in
\* the file, unless its start was not the only command handling the file, another
\* server was started beside it, or the file could not be written.
StopCanReach ==
  \A s \in Servers :
    phase[s] \in {"listening", "serving"} /\ s \notin sigterm \cup clashed
      => upid = s \/ \E l \in Launchers : parent[l] = s

\* A process that gets as far as listening ends up serving on both ports, or it ends;
\* none goes on with one of the two.
ServesOrDies ==
  \A s \in Servers : phase[s] = "probing" ~> phase[s] \in {"serving", "dead"}

\* Holds not: stop reaches whatever server is up. A second start fails on its ports,
\* and its PID has replaced that of the server that is up.
StopReachesTheServer ==
  \A s \in Servers :
    phase[s] = "serving" /\ s \notin sigterm /\ ~StopsUnderWay
      => upid = s \/ \E l \in Launchers : parent[l] = s

\* Holds not: of several starts one serves. Each may bind one of the two ports and end
\* on the other (the window main.go:1008 speaks of).
SomeoneServes ==
  (\A s \in Servers : phase[s] = "probing") /\ (\A p \in Ports : owner[p] = Nobody)
    ~> (\E s \in Servers : phase[s] = "serving") \/ (\E p \in Ports : owner[p] = Foreign)
============================================================================
