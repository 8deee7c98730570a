------------------------------- MODULE Workers -------------------------------
(***************************************************************************)
(* Worker processes and their PID files (runSpawn in cmd/pentest/main.go): *)
(* `spawn` starts a process for a task and writes <task>.pid; `spawn list` *)
(* reads every PID file, probes the process with signal 0 and removes the  *)
(* files of dead ones; `spawn stop` reads one file, asks ps whether that   *)
(* process looks like a worker, kills it and removes the file. What looks  *)
(* like one is any process with the name of an agent in its arguments; ps  *)
(* and each signal may fail, and the command goes on.                      *)
(*                                                                         *)
(* All of these are commands in different terminals, and the orchestrator  *)
(* spawns too. Each system call is a step of its own. PIDs are reused by   *)
(* the operating system. Nobody waits for a worker, so one the             *)
(* orchestrator spawned stays a zombie until the orchestrator ends.        *)
(***************************************************************************)
EXTENDS Naturals

CONSTANTS
  WorkerIds,     \* tasks; a worker is named after its task
  Pids,          \* the operating system's process identifiers
  Terminals,     \* where commands run
  Orchestrator,  \* the terminal whose process lives on between its spawns
  MaxSpawns,     \* bound: workers started
  MaxStrangers   \* bound: PIDs handed to processes of other programs

ASSUME WorkersAssumption ==
  /\ Orchestrator \in Terminals
  /\ MaxSpawns \in Nat /\ MaxStrangers \in Nat
  /\ {"no file", "blank"} \cap Pids = {}
  /\ "no worker" \notin WorkerIds

VARIABLES
  proc,      \* what each PID stands for
  pidFile,   \* what <task>.pid holds: NoFile, Blank, or a PID
  job,       \* the command under way in each terminal
  newer,     \* history: terminals whose file was written again after they read it
  misled,    \* history: terminals whose PID was handed out after they looked at it, or
             \* that went on when ps, or the signal to a living worker, failed
  spawned,   \* workers started so far
  strangers  \* PIDs handed to other programs so far

workersVars == <<proc, pidFile, job, newer, misled, spawned, strangers>>

NoFile == "no file"
Blank  == "blank"      \* created or truncated, not yet filled
NoWorker == "no worker"

Free     == [kind |-> "free", id |-> NoWorker, parent |-> FALSE]
\* A process of another program; a lookalike has one of "codex", "claude", "agy" and
\* "podman" somewhere in its arguments.
Other(kind) == [kind |-> kind, id |-> NoWorker, parent |-> FALSE]
Others == {Other("stranger"), Other("lookalike")}
\* A worker; parent says whether the orchestrator has spawned it and still lives.
Worker(id, parent) == [kind |-> "worker", id |-> id, parent |-> parent]
Zombie(id) == [kind |-> "zombie", id |-> id, parent |-> TRUE]

Processes ==
  [kind : {"free", "worker", "zombie", "stranger", "lookalike"}, id : WorkerIds \cup {NoWorker},
   parent : BOOLEAN]

\* A command: what it does next, on which file and process, and for `spawn list` the
\* files it has still to look at.
Job(at, id, pid, todo) == [at |-> at, id |-> id, pid |-> pid, todo |-> todo]
Idle == Job("idle", NoWorker, NoFile, {})
Between(todo) == Job("list", NoWorker, NoFile, todo)

At(u, place) == job[u].at = place
Step(u, place) == job' = [job EXCEPT ![u].at = place]
End(u) == job' = [job EXCEPT ![u] = Idle]

IsLive(p) == proc[p].kind = "worker"
Executing(p) == proc[p].kind \in {"worker", "stranger", "lookalike"}

\* The process p is gone: a child of the living orchestrator stays as a zombie.
Gone(p) == IF proc[p].parent THEN Zombie(proc[p].id) ELSE Free

\* Commands that have looked at the process p and act on what they saw.
Decided == {"clean", "drop", "kill", "remove"}
Targeting(p) == {u \in Terminals : job[u].at \in Decided /\ job[u].pid = p}
\* Commands that have read the PID file of id and may yet remove it.
Reading(id) == {u \in Terminals : job[u].at \in Decided \cup {"probe", "verify"}
                                   /\ job[u].id = id}
----------------------------------------------------------------------------
WorkersInit ==
  /\ proc = [p \in Pids |-> Free]
  /\ pidFile = [id \in WorkerIds |-> NoFile]
  /\ job = [u \in Terminals |-> Idle]
  /\ newer = {} /\ misled = {}
  /\ spawned = 0 /\ strangers = 0

\* cmd.Start: the operating system hands out a free PID.
SpawnStarts(u, id, p) ==
  /\ At(u, "idle") /\ spawned < MaxSpawns
  /\ proc[p] = Free
  /\ proc' = [proc EXCEPT ![p] = Worker(id, u = Orchestrator)]
  /\ job' = [job EXCEPT ![u] = Job("open", id, p, {})]
  /\ misled' = misled \cup Targeting(p)
  /\ spawned' = spawned + 1
  /\ UNCHANGED <<pidFile, newer, strangers>>

\* os.WriteFile truncates an earlier file ...
PidFileOpens(u) ==
  /\ At(u, "open")
  /\ pidFile' = [pidFile EXCEPT ![job[u].id] = Blank]
  /\ newer' = newer \cup Reading(job[u].id)
  /\ Step(u, "fill")
  /\ UNCHANGED <<proc, misled, spawned, strangers>>

\* ... or fails, before or after that, which is only logged ...
PidFileFails(u) ==
  /\ At(u, "open") \/ At(u, "fill") \/ At(u, "lost fill")
  /\ End(u)
  /\ UNCHANGED <<proc, pidFile, newer, misled, spawned, strangers>>

\* ... and fills it, unless the file has been removed from under it.
PidFileFills(u) ==
  /\ At(u, "fill") \/ At(u, "lost fill")
  /\ pidFile' = IF At(u, "fill") THEN [pidFile EXCEPT ![job[u].id] = job[u].pid]
                                 ELSE pidFile
  /\ newer' = newer \cup Reading(job[u].id)
  /\ End(u)
  /\ UNCHANGED <<proc, misled, spawned, strangers>>

\* os.Remove by u of the PID file of id, whatever it holds by now.
RemovePidFile(u, id, next) ==
  /\ pidFile' = [pidFile EXCEPT ![id] = NoFile]
  /\ job' = [v \in Terminals |->
               IF v = u THEN next
               ELSE IF At(v, "fill") /\ job[v].id = id
                      THEN [job[v] EXCEPT !.at = "lost fill"]
                      ELSE job[v]]
  /\ newer' = newer \ {u} /\ misled' = misled \ {u}
  /\ UNCHANGED <<proc, spawned, strangers>>

\* spawn list: ReadDir.
ListBegins(u) ==
  /\ At(u, "idle")
  /\ job' = [job EXCEPT ![u] = Between({id \in WorkerIds : pidFile[id] # NoFile})]
  /\ UNCHANGED <<proc, pidFile, newer, misled, spawned, strangers>>

\* Mutant: a file without a number in it is taken for a stale one.
ListReadsBlankAsStale(u, id) ==
  /\ At(u, "list") /\ id \in job[u].todo
  /\ LET rest == job[u].todo \ {id}
     IN  job' = [job EXCEPT ![u] =
                   IF pidFile[id] = NoFile
                     THEN Between(rest)
                     ELSE Job(IF pidFile[id] = Blank THEN "clean" ELSE "probe",
                              id, pidFile[id], rest)]
  /\ newer' = newer \ {u}
  /\ UNCHANGED <<proc, pidFile, misled, spawned, strangers>>

\* A file that is gone, cannot be read or holds no number is passed over.
ListReads(u, id) ==
  /\ At(u, "list") /\ id \in job[u].todo
  /\ LET rest == job[u].todo \ {id}
     IN  \/ job' = [job EXCEPT ![u] = Between(rest)]
         \/ /\ pidFile[id] \in Pids
            /\ job' = [job EXCEPT ![u] = Job("probe", id, pidFile[id], rest)]
  /\ newer' = newer \ {u}
  /\ UNCHANGED <<proc, pidFile, misled, spawned, strangers>>

\* Signal 0 reaches anything that has the PID, a zombie and another program too; it
\* fails where nothing has it, and where the operating system refuses.
ListProbes(u) ==
  /\ At(u, "probe")
  /\ \/ /\ Step(u, "clean")
        /\ misled' = IF IsLive(job[u].pid) THEN misled \cup {u} ELSE misled
     \/ /\ proc[job[u].pid].kind # "free"
        /\ job' = [job EXCEPT ![u] = Between(@.todo)]
        /\ UNCHANGED misled
  /\ UNCHANGED <<proc, pidFile, newer, spawned, strangers>>

ListCleans(u) ==
  /\ At(u, "clean")
  /\ RemovePidFile(u, job[u].id, Between(job[u].todo))

ListEnds(u) ==
  /\ At(u, "list") /\ job[u].todo = {}
  /\ End(u)
  /\ UNCHANGED <<proc, pidFile, newer, misled, spawned, strangers>>

\* spawn stop: no file, or no number in it, ends the command.
StopReads(u, id) ==
  /\ At(u, "idle")
  /\ pidFile[id] \in Pids
  /\ job' = [job EXCEPT ![u] = Job("verify", id, pidFile[id], {})]
  /\ newer' = newer \ {u}
  /\ UNCHANGED <<proc, pidFile, misled, spawned, strangers>>

\* Mutant: the process is not looked at before it is killed.
StopVerifiesNothing(u) ==
  /\ At(u, "verify")
  /\ misled' = misled \ {u}
  /\ Step(u, "kill")
  /\ UNCHANGED <<proc, pidFile, newer, spawned, strangers>>

\* isWorkerProcess: a worker has the name of its agent in its arguments, and a zombie
\* may have kept it. ps fails where there is no such process, and may fail otherwise:
\* a warning only.
StopVerifies(u) ==
  /\ At(u, "verify")
  /\ LET kind == proc[job[u].pid].kind
     IN  \/ /\ Step(u, "kill")
            /\ misled' = IF kind = "free" THEN misled \ {u} ELSE misled \cup {u}
         \/ /\ kind \in {"worker", "zombie", "lookalike"} /\ Step(u, "kill")
            /\ misled' = misled \ {u}
         \/ /\ kind \in {"zombie", "stranger"} /\ Step(u, "drop")
            /\ misled' = misled \ {u}
  /\ UNCHANGED <<proc, pidFile, newer, spawned, strangers>>

\* Not a worker: the file is removed and nothing is killed.
StopDrops(u) ==
  /\ At(u, "drop")
  /\ RemovePidFile(u, job[u].id, Idle)

\* proc.Kill of whatever has the PID now; a failure is only logged.
StopKills(u) ==
  /\ At(u, "kill")
  /\ LET p == job[u].pid
     IN  \/ /\ Executing(p)
            /\ proc' = [proc EXCEPT ![p] = Gone(p)]
            /\ UNCHANGED misled
         \/ /\ UNCHANGED proc
            /\ misled' = IF IsLive(p) THEN misled \cup {u} ELSE misled
  /\ Step(u, "remove")
  /\ UNCHANGED <<pidFile, newer, spawned, strangers>>

StopRemoves(u) ==
  /\ At(u, "remove")
  /\ RemovePidFile(u, job[u].id, Idle)

\* A worker or a process of another program ends by itself.
Exits(p) ==
  /\ Executing(p)
  /\ proc' = [proc EXCEPT ![p] = Gone(p)]
  /\ UNCHANGED <<pidFile, job, newer, misled, spawned, strangers>>

\* A free PID goes to a process of another program.
Reuse(p) ==
  /\ proc[p] = Free /\ strangers < MaxStrangers
  /\ \E other \in Others : proc' = [proc EXCEPT ![p] = other]
  /\ misled' = misled \cup Targeting(p)
  /\ strangers' = strangers + 1
  /\ UNCHANGED <<pidFile, job, newer, spawned>>

\* A command is interrupted, wherever it is. With the orchestrator its zombies go, and
\* its workers become children of init.
Interrupt(u) ==
  /\ End(u)
  /\ proc' = IF u = Orchestrator
               THEN [p \in Pids |-> IF proc[p].kind = "zombie" THEN Free
                                    ELSE [proc[p] EXCEPT !.parent = FALSE]]
               ELSE proc
  /\ newer' = newer \ {u} /\ misled' = misled \ {u}
  /\ UNCHANGED <<pidFile, spawned, strangers>>

Spawning(u) ==
  \/ \E id \in WorkerIds, p \in Pids : SpawnStarts(u, id, p)
  \/ PidFileOpens(u) \/ PidFileFails(u) \/ PidFileFills(u)

Listing(u) ==
  /\ u # Orchestrator
  /\ \/ ListBegins(u) \/ \E id \in WorkerIds : ListReads(u, id)
     \/ ListProbes(u) \/ ListCleans(u) \/ ListEnds(u)

Stopping(u) ==
  /\ u # Orchestrator
  /\ \/ \E id \in WorkerIds : StopReads(u, id)
     \/ StopVerifies(u) \/ StopDrops(u) \/ StopKills(u) \/ StopRemoves(u)

WorkersNext ==
  \/ \E u \in Terminals : Spawning(u) \/ Listing(u) \/ Stopping(u) \/ Interrupt(u)
  \/ \E p \in Pids : Exits(p) \/ Reuse(p)

WorkersSpec == WorkersInit /\ [][WorkersNext]_workersVars
----------------------------------------------------------------------------
Places == {"open", "fill", "lost fill", "probe", "clean", "verify", "drop", "kill",
           "remove"}
Jobs ==
  [at : Places, id : WorkerIds, pid : Pids, todo : SUBSET WorkerIds]
    \cup [at : {"idle", "list"}, id : {NoWorker}, pid : {NoFile}, todo : SUBSET WorkerIds]

\* Every process, file and command is of its kind; a zombie has a living parent.
WorkersTypeOK ==
  /\ proc \in [Pids -> Processes]
  /\ \A p \in Pids : proc[p].kind = "zombie" => proc[p].parent
  /\ pidFile \in [WorkerIds -> Pids \cup {NoFile, Blank}]
  /\ job \in [Terminals -> Jobs]
  /\ newer \subseteq Terminals /\ misled \subseteq Terminals
  /\ spawned \in 0..MaxSpawns /\ strangers \in 0..MaxStrangers

\* `spawn stop` is about to kill only what has the name of an agent in its arguments, and
\* once it has killed, what its PID file named is a worker no more, unless ps or the
\* signal failed or the PID has been handed out again since ps.
StopHitsTheWorker ==
  \A u \in Terminals \ misled :
    /\ At(u, "kill") => proc[job[u].pid].kind # "stranger"
    /\ At(u, "remove") => ~IsLive(job[u].pid)

\* Holds not: "Verify if it is actually our worker process to prevent PID recycling
\* issues" (main.go:1369): when ps has answered for the process that has the PID, `spawn
\* stop` is not about to kill a process of another program. It may be a lookalike.
StopSparesStrangers ==
  \A u \in Terminals \ misled : At(u, "kill") => proc[job[u].pid] \notin Others

\* Removing a PID file, `spawn list` and `spawn stop` leave no living worker without
\* its file and no spawn with a file that is gone, unless the file was written after the
\* command had read it, the PID handed out after the command had looked at it, or ps or
\* the signal to that worker failed.
RemovalsSpareTheLive ==
  [][\A u \in Terminals, id \in WorkerIds :
       /\ job[u].at \in {"clean", "drop", "remove"} /\ job[u].id = id
       /\ pidFile'[id] = NoFile /\ pidFile[id] # NoFile
       /\ job'[u].at # job[u].at /\ u \notin newer \cup misled
       => \A p \in Pids :
            /\ ~(IsLive(p) /\ proc[p].id = id /\ pidFile[id] = p)
            /\ pidFile[id] # Blank]_workersVars

\* Holds not: a stop never hits the worker of another task. Another worker that has the
\* PID looks the same to ps.
KillsOnlyItsOwn ==
  [][\A u \in Terminals :
       At(u, "kill") /\ job'[u].at = "remove"
         => proc[job[u].pid].id \in {job[u].id, NoWorker}]_workersVars

\* Holds not: what is listed as running is alive. A zombie answers signal 0, and so
\* does another program.
ListedAreAlive ==
  [][\A u \in Terminals :
       At(u, "probe") /\ job'[u].at = "list" => IsLive(job[u].pid)]_workersVars
============================================================================
