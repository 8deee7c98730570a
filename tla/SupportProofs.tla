---------------------------- MODULE SupportProofs ----------------------------
(***************************************************************************)
(* Proofs about the commands and services around the proxy, each module    *)
(* for every value of its own constants: TLC's instances of them are       *)
(* small, since they share one run.                                        *)
(***************************************************************************)
EXTENDS Workers, ServerLife, VPNGateway, ScopeRules, RateLimiter, ConfiguredStore,
        ScanCommand, Normalize, TLAPS, Recursion, FiniteSetTheorems, SequenceTheorems

----------------------------------------------------------------------------
(* Workers. A command that acts on a process or a file has looked at it    *)
(* before; what it saw holds unless ps, a signal or a reused PID has       *)
(* misled it (misled), or the file was written (newer), since then.        *)

\* What a command has seen of the process still holds.
ProcessAsSeen ==
  \A u \in Terminals \ misled :
    /\ At(u, "kill") => proc[job[u].pid].kind # "stranger"
    /\ job[u].at \in {"clean", "drop", "remove"} => ~IsLive(job[u].pid)

\* The file holds what the command has read in it, or is gone.
FileAsRead ==
  \A u \in Terminals \ newer :
    job[u].at \in Decided \cup {"probe", "verify"}
      => pidFile[job[u].id] \in {job[u].pid, NoFile}

WorkersInv == WorkersTypeOK /\ ProcessAsSeen /\ FileAsRead

\* The commands under way, by what they hold.
LEMMA JobShapes ==
  ASSUME NEW j \in Jobs
  PROVE  /\ j.at \in Places \cup {"idle", "list"} /\ j.todo \subseteq WorkerIds
         /\ j.at \in Places => j.id \in WorkerIds /\ j.pid \in Pids
         /\ j = Job(j.at, j.id, j.pid, j.todo)
         /\ \A place \in Places : j.at \in Places => [j EXCEPT !.at = place] \in Jobs
BY DEF Jobs, Job, Places

\* A command that takes a step keeps what it holds.
LEMMA StepKeeps ==
  ASSUME NEW u \in Terminals, NEW place, job \in [Terminals -> Jobs], Step(u, place)
  PROVE  job' = [job EXCEPT ![u] = Job(place, job[u].id, job[u].pid, job[u].todo)]
<1>1. \A x, id, pid, rest : [Job(x, id, pid, rest) EXCEPT !.at = place]
                              = Job(place, id, pid, rest)
  BY DEF Job
<1>2. [job[u] EXCEPT !.at = place] = Job(place, job[u].id, job[u].pid, job[u].todo)
  <2>1. job[u] = Job(job[u].at, job[u].id, job[u].pid, job[u].todo)
    BY JobShapes
  <2> QED
    BY <1>1, <2>1
<1> QED
  BY <1>2 DEF Step

\* The commands the actions begin are of the type of a command.
LEMMA NewJobs ==
  /\ Idle \in Jobs
  /\ \A place \in Places, id \in WorkerIds, p \in Pids, rest \in SUBSET WorkerIds :
       Job(place, id, p, rest) \in Jobs
  /\ \A rest \in SUBSET WorkerIds : Between(rest) \in Jobs
BY DEF Jobs, Job, Idle, Between, Places

\* A count starts at zero, and below its bound may go up by one.
LEMMA CountsUp ==
  \A max \in Nat : 0 \in 0..max /\ \A n \in 0..max : n < max => n + 1 \in 0..max
OBVIOUS

\* What a PID stands for changes: the processes keep their types.
LEMMA ProcessChanges ==
  ASSUME proc \in [Pids -> Processes],
         \A q \in Pids : proc[q].kind = "zombie" => proc[q].parent,
         NEW p \in Pids, NEW x \in Processes, x.kind = "zombie" => x.parent,
         proc' = [proc EXCEPT ![p] = x]
  PROVE  /\ proc' \in [Pids -> Processes]
         /\ \A q \in Pids : proc'[q].kind = "zombie" => proc'[q].parent
OBVIOUS

\* Programs that are no workers are no zombies.
LEMMA OthersRun == \A other \in Others : other \in Processes /\ other.kind # "zombie"
<1>1. \A kind \in {"stranger", "lookalike"} :
        Other(kind) \in Processes /\ Other(kind).kind = kind
  BY DEF Other, Processes
<1>2. \A other \in Others : \E kind \in {"stranger", "lookalike"} : other = Other(kind)
  BY DEF Others
<1> QED
  BY <1>1, <1>2

\* Every step of one command keeps the types.
LEMMA WorkersTyped == WorkersTypeOK /\ [WorkersNext]_workersVars => WorkersTypeOK'
<1> SUFFICES ASSUME WorkersTypeOK, [WorkersNext]_workersVars PROVE WorkersTypeOK'
  OBVIOUS
<1> USE WorkersAssumption DEF WorkersTypeOK
<1>0. ASSUME NEW u \in Terminals
      PROVE  /\ job[u] \in Jobs /\ job[u].todo \subseteq WorkerIds
             /\ job[u].at \in Places => job[u].id \in WorkerIds /\ job[u].pid \in Pids
             /\ \A place \in Places :
                  job[u].at \in Places => [job[u] EXCEPT !.at = place] \in Jobs
  BY JobShapes
<1>10. /\ MaxSpawns \in Nat /\ MaxStrangers \in Nat
       /\ spawned \in 0..MaxSpawns /\ strangers \in 0..MaxStrangers
  BY Zenon
<1>9. \A p \in Pids : Targeting(p) \subseteq Terminals
  BY Zenon DEF Targeting
<1>1. ASSUME NEW u \in Terminals, Spawning(u) PROVE WorkersTypeOK'
  <2>1. ASSUME NEW id \in WorkerIds, NEW p \in Pids, SpawnStarts(u, id, p)
        PROVE  WorkersTypeOK'
    <3>1. Job("open", id, p, {}) \in Jobs
      BY NewJobs DEF Places
    <3>2. Worker(id, u = Orchestrator) \in Processes
          /\ Worker(id, u = Orchestrator).kind = "worker"
      BY DEF Worker, Processes
    <3>3. job' \in [Terminals -> Jobs]
      BY <2>1, <3>1 DEF SpawnStarts
    <3>4. /\ proc' \in [Pids -> Processes]
          /\ \A q \in Pids : proc'[q].kind = "zombie" => proc'[q].parent
      BY <2>1, <3>2 DEF SpawnStarts
    <3>5. misled' \subseteq Terminals
      BY <2>1, <1>9 DEF SpawnStarts
    <3>6. spawned' \in 0..MaxSpawns
      BY <2>1, <1>10, CountsUp DEF SpawnStarts
    <3> QED
      BY <2>1, <3>3, <3>4, <3>5, <3>6 DEF SpawnStarts
  <2>2. CASE PidFileOpens(u)
    BY <1>0, <2>2 DEF PidFileOpens, At, Step, Reading, Places
  <2>3. CASE PidFileFails(u)
    BY <2>3, NewJobs DEF PidFileFails, End
  <2>4. CASE PidFileFills(u)
    BY <1>0, <2>4, NewJobs DEF PidFileFills, At, End, Reading, Places
  <2> QED
    BY <1>1, <2>1, <2>2, <2>3, <2>4 DEF Spawning
<1>2. ASSUME NEW u \in Terminals, NEW id \in WorkerIds, NEW next \in Jobs,
             RemovePidFile(u, id, next)
      PROVE  WorkersTypeOK'
  BY <1>0, <1>2 DEF RemovePidFile, At, Places
<1>3. ASSUME NEW u \in Terminals, Listing(u) PROVE WorkersTypeOK'
  <2>1. CASE ListBegins(u)
    BY <2>1, NewJobs DEF ListBegins
  <2>2. ASSUME NEW id \in WorkerIds, ListReads(u, id) PROVE WorkersTypeOK'
    <3> DEFINE rest == job[u].todo \ {id}
    <3>1. rest \in SUBSET WorkerIds
      BY <1>0
    <3>2. Between(rest) \in Jobs /\ \A p \in Pids : Job("probe", id, p, rest) \in Jobs
      BY <3>1, NewJobs DEF Places
    <3> HIDE DEF rest
    <3> QED
      BY <2>2, <3>2 DEF ListReads, rest
  <2>3. CASE ListProbes(u)
    <3>1. CASE Step(u, "clean")
      <4>1. misled' \subseteq Terminals
        BY <2>3 DEF ListProbes
      <4> QED
        BY <1>0, <2>3, <3>1, <4>1 DEF ListProbes, At, Step, Places
    <3>2. CASE job' = [job EXCEPT ![u] = Between(@.todo)] /\ UNCHANGED misled
      <4>1. Between(job[u].todo) \in Jobs
        BY <1>0, NewJobs
      <4> QED
        BY <2>3, <3>2, <4>1 DEF ListProbes
    <3> QED
      BY <2>3, <3>1, <3>2 DEF ListProbes
  <2>4. CASE ListCleans(u)
    BY <1>0, <1>2, <2>4, NewJobs DEF ListCleans, At, Places
  <2>5. CASE ListEnds(u)
    BY <2>5, NewJobs DEF ListEnds, End
  <2> QED
    BY <1>3, <2>1, <2>2, <2>3, <2>4, <2>5 DEF Listing
<1>4. ASSUME NEW u \in Terminals, Stopping(u) PROVE WorkersTypeOK'
  <2>1. ASSUME NEW id \in WorkerIds, StopReads(u, id) PROVE WorkersTypeOK'
    BY <2>1, NewJobs DEF StopReads, Places
  <2>2. CASE StopVerifies(u)
    BY <1>0, <2>2 DEF StopVerifies, At, Step, Places
  <2>3. CASE StopDrops(u)
    BY <1>0, <1>2, <2>3, NewJobs DEF StopDrops, At, Places
  <2>4. CASE StopKills(u)
    <3>1. \A p \in Pids : /\ Gone(p) \in Processes
                          /\ Gone(p).kind = "zombie" => Gone(p).parent
      BY DEF Gone, Zombie, Free, Processes
    <3>2. misled' \subseteq Terminals
      BY <2>4 DEF StopKills
    <3>3. proc' \in [Pids -> Processes] /\ \A p \in Pids : proc'[p].kind = "zombie" => proc'[p].parent
      <4>1. CASE proc' = [proc EXCEPT ![job[u].pid] = Gone(job[u].pid)]
        <5>1. job[u].pid \in Pids
          BY <1>0, <2>4 DEF StopKills, At, Places
        <5> QED
          BY <3>1, <4>1, <5>1, ProcessChanges
      <4>2. CASE UNCHANGED proc
        BY <4>2
      <4> QED
        BY <2>4, <4>1, <4>2 DEF StopKills
    <3>4. job' \in [Terminals -> Jobs]
      BY <1>0, <2>4 DEF StopKills, At, Step, Places
    <3> QED
      BY <2>4, <3>2, <3>3, <3>4 DEF StopKills
  <2>5. CASE StopRemoves(u)
    BY <1>0, <1>2, <2>5, NewJobs DEF StopRemoves, At, Places
  <2> QED
    BY <1>4, <2>1, <2>2, <2>3, <2>4, <2>5 DEF Stopping
<1>5. ASSUME NEW u \in Terminals, Interrupt(u) PROVE WorkersTypeOK'
  <2>1. \A p \in Pids : /\ [proc[p] EXCEPT !.parent = FALSE] \in Processes
                        /\ [proc[p] EXCEPT !.parent = FALSE].kind = proc[p].kind
    <3>1. \A q \in Processes : /\ [q EXCEPT !.parent = FALSE] \in Processes
                               /\ [q EXCEPT !.parent = FALSE].kind = q.kind
      BY DEF Processes
    <3> QED
      BY <3>1
  <2>2. Free \in Processes /\ Free.kind = "free"
    BY DEF Free, Processes
  <2> QED
    BY <1>5, <2>1, <2>2, NewJobs DEF Interrupt, End
<1>6. ASSUME NEW p \in Pids, Exits(p) PROVE WorkersTypeOK'
  <2>1. Gone(p) \in Processes /\ (Gone(p).kind = "zombie" => Gone(p).parent)
    BY DEF Gone, Zombie, Free, Processes
  <2> QED
    BY <1>6, <2>1 DEF Exits
<1>7. ASSUME NEW p \in Pids, Reuse(p) PROVE WorkersTypeOK'
  <2>1. \A other \in Others : other \in Processes /\ other.kind # "zombie"
    BY OthersRun
  <2>2. /\ proc' \in [Pids -> Processes]
        /\ \A q \in Pids : proc'[q].kind = "zombie" => proc'[q].parent
    <3>1. PICK other \in Others : proc' = [proc EXCEPT ![p] = other]
      BY <1>7 DEF Reuse
    <3>2. other \in Processes /\ (other.kind = "zombie" => other.parent)
      BY <2>1
    <3> QED
      BY <3>1, <3>2, ProcessChanges
  <2>3. misled' \subseteq Terminals
    BY <1>7, <1>9 DEF Reuse
  <2>4. strangers' \in 0..MaxStrangers
    BY <1>7, <1>10, CountsUp DEF Reuse
  <2> QED
    BY <1>7, <2>2, <2>3, <2>4 DEF Reuse
<1>8. CASE UNCHANGED workersVars
  BY <1>8 DEF workersVars
<1> QED
  BY <1>1, <1>3, <1>4, <1>5, <1>6, <1>7, <1>8 DEF WorkersNext

\* Every step keeps what a command has seen of its process.
LEMMA WorkersSeeProcesses ==
  WorkersTypeOK /\ ProcessAsSeen /\ [WorkersNext]_workersVars => ProcessAsSeen'
<1> SUFFICES ASSUME WorkersTypeOK, ProcessAsSeen, [WorkersNext]_workersVars
             PROVE  ProcessAsSeen'
  OBVIOUS
<1> DEFINE Seen(v) == /\ At(v, "kill") => proc[job[v].pid].kind # "stranger"
                      /\ job[v].at \in {"clean", "drop", "remove"} => ~IsLive(job[v].pid)
<1>0. /\ \A v \in Terminals : /\ v \notin misled => Seen(v)
                              /\ job[v].at \in Places => job[v].pid \in Pids
      /\ job \in [Terminals -> Jobs] /\ proc \in [Pids -> Processes]
      /\ \A v \in Terminals, p \in Pids :
           v \in Targeting(p) <=> job[v].at \in Decided /\ job[v].pid = p
  BY JobShapes DEF WorkersTypeOK, ProcessAsSeen, Targeting
<1>s. ASSUME \A v \in Terminals : v \notin misled' => Seen(v)'
      PROVE  ProcessAsSeen'
  BY <1>s DEF ProcessAsSeen
<1> USE DEF At, IsLive, Places, Decided
<1>1. ASSUME NEW u \in Terminals, NEW id \in WorkerIds, NEW p \in Pids,
             SpawnStarts(u, id, p)
      PROVE  ProcessAsSeen'
  <2>1. Seen(u)'
    BY <1>0, <1>1 DEF SpawnStarts, Job
  <2>2. ASSUME NEW v \in Terminals \ {u}, v \notin misled' PROVE Seen(v)'
    <3>0. job' = [job EXCEPT ![u] = Job("open", id, p, {})]
          /\ misled' = misled \cup Targeting(p)
      BY <1>1 DEF SpawnStarts
    <3>1. v \notin misled /\ v \notin Targeting(p)
      BY <2>2, <3>0
    <3>2. job'[v] = job[v]
      BY <2>2, <3>0
    <3> DEFINE worker == Worker(id, u = Orchestrator)
    <3>8. proc' = [proc EXCEPT ![p] = worker]
      BY <1>1 DEF SpawnStarts
    <3> HIDE DEF worker
    <3>3. \A q \in Pids : q # p => proc'[q] = proc[q]
      BY <1>0, <3>8
    <3>4. job[v].at \in Decided => job[v].pid \in Pids /\ job[v].pid # p
      BY <1>0, <3>1
    <3>5. Seen(v)
      BY <1>0, <3>1
    <3> DEFINE q == job[v].pid
    <3>6. job[v].at \in Decided => proc'[q] = proc[q]
      BY <3>3, <3>4
    <3>7. job'[v].at = job[v].at /\ job'[v].pid = q
      BY <3>2
    <3> QED
      BY <3>5, <3>6, <3>7
  <2> QED
    BY <1>s, <2>1, <2>2
<1>2. ASSUME NEW u \in Terminals, PidFileOpens(u) \/ PidFileFails(u) \/ PidFileFills(u)
      PROVE  ProcessAsSeen'
  <2>1. CASE PidFileOpens(u)
    <3>1. job' = [job EXCEPT ![u] = Job("fill", job[u].id, job[u].pid, job[u].todo)]
      BY <1>0, <2>1, StepKeeps DEF PidFileOpens
    <3> QED
      BY <1>0, <1>s, <2>1, <3>1 DEF PidFileOpens, Job
  <2>2. CASE PidFileFails(u)
    BY <1>0, <1>s, <2>2 DEF PidFileFails, End, Idle, Job
  <2>3. CASE PidFileFills(u)
    BY <1>0, <1>s, <2>3 DEF PidFileFills, End, Idle, Job
  <2> QED
    BY <1>2, <2>1, <2>2, <2>3
<1>3. ASSUME NEW u \in Terminals, NEW id \in WorkerIds, NEW next \in Jobs,
             RemovePidFile(u, id, next), next.at \in {"idle", "list"}
      PROVE  ProcessAsSeen'
  <2>1. Seen(u)'
    BY <1>0, <1>3 DEF RemovePidFile
  <2>2. ASSUME NEW v \in Terminals \ {u}, v \notin misled' PROVE Seen(v)'
    <3>1. v \notin misled /\ proc' = proc
      BY <1>3, <2>2 DEF RemovePidFile
    <3>2. CASE At(v, "fill") /\ job[v].id = id
      <4>1. job'[v] = [job[v] EXCEPT !.at = "lost fill"]
        BY <1>0, <1>3, <2>2, <3>2 DEF RemovePidFile
      <4>2. job[v] = Job("fill", job[v].id, job[v].pid, job[v].todo)
        BY <1>0, <3>2, JobShapes
      <4>3. job'[v].at = "lost fill"
        BY <4>1, <4>2 DEF Job
      <4> QED
        BY <4>3
    <3>3. CASE ~(At(v, "fill") /\ job[v].id = id)
      <4>1. job'[v] = job[v]
        BY <1>3, <2>2, <3>3 DEF RemovePidFile
      <4> QED
        BY <1>0, <3>1, <4>1
    <3> QED
      BY <3>2, <3>3
  <2> QED
    BY <1>s, <2>1, <2>2
<1>4. ASSUME NEW u \in Terminals, Listing(u) PROVE ProcessAsSeen'
  <2>1. CASE ListBegins(u)
    BY <1>0, <1>s, <2>1 DEF ListBegins, Between, Job
  <2>2. ASSUME NEW id \in WorkerIds, ListReads(u, id) PROVE ProcessAsSeen'
    <3>1. PICK j : /\ job' = [job EXCEPT ![u] = j] /\ j.at \notin Decided
                   /\ proc' = proc /\ misled' = misled
      BY <2>2 DEF ListReads, Between, Job
    <3> QED
      BY <1>0, <1>s, <3>1
  <2>3. CASE ListProbes(u)
    <3>1. CASE Step(u, "clean")
               /\ misled' = IF IsLive(job[u].pid) THEN misled \cup {u} ELSE misled
      <4>1. job' = [job EXCEPT ![u] = Job("clean", job[u].id, job[u].pid, job[u].todo)]
        BY <1>0, <2>3, <3>1, StepKeeps DEF ListProbes
      <4>2. proc' = proc /\ misled \subseteq misled' /\ (u \notin misled' => ~IsLive(job[u].pid))
        BY <2>3, <3>1 DEF ListProbes
      <4> QED
        BY <1>0, <1>s, <4>1, <4>2 DEF Job
    <3>2. CASE job' = [job EXCEPT ![u] = Between(@.todo)] /\ UNCHANGED misled
      <4>1. /\ job' = [job EXCEPT ![u] = Between(job[u].todo)]
            /\ proc' = proc /\ misled' = misled
        BY <2>3, <3>2 DEF ListProbes
      <4>2. Between(job[u].todo).at = "list"
        BY DEF Between, Job
      <4> QED
        BY <1>0, <1>s, <4>1, <4>2
    <3> QED
      BY <2>3, <3>1, <3>2 DEF ListProbes
  <2>4. CASE ListCleans(u)
    <3>1. job[u].id \in WorkerIds /\ job[u].todo \in SUBSET WorkerIds
      BY <2>4, JobShapes DEF ListCleans, WorkersTypeOK
    <3>2. Between(job[u].todo) \in Jobs /\ Between(job[u].todo).at = "list"
      BY <3>1, NewJobs DEF Between, Job
    <3> QED
      BY <1>3, <2>4, <3>1, <3>2 DEF ListCleans
  <2>5. CASE ListEnds(u)
    BY <1>0, <1>s, <2>5 DEF ListEnds, End, Idle, Job
  <2> QED
    BY <1>4, <2>1, <2>2, <2>3, <2>4, <2>5 DEF Listing
<1>5. ASSUME NEW u \in Terminals, Stopping(u) PROVE ProcessAsSeen'
  <2>1. ASSUME NEW id \in WorkerIds, StopReads(u, id) PROVE ProcessAsSeen'
    BY <1>0, <1>s, <2>1 DEF StopReads, Job
  <2>2. CASE StopVerifies(u)
    <3>1. PICK next \in {"kill", "drop"} :
            /\ Step(u, next)
            /\ next = "kill" /\ u \notin misled' => proc[job[u].pid].kind # "stranger"
            /\ next = "drop" => ~IsLive(job[u].pid)
      BY <2>2 DEF StopVerifies
    <3>2. job' = [job EXCEPT ![u] = Job(next, job[u].id, job[u].pid, job[u].todo)]
      BY <1>0, <2>2, <3>1, StepKeeps DEF StopVerifies
    <3>3. proc' = proc /\ misled \ {u} \subseteq misled'
      BY <2>2 DEF StopVerifies
    <3>4. u \notin misled' => Seen(u)'
      BY <1>0, <3>1, <3>2, <3>3 DEF Job
    <3>5. ASSUME NEW v \in Terminals \ {u}, v \notin misled' PROVE Seen(v)'
      BY <1>0, <3>2, <3>3, <3>5
    <3> QED
      BY <1>s, <3>4, <3>5
  <2>3. CASE StopDrops(u) \/ StopRemoves(u)
    <3>1. job[u].id \in WorkerIds
      BY <1>0, <2>3, JobShapes DEF StopDrops, StopRemoves
    <3>2. Idle \in Jobs /\ Idle.at = "idle"
      BY NewJobs DEF Idle, Job
    <3>3. RemovePidFile(u, job[u].id, Idle)
      BY <2>3 DEF StopDrops, StopRemoves
    <3> QED
      BY <1>3, <3>1, <3>2, <3>3
  <2>4. CASE StopKills(u)
    <3>1. job' = [job EXCEPT ![u] = Job("remove", job[u].id, job[u].pid, job[u].todo)]
      BY <1>0, <2>4, StepKeeps DEF StopKills
    <3>0. Gone(job[u].pid).kind \in {"zombie", "free"}
      BY DEF Gone, Zombie, Free
    <3>2. \A p \in Pids : /\ proc'[p].kind # "stranger" \/ proc'[p] = proc[p]
                          /\ proc'[p].kind # "worker" \/ proc'[p] = proc[p]
      BY <1>0, <2>4, <3>0 DEF StopKills
    <3>3. /\ job[u].pid \in Pids /\ misled \subseteq misled'
          /\ u \notin misled' => ~IsLive(job[u].pid)'
      <4>1. job[u].pid \in Pids
        BY <1>0, <2>4 DEF StopKills
      <4>2. job'[u].pid = job[u].pid
        BY <1>0, <3>1 DEF Job
      <4> QED
        BY <1>0, <2>4, <3>0, <4>1, <4>2 DEF StopKills
    <3>4. u \notin misled' => Seen(u)'
      BY <1>0, <3>1, <3>2, <3>3 DEF Job
    <3>5. ASSUME NEW v \in Terminals \ {u}, v \notin misled' PROVE Seen(v)'
      <4>1. Seen(v) /\ job'[v] = job[v]
        BY <1>0, <3>1, <3>3, <3>5
      <4>2. job[v].at \in Decided => job[v].pid \in Pids
        BY <1>0
      <4> QED
        BY <3>2, <4>1, <4>2
    <3> QED
      BY <1>s, <3>4, <3>5
  <2> QED
    BY <1>5, <2>1, <2>2, <2>3, <2>4 DEF Stopping
<1>6. ASSUME NEW u \in Terminals, Interrupt(u) PROVE ProcessAsSeen'
  <2>1. \A p \in Pids : /\ proc'[p].kind = "stranger" => proc[p].kind = "stranger"
                        /\ proc'[p].kind = "worker" => proc[p].kind = "worker"
    <3>1. \A p \in Pids : [proc[p] EXCEPT !.parent = FALSE].kind = proc[p].kind
      <4>1. \A q \in Processes : [q EXCEPT !.parent = FALSE].kind = q.kind
        BY DEF Processes
      <4> QED
        BY <1>0, <4>1
    <3> QED
      BY <1>6, <3>1 DEF Interrupt, Free
  <2>2. job' = [job EXCEPT ![u] = Idle] /\ misled' = misled \ {u}
    BY <1>6 DEF Interrupt, End
  <2>3. ASSUME NEW v \in Terminals, v \notin misled' PROVE Seen(v)'
    <3>1. CASE v = u
      <4>1. job'[v].at = "idle"
        BY <1>0, <2>2, <3>1 DEF Idle, Job
      <4> QED
        BY <4>1
    <3>2. CASE v # u
      <4>1. job'[v] = job[v] /\ Seen(v)
        BY <1>0, <2>2, <2>3, <3>2
      <4>2. job[v].at \in Places => job[v].pid \in Pids
        BY <1>0
      <4> QED
        BY <2>1, <4>1, <4>2
    <3> QED
      BY <3>1, <3>2
  <2> QED
    BY <1>s, <2>3
<1>7. ASSUME NEW p \in Pids, Exits(p) PROVE ProcessAsSeen'
  BY <1>0, <1>7, <1>s DEF Exits, Gone, Zombie, Free
<1>8. ASSUME NEW p \in Pids, Reuse(p) PROVE ProcessAsSeen'
  <2>1. ASSUME NEW v \in Terminals, v \notin misled' PROVE Seen(v)'
    <3>1. job'[v] = job[v] /\ v \notin misled /\ v \notin Targeting(p)
      BY <1>0, <1>8, <2>1 DEF Reuse
    <3>2. \A q \in Pids : q # p => proc'[q] = proc[q]
      BY <1>0, <1>8 DEF Reuse
    <3>3. job[v].at \in Decided => job[v].pid \in Pids /\ job[v].pid # p
      BY <1>0, <3>1
    <3>4. Seen(v)
      BY <1>0, <3>1
    <3> QED
      BY <3>1, <3>2, <3>3, <3>4
  <2> QED
    BY <1>s, <2>1
<1>9. CASE UNCHANGED workersVars
  BY <1>0, <1>9, <1>s DEF workersVars
<1> QED
  BY <1>1, <1>2, <1>4, <1>5, <1>6, <1>7, <1>8, <1>9 DEF WorkersNext, Spawning
\* Every step keeps what a command has read in its file.
LEMMA WorkersReadFiles ==
  WorkersTypeOK /\ FileAsRead /\ [WorkersNext]_workersVars => FileAsRead'
<1> SUFFICES ASSUME WorkersTypeOK, FileAsRead, [WorkersNext]_workersVars
             PROVE  FileAsRead'
  OBVIOUS
<1> DEFINE Later == Decided \cup {"probe", "verify"}
           Kept(v) == job[v].at \in Later => pidFile[job[v].id] \in {job[v].pid, NoFile}
<1>0. /\ \A v \in Terminals : /\ v \notin newer => Kept(v)
                              /\ job[v].at \in Later => job[v].id \in WorkerIds
      /\ job \in [Terminals -> Jobs] /\ DOMAIN pidFile = WorkerIds
      /\ \A v \in Terminals, id \in WorkerIds :
           v \in Reading(id) <=> job[v].at \in Later /\ job[v].id = id
  BY JobShapes DEF WorkersTypeOK, FileAsRead, Reading, Places, Decided
<1>s. ASSUME \A v \in Terminals : v \notin newer' => Kept(v)'
      PROVE  FileAsRead'
  BY <1>s DEF FileAsRead
\* A step of u that leaves the files alone, keeps what the command holds or ends it.
<1>k. ASSUME NEW u \in Terminals, pidFile' = pidFile, newer' = newer,
             NEW j, job' = [job EXCEPT ![u] = j],
             \/ j.at \notin Later
             \/ job[u].at \in Later /\ j.id = job[u].id /\ j.pid = job[u].pid
      PROVE  FileAsRead'
  BY <1>0, <1>k, <1>s
\* A step of u that reads the file of id.
<1>r. ASSUME NEW u \in Terminals, pidFile' = pidFile, newer' = newer \ {u},
             NEW j, job' = [job EXCEPT ![u] = j],
             j.at \in Later => j.pid = pidFile[j.id]
      PROVE  FileAsRead'
  BY <1>0, <1>r, <1>s
\* A step of u that writes the file of id.
<1>w. ASSUME NEW u \in Terminals, NEW id \in WorkerIds, NEW x,
             pidFile' = [pidFile EXCEPT ![id] = x], newer' = newer \cup Reading(id),
             NEW j, job' = [job EXCEPT ![u] = j], j.at \notin Later
      PROVE  FileAsRead'
  <2>1. Kept(u)'
    BY <1>0, <1>w
  <2>2. ASSUME NEW v \in Terminals \ {u}, v \notin newer' PROVE Kept(v)'
    <3>1. job'[v] = job[v] /\ v \notin newer /\ v \notin Reading(id)
      BY <1>0, <1>w, <2>2
    <3>2. job[v].at \in Later => pidFile'[job[v].id] = pidFile[job[v].id]
      BY <1>0, <1>w, <3>1
    <3> QED
      BY <1>0, <3>1, <3>2
  <2> QED
    BY <1>s, <2>1, <2>2
<1>1. ASSUME NEW u \in Terminals, NEW id \in WorkerIds, NEW p \in Pids,
             SpawnStarts(u, id, p)
      PROVE  FileAsRead'
  <2>1. Job("open", id, p, {}).at = "open"
    BY DEF Job
  <2> QED
    BY <1>1, <1>k, <2>1 DEF SpawnStarts, Decided
<1>2. ASSUME NEW u \in Terminals, PidFileOpens(u) PROVE FileAsRead'
  <2>1. job' = [job EXCEPT ![u] = Job("fill", job[u].id, job[u].pid, job[u].todo)]
    BY <1>0, <1>2, StepKeeps DEF PidFileOpens
  <2>2. Job("fill", job[u].id, job[u].pid, job[u].todo).at = "fill" /\ job[u].id \in WorkerIds
    BY <1>2, JobShapes DEF Job, PidFileOpens, At, Places, WorkersTypeOK
  <2> QED
    BY <1>2, <1>w, <2>1, <2>2 DEF PidFileOpens, Decided
<1>3. Idle.at = "idle" /\ \A rest : Between(rest).at = "list"
  BY DEF Idle, Between, Job
<1>4. ASSUME NEW u \in Terminals, PidFileFails(u) \/ ListEnds(u) \/ ListBegins(u)
      PROVE  FileAsRead'
  BY <1>3, <1>4, <1>k DEF PidFileFails, ListEnds, ListBegins, End, Decided
<1>5. ASSUME NEW u \in Terminals, PidFileFills(u) PROVE FileAsRead'
  <2>1. job[u].id \in WorkerIds
    BY <1>5, JobShapes DEF PidFileFills, At, Places, WorkersTypeOK
  <2>2. CASE At(u, "fill")
    BY <1>3, <1>5, <1>w, <2>1, <2>2 DEF PidFileFills, End, Decided
  <2>3. CASE ~At(u, "fill")
    <3>1. pidFile' = [pidFile EXCEPT ![job[u].id] = pidFile[job[u].id]]
      BY <1>5, <2>1, <2>3 DEF PidFileFills, WorkersTypeOK
    <3> QED
      BY <1>3, <1>5, <1>w, <2>1, <3>1 DEF PidFileFills, End, Decided
  <2> QED
    BY <2>2, <2>3
<1>6. ASSUME NEW u \in Terminals, NEW id \in WorkerIds, NEW next, next.at \notin Later,
             RemovePidFile(u, id, next)
      PROVE  FileAsRead'
  <2>1. Kept(u)'
    BY <1>0, <1>6 DEF RemovePidFile
  <2>2. ASSUME NEW v \in Terminals \ {u}, v \notin newer' PROVE Kept(v)'
    <3>1. CASE At(v, "fill") /\ job[v].id = id
      <4>1. job'[v] = [job[v] EXCEPT !.at = "lost fill"]
        BY <1>6, <2>2, <3>1 DEF RemovePidFile
      <4>2. job[v] = Job("fill", job[v].id, job[v].pid, job[v].todo)
        BY <1>0, <3>1, JobShapes DEF At, WorkersTypeOK
      <4>3. job'[v].at = "lost fill"
        BY <4>1, <4>2 DEF Job
      <4> QED
        BY <4>3 DEF Decided
    <3>2. CASE ~(At(v, "fill") /\ job[v].id = id)
      <4>1. job'[v] = job[v] /\ v \notin newer
        BY <1>6, <2>2, <3>2 DEF RemovePidFile
      <4>2. job[v].at \in Later => pidFile'[job[v].id] \in {pidFile[job[v].id], NoFile}
        BY <1>0, <1>6 DEF RemovePidFile
      <4> QED
        BY <1>0, <4>1, <4>2
    <3> QED
      BY <3>1, <3>2
  <2> QED
    BY <1>s, <2>1, <2>2
<1>7. ASSUME NEW u \in Terminals, NEW id \in WorkerIds, ListReads(u, id)
      PROVE  FileAsRead'
  <2> DEFINE rest == job[u].todo \ {id}
  <2>1. PICK j \in {Between(rest), Job("probe", id, pidFile[id], rest)} :
          job' = [job EXCEPT ![u] = j] /\ pidFile' = pidFile /\ newer' = newer \ {u}
    BY <1>7 DEF ListReads
  <2>2. j.at \in Later => j.pid = pidFile[j.id]
    BY <1>3, <2>1 DEF Job, Decided
  <2> HIDE DEF Later
  <2> QED
    BY <1>r, <2>1, <2>2
<1>8. ASSUME NEW u \in Terminals, NEW id \in WorkerIds, StopReads(u, id)
      PROVE  FileAsRead'
  <2>1. Job("verify", id, pidFile[id], {}).pid = pidFile[id]
        /\ Job("verify", id, pidFile[id], {}).id = id
    BY DEF Job
  <2> QED
    BY <1>8, <1>r, <2>1 DEF StopReads
\* Steps that go on with what the command holds.
<1>9. ASSUME NEW u \in Terminals, NEW place, Step(u, place), job[u].at \in Later,
             pidFile' = pidFile, newer' = newer
      PROVE  FileAsRead'
  <2> DEFINE j == Job(place, job[u].id, job[u].pid, job[u].todo)
  <2>1. job' = [job EXCEPT ![u] = j]
    BY <1>0, <1>9, StepKeeps
  <2>2. j.id = job[u].id /\ j.pid = job[u].pid
    BY DEF Job
  <2> HIDE DEF j, Later
  <2> QED
    BY <1>9, <1>k, <2>1, <2>2
<1>10. ASSUME NEW u \in Terminals, ListProbes(u) PROVE FileAsRead'
  <2>1. CASE Step(u, "clean")
    BY <1>9, <1>10, <2>1 DEF ListProbes, At
  <2>2. CASE job' = [job EXCEPT ![u] = Between(@.todo)]
    <3>1. job' = [job EXCEPT ![u] = Between(job[u].todo)]
      BY <2>2
    <3> QED
      BY <1>3, <1>10, <1>k, <3>1 DEF ListProbes, Decided
  <2> QED
    BY <1>10, <2>1, <2>2 DEF ListProbes
<1>11. ASSUME NEW u \in Terminals, StopVerifies(u) \/ StopKills(u) PROVE FileAsRead'
  BY <1>9, <1>11 DEF StopVerifies, StopKills, At, Decided
<1>12. ASSUME NEW u \in Terminals, ListCleans(u) \/ StopDrops(u) \/ StopRemoves(u)
       PROVE  FileAsRead'
  <2>1. job[u].id \in WorkerIds
    BY <1>0, <1>12 DEF ListCleans, StopDrops, StopRemoves, At, Decided
  <2> QED
    BY <1>3, <1>6, <1>12, <2>1 DEF ListCleans, StopDrops, StopRemoves, Decided
<1>13. ASSUME NEW u \in Terminals, Interrupt(u) PROVE FileAsRead'
  <2>1. /\ pidFile' = pidFile /\ newer' = newer \ {u}
        /\ job' = [job EXCEPT ![u] = Idle]
    BY <1>13 DEF Interrupt, End
  <2> QED
    BY <1>3, <1>r, <2>1 DEF Decided
<1>14. CASE (\E p \in Pids : Exits(p) \/ Reuse(p)) \/ UNCHANGED workersVars
  <2>1. UNCHANGED <<pidFile, job, newer>>
    BY <1>14 DEF Exits, Reuse, workersVars
  <2> QED
    BY <1>0, <1>s, <2>1
<1> QED
  BY <1>1, <1>2, <1>4, <1>5, <1>7, <1>8, <1>10, <1>11, <1>12, <1>13, <1>14
     DEF WorkersNext, Spawning, Listing, Stopping

\* The invariant holds in every behaviour of the workers' module.
LEMMA WorkersInvariant == WorkersSpec => []WorkersInv
<1>1. WorkersInit => WorkersInv
  <2> SUFFICES ASSUME WorkersInit PROVE WorkersInv
    OBVIOUS
  <2> USE DEF WorkersInit
  <2>1. ProcessAsSeen /\ FileAsRead
    BY DEF ProcessAsSeen, FileAsRead, At, Idle, Job, Decided
  <2>2. Free \in Processes /\ Free.kind = "free"
    BY DEF Free, Processes
  <2>3. WorkersTypeOK
    <3>1. spawned \in 0..MaxSpawns /\ strangers \in 0..MaxStrangers
      <4>1. MaxSpawns \in Nat /\ MaxStrangers \in Nat
        BY WorkersAssumption, Zenon
      <4> QED
        BY <4>1, CountsUp
    <3>2. proc \in [Pids -> Processes] /\ \A p \in Pids : proc[p].kind # "zombie"
      BY <2>2
    <3>3. pidFile \in [WorkerIds -> Pids \cup {NoFile, Blank}]
      OBVIOUS
    <3>4. job \in [Terminals -> Jobs] /\ newer \subseteq Terminals /\ misled \subseteq Terminals
      BY NewJobs
    <3> QED
      BY <3>1, <3>2, <3>3, <3>4 DEF WorkersTypeOK
  <2> QED
    BY <2>1, <2>3 DEF WorkersInv
<1>2. WorkersInv /\ [WorkersNext]_workersVars => WorkersInv'
  BY WorkersTyped, WorkersSeeProcesses, WorkersReadFiles DEF WorkersInv
<1> QED
  BY <1>1, <1>2, PTL DEF WorkersSpec

\* What ps has answered for decides whether `spawn stop` kills, and what it has killed is
\* a worker no more, for any number of terminals, tasks, PIDs and spawns: ps is asked
\* after the file is read, and whoever ps, a signal or a reused PID misled is left out.
THEOREM StopAsksPs == WorkersSpec => []StopHitsTheWorker
<1>1. WorkersInv => StopHitsTheWorker
  BY DEF WorkersInv, ProcessAsSeen, StopHitsTheWorker, At
<1> QED
  BY <1>1, WorkersInvariant, PTL

\* Removing a PID file leaves no living worker without its file and no spawn without the
\* file it is writing, with the exceptions the property names.
THEOREM FilesOfTheLiveStay == WorkersSpec => RemovalsSpareTheLive
<1>1. ASSUME WorkersInv, NEW u \in Terminals, NEW id \in WorkerIds,
             job[u].at \in {"clean", "drop", "remove"}, job[u].id = id,
             pidFile[id] # NoFile, u \notin newer \cup misled
      PROVE  \A p \in Pids : /\ ~(IsLive(p) /\ proc[p].id = id /\ pidFile[id] = p)
                             /\ pidFile[id] # Blank
  <2>1. pidFile[id] = job[u].pid /\ ~IsLive(job[u].pid)
    BY <1>1 DEF WorkersInv, FileAsRead, ProcessAsSeen, Decided
  <2>2. job[u].pid \in Pids
    BY <1>1, JobShapes DEF WorkersInv, WorkersTypeOK, Places
  <2>3. Blank \notin Pids
    BY WorkersAssumption DEF Blank
  <2> QED
    BY <2>1, <2>2, <2>3
<1>2. WorkersInv => (\A u \in Terminals, id \in WorkerIds :
        /\ job[u].at \in {"clean", "drop", "remove"} /\ job[u].id = id
        /\ pidFile'[id] = NoFile /\ pidFile[id] # NoFile
        /\ job'[u].at # job[u].at /\ u \notin newer \cup misled
        => \A p \in Pids : /\ ~(IsLive(p) /\ proc[p].id = id /\ pidFile[id] = p)
                           /\ pidFile[id] # Blank)
  BY <1>1
<1> QED
  BY <1>2, WorkersInvariant, PTL DEF RemovalsSpareTheLive
----------------------------------------------------------------------------
(* ServerLife. Once a server is started and nothing interferes, every      *)
(* command that handles the PID file handles it for that server.           *)

\* What holds of a server that runs and that no second command has interfered with.
Undisturbed(s) ==
  /\ \A l \in Launchers : parent[l] \in {s, Nobody}
  /\ \/ \E l \in Launchers : parent[l] = s
     \/ upid = s
     \/ s \in sigterm /\ upid = Nobody
  /\ \A u \in Stoppers : stop[u].at # "idle" =>
       stop[u].pid = s /\ \A l \in Launchers : parent[l] # s
  /\ \A u \in Stoppers : stop[u].at = "remove" => s \in sigterm

ServerInv ==
  ServerTypeOK /\ \A s \in Servers : Live(s) /\ s \notin clashed => Undisturbed(s)

\* Every step keeps the types.
LEMMA ServerTyped == ServerTypeOK /\ [ServerNext]_serverVars => ServerTypeOK'
<1> SUFFICES ASSUME ServerTypeOK, [ServerNext]_serverVars PROVE ServerTypeOK'
  OBVIOUS
<1> USE DEF ServerTypeOK, Running
<1>d. ASSUME NEW s \in Servers, Dies(s)
      PROVE  /\ phase' \in [Servers -> {"unborn", "dead", "recycled"} \cup Running]
             /\ owner' \in [Ports -> Servers \cup {Nobody, Foreign}]
             /\ sigterm' \subseteq Servers
  BY <1>d DEF Dies
<1>1. ASSUME NEW l \in Launchers, NEW s \in Servers, Launch(l, s) PROVE ServerTypeOK'
  BY <1>1 DEF Launch
<1>2. ASSUME NEW l \in Launchers, WritePid(l) PROVE ServerTypeOK'
  BY <1>2 DEF WritePid
<1>3. ASSUME NEW s \in Servers, StartInForeground(s) PROVE ServerTypeOK'
  BY <1>3 DEF StartInForeground
<1>4. ASSUME NEW s \in Servers, NEW p \in Ports, Probe(s, p) PROVE ServerTypeOK'
  BY <1>4, <1>d DEF Probe
<1>5. ASSUME NEW s \in Servers, NEW p \in Ports, Unprobe(s, p) PROVE ServerTypeOK'
  BY <1>5 DEF Unprobe
<1>6. ASSUME NEW s \in Servers, NEW p \in Ports, Listen(s, p) PROVE ServerTypeOK'
  BY <1>6, <1>d DEF Listen
<1>7. ASSUME NEW s \in Servers, LoadFails(s) PROVE ServerTypeOK'
  BY <1>7, <1>d DEF LoadFails
<1>8. ASSUME NEW s \in Servers, SetUp(s) PROVE ServerTypeOK'
  BY <1>8, <1>d DEF SetUp
<1>9. ASSUME NEW s \in Servers, Terminated(s) \/ Recycled(s) PROVE ServerTypeOK'
  BY <1>9, <1>d DEF Terminated, Recycled
<1>10. ASSUME NEW u \in Stoppers, StopReadsPid(u) PROVE ServerTypeOK'
  BY <1>10 DEF StopReadsPid
<1>11. ASSUME NEW u \in Stoppers, StopSignals(u) \/ StopRemovesPid(u) PROVE ServerTypeOK'
  BY <1>11 DEF StopSignals, StopRemovesPid
<1>12. ASSUME NEW p \in Ports, ForeignBinds(p) PROVE ServerTypeOK'
  BY <1>12 DEF ForeignBinds
<1>13. CASE UNCHANGED serverVars
  BY <1>13 DEF serverVars
<1> QED
  BY <1>1, <1>2, <1>3, <1>4, <1>5, <1>6, <1>7, <1>8, <1>9, <1>10, <1>11, <1>12, <1>13
     DEF ServerNext, Runs

\* Every step keeps what holds of an undisturbed server, and a start alone begins it.
LEMMA ServerStays == ServerInv /\ [ServerNext]_serverVars => ServerInv'
<1> SUFFICES ASSUME ServerInv, [ServerNext]_serverVars,
                    NEW s \in Servers, Live(s)', s \notin clashed'
             PROVE  Undisturbed(s)'
  BY ServerTyped DEF ServerInv
<1>t. ServerTypeOK
  BY DEF ServerInv
<1>n. Nobody \notin Servers
  BY ServerAssumption
<1>u. ASSUME Live(s), s \notin clashed PROVE Undisturbed(s)
  BY <1>u DEF ServerInv
<1> USE <1>n DEF Live, Running
\* A step that leaves the file and its commands alone and kills another server at most.
<1>f. ASSUME UNCHANGED <<parent, upid, stop, clashed>>, Live(s),
             s \in sigterm <=> s \in sigterm'
      PROVE  Undisturbed(s)'
  BY <1>f, <1>u DEF Undisturbed
<1>d. ASSUME NEW r \in Servers, Dies(r)
      PROVE  phase[s] = phase'[s] /\ (s \in sigterm <=> s \in sigterm')
  BY <1>d, <1>t DEF Dies, ServerTypeOK
<1>1. ASSUME NEW l \in Launchers, NEW r \in Servers, Launch(l, r) PROVE Undisturbed(s)'
  <2>1. r = s
    BY <1>1, <1>t DEF Launch, ServerTypeOK
  <2>2. /\ \A u \in Stoppers : stop[u].at = "idle"
        /\ \A k \in Launchers : parent[k] = Nobody
    BY <1>1, <2>1 DEF Launch, StopsUnderWay
  <2>3. parent' = [parent EXCEPT ![l] = s] /\ UNCHANGED <<upid, stop, sigterm>>
    BY <1>1, <2>1 DEF Launch
  <2> QED
    BY <1>t, <2>2, <2>3 DEF Undisturbed, ServerTypeOK
<1>2. ASSUME NEW l \in Launchers, WritePid(l) PROVE Undisturbed(s)'
  <2>1. Undisturbed(s) /\ parent[l] = s
    BY <1>2, <1>u DEF WritePid, Undisturbed
  <2>2. upid' = s /\ parent' = [parent EXCEPT ![l] = Nobody] /\ UNCHANGED <<stop, sigterm>>
    BY <1>2, <2>1 DEF WritePid
  <2> QED
    BY <1>t, <2>1, <2>2 DEF Undisturbed, ServerTypeOK
<1>3. ASSUME NEW r \in Servers, StartInForeground(r) PROVE Undisturbed(s)'
  <2>1. r # s
    BY <1>3 DEF StartInForeground
  <2>2. Live(s) /\ s \notin clashed /\ UNCHANGED <<parent, upid, stop, sigterm>>
    BY <1>3, <1>t, <2>1 DEF StartInForeground, ServerTypeOK
  <2> QED
    BY <1>u, <2>2 DEF Undisturbed
<1>4. ASSUME NEW r \in Servers, Runs(r) PROVE Undisturbed(s)'
  <2>1. UNCHANGED <<parent, upid, stop, clashed>>
    BY <1>4 DEF Runs, Probe, Unprobe, Listen, LoadFails, SetUp
  <2>2. Live(s) /\ (s \in sigterm <=> s \in sigterm')
    <3>1. CASE Dies(r)
      BY <1>d, <3>1
    <3>2. CASE ~Dies(r)
      BY <1>4, <1>t, <3>2
         DEF Runs, Probe, Unprobe, Listen, LoadFails, SetUp, ServerTypeOK
    <3> QED
      BY <3>1, <3>2
  <2> QED
    BY <1>f, <2>1, <2>2
<1>5. ASSUME NEW r \in Servers, Terminated(r) \/ Recycled(r) PROVE Undisturbed(s)'
  BY <1>5, <1>d, <1>f, <1>t DEF Terminated, Recycled, ServerTypeOK
<1>6. ASSUME NEW u \in Stoppers, StopReadsPid(u) PROVE Undisturbed(s)'
  <2>1. Undisturbed(s) /\ \A l \in Launchers : parent[l] # s
    BY <1>6, <1>u DEF StopReadsPid
  <2>2. upid = s
    BY <1>6, <2>1 DEF StopReadsPid, Undisturbed
  <2>3. /\ stop' = [stop EXCEPT ![u] = [at |-> "signal", pid |-> s]]
        /\ UNCHANGED <<parent, upid, sigterm>>
    BY <1>6, <2>2 DEF StopReadsPid
  <2> QED
    BY <1>t, <2>1, <2>2, <2>3 DEF Undisturbed, ServerTypeOK
<1>7. ASSUME NEW u \in Stoppers, StopSignals(u) PROVE Undisturbed(s)'
  <2>1. Undisturbed(s) /\ stop[u].pid = s
    BY <1>7, <1>u DEF StopSignals, Undisturbed
  <2>2. phase[s] \in Running \cup {"recycled"}
    BY <1>7 DEF StopSignals
  <2>3. /\ sigterm' = sigterm \cup {s} /\ UNCHANGED <<parent, upid>>
        /\ stop' = [stop EXCEPT ![u].at = "remove"]
    BY <1>7, <2>1, <2>2 DEF StopSignals
  <2>4. \A v \in Stoppers : stop'[v].pid = stop[v].pid
                            /\ (v # u => stop'[v] = stop[v]) /\ stop'[u].at = "remove"
    BY <1>t, <2>3 DEF ServerTypeOK
  <2>5. stop[u].at = "signal"
    BY <1>7 DEF StopSignals
  <2> QED
    BY <2>1, <2>3, <2>4, <2>5 DEF Undisturbed
<1>8. ASSUME NEW u \in Stoppers, StopRemovesPid(u) PROVE Undisturbed(s)'
  <2>1. Undisturbed(s) /\ s \in sigterm
    BY <1>8, <1>u DEF StopRemovesPid, Undisturbed
  <2>2. /\ upid' = Nobody /\ UNCHANGED <<parent, sigterm>>
        /\ stop' = [stop EXCEPT ![u] = [at |-> "idle", pid |-> Nobody]]
    BY <1>8 DEF StopRemovesPid
  <2> QED
    BY <1>t, <2>1, <2>2 DEF Undisturbed, ServerTypeOK
<1>9. ASSUME NEW p \in Ports, ForeignBinds(p) PROVE Undisturbed(s)'
  BY <1>9, <1>f DEF ForeignBinds
<1>10. CASE UNCHANGED serverVars
  BY <1>10, <1>f DEF serverVars
<1> QED
  BY <1>1, <1>2, <1>3, <1>4, <1>5, <1>6, <1>7, <1>8, <1>9, <1>10 DEF ServerNext

\* A server that listens can be stopped, for any number of servers, launchers and stops:
\* nobody but another start, a stop during its own start, or a failed write takes its
\* PID out of the file.
THEOREM ServersCanBeStopped == ServerSpec => []StopCanReach
<1>1. ServerInit => ServerInv
  <2> SUFFICES ASSUME ServerInit PROVE ServerInv
    OBVIOUS
  <2>1. \A s \in Servers : ~Live(s)
    BY DEF ServerInit, Live, Running
  <2>2. ServerTypeOK
    BY DEF ServerInit, ServerTypeOK
  <2> QED
    BY <2>1, <2>2 DEF ServerInv
<1>2. ServerInv /\ [ServerNext]_serverVars => ServerInv'
  BY ServerStays
<1>3. ServerInv => StopCanReach
  BY DEF ServerInv, StopCanReach, Undisturbed, Live, Running
<1> QED
  BY <1>1, <1>2, <1>3, PTL DEF ServerSpec
----------------------------------------------------------------------------
(* VPNGateway. The rules of a connected container are as it was told, and  *)
(* the container a start has made itself was told what that start asked.   *)

VPNInv ==
  /\ VPNTypeOK
  /\ \A u \in Users : vpnCmd[u].at # "idle" => ended[u] = "never"
  /\ Exists /\ gateway.stage = "connected" => gateway.deny = gateway.ks
  /\ \A u \in Users :
       vpnCmd[u].at = "wait" /\ vpnCmd[u].made /\ Exists /\ gateway.maker = u
         => gateway.ks = vpnCmd[u].ks
  /\ \A u \in Users : vpnCmd[u].made => vpnCmd[u].at = "wait"

\* Containers and commands, as the actions make them.
LEMMA NewGateways ==
  ASSUME VPNTypeOK, NEW u \in Users
  PROVE  /\ vpnCmd[u].ks \in BOOLEAN
         /\ \A up \in BOOLEAN : New(u, up) \in Gateways
         /\ Resting \in [at : {"idle", "image", "ps", "rm", "run", "wait"},
                         ks : BOOLEAN, made : BOOLEAN, polls : 0..MaxPolls]
         /\ \A g \in Gateways : g # NoGateway
<1>1. WaitTail \in Nat /\ MaxPolls \in Nat
  BY VPNAssumption
<1>2. 0 \in 0..WaitTail /\ 0 \in 0..MaxPolls
  BY <1>1
<1>3. vpnCmd[u].ks \in BOOLEAN
  BY DEF VPNTypeOK
<1>4. \A up \in BOOLEAN : New(u, up) \in Gateways
  BY <1>2, <1>3 DEF New, Gateways
<1>5. \A g \in Gateways : g.maker # "nobody"
  BY VPNAssumption DEF Gateways
<1>6. \A g \in Gateways : g # NoGateway
  BY <1>5 DEF NoGateway
<1> QED
  BY <1>2, <1>3, <1>4, <1>6 DEF Resting

\* Every step of a command keeps the types.
LEMMA VPNTyped == VPNTypeOK /\ [VPNNext]_vpnVars => VPNTypeOK'
<1> SUFFICES ASSUME VPNTypeOK, [VPNNext]_vpnVars PROVE VPNTypeOK'
  OBVIOUS
<1> DEFINE Commands == [at : {"idle", "image", "ps", "rm", "run", "wait"},
                        ks : BOOLEAN, made : BOOLEAN, polls : 0..MaxPolls]
<1>1. /\ gateway \in Gateways \cup {NoGateway}
      /\ vpnCmd \in [Users -> Commands]
      /\ ended \in [Users -> {"never", "ok", "error", "stopped"}]
  BY DEF VPNTypeOK
<1>2. ASSUME /\ gateway' \in Gateways \cup {NoGateway}
             /\ vpnCmd' \in [Users -> Commands]
             /\ ended' \in [Users -> {"never", "ok", "error", "stopped"}]
      PROVE  VPNTypeOK'
  BY <1>2 DEF VPNTypeOK
<1>3. MaxPolls \in 0..MaxPolls /\ \A n \in 0..MaxPolls : n > 0 => n - 1 \in 0..MaxPolls
  BY VPNAssumption
<1>4. ASSUME NEW u \in Users, NEW how \in {"ok", "error"}, Ends(u, how)
      PROVE  /\ vpnCmd' \in [Users -> Commands]
             /\ ended' \in [Users -> {"never", "ok", "error", "stopped"}]
  BY <1>1, <1>4, NewGateways DEF Ends
<1>5. ASSUME NEW u \in Users, NEW place \in {"image", "ps", "rm", "run", "wait"}, Goes(u, place)
      PROVE  vpnCmd' \in [Users -> Commands]
  BY <1>1, <1>5 DEF Goes
<1>6. ASSUME NEW u \in Users, NEW ks \in BOOLEAN, BeginStart(u, ks) PROVE VPNTypeOK'
  <2>1. [Resting EXCEPT !.at = "image", !.ks = ks] \in Commands
    BY NewGateways
  <2> QED
    BY <1>1, <1>2, <1>6, <2>1 DEF BeginStart
<1>7. ASSUME NEW u \in Users, EnsureImage(u) PROVE VPNTypeOK'
  BY <1>1, <1>2, <1>4, <1>5, <1>7 DEF EnsureImage
<1>8. ASSUME NEW u \in Users, LookForRunning(u) PROVE VPNTypeOK'
  BY <1>1, <1>2, <1>3, <1>5, <1>8 DEF LookForRunning
<1>9. ASSUME NEW u \in Users, RemoveStale(u) PROVE VPNTypeOK'
  BY <1>1, <1>2, <1>5, <1>9 DEF RemoveStale
<1>10. ASSUME NEW u \in Users, RunGateway(u) PROVE VPNTypeOK'
  <2>0. gateway' = gateway \/ \E up \in BOOLEAN : gateway' = New(u, up)
    BY <1>10 DEF RunGateway
  <2>1. gateway' \in Gateways \cup {NoGateway}
    BY <1>1, <2>0, NewGateways
  <2>2. ASSUME vpnCmd' = [vpnCmd EXCEPT ![u].at = "wait", ![u].made = TRUE,
                                        ![u].polls = MaxPolls]
        PROVE  vpnCmd' \in [Users -> Commands]
    <3>1. \A c \in Commands :
            [c EXCEPT !.at = "wait", !.made = TRUE, !.polls = MaxPolls] \in Commands
      BY <1>3
    <3> DEFINE waits == [vpnCmd[u] EXCEPT !.at = "wait", !.made = TRUE, !.polls = MaxPolls]
    <3>2. vpnCmd' = [vpnCmd EXCEPT ![u] = waits]
      BY <2>2
    <3>3. waits \in Commands
      BY <1>1, <3>1
    <3> HIDE DEF Commands, waits
    <3> QED
      BY <1>1, <3>2, <3>3
  <2>3. UNCHANGED ended \/ Ends(u, "error")
    BY <1>10 DEF RunGateway
  <2>4. ended' \in [Users -> {"never", "ok", "error", "stopped"}]
    BY <1>1, <1>4, <2>3
  <2>5. vpnCmd' \in [Users -> Commands]
    BY <1>4, <1>10, <2>2 DEF RunGateway
  <2> HIDE DEF Commands
  <2> QED
    BY <1>2, <2>1, <2>4, <2>5
<1>11. ASSUME NEW u \in Users, Poll(u) PROVE VPNTypeOK'
  BY <1>1, <1>2, <1>3, <1>4, <1>11 DEF Poll
<1>12. ASSUME NEW u \in Users, TimeOut(u) \/ StopGateway(u) PROVE VPNTypeOK'
  BY <1>1, <1>2, <1>4, <1>12 DEF TimeOut, StopGateway
<1>13. ASSUME WgQuickUp \/ Shield \/ Monitor \/ TunnelDrops \/ GatewayEnds PROVE VPNTypeOK'
  <2>1. gateway \in Gateways
    BY <1>1, <1>13 DEF WgQuickUp, Shield, Monitor, TunnelDrops, GatewayEnds, Up, Exists
  <2>2. \A n \in 0..WaitTail : (IF n < WaitTail THEN n + 1 ELSE n) \in 0..WaitTail
    BY VPNAssumption
  <2>3. gateway' \in Gateways
    <3>1. CASE WgQuickUp
      BY <2>1, <3>1 DEF WgQuickUp, Gateways
    <3>2. CASE Shield
      BY <2>1, <3>2 DEF Shield, Gateways
    <3>3. CASE Monitor
      BY <2>1, <2>2, <3>3 DEF Monitor, Gateways
    <3>4. CASE TunnelDrops \/ GatewayEnds
      BY <2>1, <3>4 DEF TunnelDrops, GatewayEnds, Gateways
    <3> QED
      BY <1>13, <3>1, <3>2, <3>3, <3>4
  <2> QED
    BY <1>1, <1>2, <1>13, <2>3 DEF WgQuickUp, Shield, Monitor, TunnelDrops, GatewayEnds
<1>14. CASE UNCHANGED vpnVars
  BY <1>1, <1>2, <1>14 DEF vpnVars
<1> QED
  BY <1>6, <1>7, <1>8, <1>9, <1>10, <1>11, <1>12, <1>13, <1>14 DEF VPNNext, Starting

\* Every step keeps what a start relies on.
LEMMA VPNStays == VPNInv /\ [VPNNext]_vpnVars => VPNInv'
<1> SUFFICES ASSUME VPNInv, [VPNNext]_vpnVars PROVE VPNInv'
  OBVIOUS
<1> DEFINE Fresh(u) == vpnCmd[u].at # "idle" => ended[u] = "never"
           AsTold == Exists /\ gateway.stage = "connected" => gateway.deny = gateway.ks
           Own(u) == vpnCmd[u].at = "wait" /\ vpnCmd[u].made /\ Exists /\ gateway.maker = u
                       => gateway.ks = vpnCmd[u].ks
           Waits(u) == vpnCmd[u].made => vpnCmd[u].at = "wait"
<1>0. /\ gateway \in Gateways \cup {NoGateway}
      /\ vpnCmd \in [Users -> [at : {"idle", "image", "ps", "rm", "run", "wait"},
                               ks : BOOLEAN, made : BOOLEAN, polls : 0..MaxPolls]]
      /\ DOMAIN ended = Users
      /\ AsTold /\ \A u \in Users : Fresh(u) /\ Own(u) /\ Waits(u)
  BY DEF VPNInv, VPNTypeOK
<1>i. ASSUME AsTold', \A u \in Users : Fresh(u)' /\ Own(u)' /\ Waits(u)' PROVE VPNInv'
  BY <1>i, VPNTyped DEF VPNInv
<1>r. Resting.at = "idle" /\ ~Resting.made
  BY DEF Resting
\* A command changes its own record and its own ending alone.
<1>c. ASSUME NEW u \in Users, NEW c, vpnCmd' = [vpnCmd EXCEPT ![u] = c]
      PROVE  vpnCmd'[u] = c /\ \A v \in Users : v # u => vpnCmd'[v] = vpnCmd[v]
  BY <1>0, <1>c
\* A start ends, and the container keeps what it was told or is none of another start.
<1>e. ASSUME NEW u \in Users, NEW how \in {"ok", "error"}, Ends(u, how),
             gateway' = gateway \/ (~Exists /\ gateway' = New(u, FALSE))
      PROVE  VPNInv'
  <2>1. /\ vpnCmd'[u].at = "idle" /\ ~vpnCmd'[u].made
        /\ \A v \in Users : v # u => vpnCmd'[v] = vpnCmd[v] /\ ended'[v] = ended[v]
    BY <1>0, <1>e, <1>r DEF Ends
  <2>2. \A v \in Users : Fresh(v)' /\ Waits(v)'
    BY <1>0, <2>1
  <2>3. AsTold'
    BY <1>0, <1>e DEF Exists, New
  <2>4. \A v \in Users : Own(v)'
    BY <1>0, <1>e, <2>1 DEF Exists, New
  <2> QED
    BY <1>i, <2>2, <2>3, <2>4
\* A command goes on without an end, and the container is as it was.
<1>g. ASSUME NEW u \in Users, UNCHANGED <<gateway, ended>>, vpnCmd[u].at # "idle",
             \A v \in Users : v # u => vpnCmd'[v] = vpnCmd[v],
             vpnCmd'[u].ks = vpnCmd[u].ks /\ vpnCmd'[u].made = vpnCmd[u].made,
             vpnCmd[u].made => vpnCmd'[u].at = "wait"
      PROVE  VPNInv'
  BY <1>0, <1>g, <1>i DEF Exists
\* The container is gone, or as it was.
<1>n. ASSUME gateway' = NoGateway \/ gateway' = gateway,
             \A v \in Users : Fresh(v)' /\ Waits(v)',
             \A v \in Users : vpnCmd'[v].at = "wait" => vpnCmd'[v] = vpnCmd[v]
      PROVE  VPNInv'
  BY <1>0, <1>i, <1>n DEF Exists
<1>1. ASSUME NEW u \in Users, NEW ks \in BOOLEAN, BeginStart(u, ks) PROVE VPNInv'
  <2>1. /\ [Resting EXCEPT !.at = "image", !.ks = ks].at = "image"
        /\ ~[Resting EXCEPT !.at = "image", !.ks = ks].made
    BY DEF Resting
  <2>2. /\ vpnCmd'[u].at = "image" /\ ~vpnCmd'[u].made
        /\ \A v \in Users : v # u => vpnCmd'[v] = vpnCmd[v]
    BY <1>1, <1>c, <2>1 DEF BeginStart
  <2>3. ended'[u] = "never" /\ \A v \in Users : v # u => ended'[v] = ended[v]
    BY <1>0, <1>1 DEF BeginStart
  <2>4. gateway' = gateway
    BY <1>1 DEF BeginStart
  <2>5. \A v \in Users : Fresh(v)' /\ Waits(v)'
    BY <1>0, <2>2, <2>3
  <2> QED
    BY <1>n, <2>2, <2>4, <2>5
<1>2. ASSUME NEW u \in Users, EnsureImage(u) PROVE VPNInv'
  <2>1. CASE Ends(u, "error")
    BY <1>2, <1>e, <2>1 DEF EnsureImage
  <2>2. CASE Goes(u, "ps") /\ UNCHANGED <<gateway, ended>>
    BY <1>0, <1>2, <1>g, <2>2 DEF EnsureImage, Goes
  <2> QED
    BY <1>2, <2>1, <2>2 DEF EnsureImage
<1>3. ASSUME NEW u \in Users, LookForRunning(u) PROVE VPNInv'
  <2>1. /\ \A v \in Users : v # u => vpnCmd'[v] = vpnCmd[v]
        /\ vpnCmd'[u].ks = vpnCmd[u].ks /\ vpnCmd'[u].made = vpnCmd[u].made
    BY <1>0, <1>3 DEF LookForRunning, Goes
  <2> QED
    BY <1>0, <1>3, <1>g, <2>1 DEF LookForRunning
<1>4. ASSUME NEW u \in Users, RemoveStale(u) PROVE VPNInv'
  <2>1. /\ \A v \in Users : v # u => vpnCmd'[v] = vpnCmd[v]
        /\ vpnCmd'[u].at = "run" /\ vpnCmd'[u].made = vpnCmd[u].made
        /\ vpnCmd[u].at = "rm" /\ ended' = ended
    BY <1>0, <1>4 DEF RemoveStale, Goes
  <2> QED
    BY <1>0, <1>4, <1>n, <2>1 DEF RemoveStale
<1>5. ASSUME NEW u \in Users, RunGateway(u) PROVE VPNInv'
  <2>1. CASE Ends(u, "error") /\ (gateway' = gateway \/ (~Exists /\ gateway' = New(u, FALSE)))
    BY <1>e, <2>1
  <2>2. CASE /\ gateway' = New(u, TRUE)
             /\ vpnCmd' = [vpnCmd EXCEPT ![u].at = "wait", ![u].made = TRUE,
                                         ![u].polls = MaxPolls]
             /\ UNCHANGED ended
    <3>1. /\ \A v \in Users : v # u => vpnCmd'[v] = vpnCmd[v]
          /\ vpnCmd'[u].at = "wait" /\ vpnCmd'[u].ks = vpnCmd[u].ks
      BY <1>0, <2>2
    <3>2. vpnCmd[u].at = "run"
      BY <1>5 DEF RunGateway
    <3>3. AsTold' /\ gateway'.maker = u /\ gateway'.ks = vpnCmd[u].ks
      BY <2>2 DEF New
    <3> QED
      BY <1>0, <1>i, <2>2, <3>1, <3>2, <3>3
  <2> QED
    BY <1>5, <2>1, <2>2 DEF RunGateway
<1>6. ASSUME NEW u \in Users, Poll(u) \/ TimeOut(u) PROVE VPNInv'
  <2>1. CASE \E how \in {"ok", "error"} : Ends(u, how)
    BY <1>6, <1>e, <2>1 DEF Poll, TimeOut
  <2>2. CASE vpnCmd' = [vpnCmd EXCEPT ![u].polls = @ - 1] /\ UNCHANGED ended
    <3>1. /\ \A v \in Users : v # u => vpnCmd'[v] = vpnCmd[v]
          /\ vpnCmd'[u].ks = vpnCmd[u].ks /\ vpnCmd'[u].made = vpnCmd[u].made
          /\ vpnCmd'[u].at = vpnCmd[u].at
      BY <1>0, <2>2
    <3> QED
      BY <1>0, <1>6, <1>g, <2>2, <3>1 DEF Poll, TimeOut
  <2> QED
    BY <1>6, <2>1, <2>2 DEF Poll, TimeOut
<1>7. ASSUME NEW u \in Users, StopGateway(u) PROVE VPNInv'
  <2>1. \A v \in Users : v # u => ended'[v] = ended[v]
    BY <1>0, <1>7 DEF StopGateway
  <2> QED
    BY <1>0, <1>7, <1>n, <2>1 DEF StopGateway
\* The container goes on: it keeps what it was told, and who made it.
<1>8. ASSUME WgQuickUp \/ Shield \/ Monitor \/ TunnelDrops \/ GatewayEnds PROVE VPNInv'
  <2>1. gateway \in Gateways /\ UNCHANGED <<vpnCmd, ended>> /\ Exists
    BY <1>0, <1>8 DEF WgQuickUp, Shield, Monitor, TunnelDrops, GatewayEnds, Up, Exists
  <2>2. gateway'.ks = gateway.ks /\ gateway'.maker = gateway.maker
    BY <1>8, <2>1 DEF WgQuickUp, Shield, Monitor, TunnelDrops, GatewayEnds, Gateways
  <2>3. gateway'.stage = "connected" => gateway'.deny = gateway'.ks
    <3>1. AsTold /\ gateway \in Gateways
      BY <1>0, <2>1
    <3>2. CASE WgQuickUp
      BY <3>1, <3>2 DEF WgQuickUp, Gateways
    <3>3. CASE Shield
      BY <3>1, <3>3 DEF Shield, Gateways
    <3>4. CASE Monitor
      BY <2>1, <3>1, <3>4 DEF Monitor, Gateways
    <3>5. CASE TunnelDrops \/ GatewayEnds
      BY <2>1, <3>1, <3>5 DEF TunnelDrops, GatewayEnds, Gateways
    <3> QED
      BY <1>8, <3>2, <3>3, <3>4, <3>5
  <2>4. AsTold'
    BY <2>2, <2>3
  <2>5. ASSUME NEW v \in Users PROVE Fresh(v)' /\ Own(v)' /\ Waits(v)'
    <3>1. Fresh(v) /\ Own(v) /\ Waits(v)
      BY <1>0
    <3>2. Fresh(v)' /\ Waits(v)'
      BY <2>1, <3>1
    <3>3. Own(v)'
      BY <2>1, <2>2, <3>1
    <3> QED
      BY <3>2, <3>3
  <2> HIDE DEF Fresh, AsTold, Own, Waits
  <2> QED
    BY <1>i, <2>4, <2>5
<1>9. CASE UNCHANGED vpnVars
  BY <1>0, <1>9, <1>n DEF vpnVars
<1> QED
  BY <1>1, <1>2, <1>3, <1>4, <1>5, <1>6, <1>7, <1>8, <1>9 DEF VPNNext, Starting

\* The container a start with the kill switch has made itself holds traffic back by the
\* time the start reports success, for any number of terminals and whatever they do.
THEOREM StartsAreShielded == VPNSpec => ShieldedWhenStarted
<1>1. VPNInit => VPNInv
  <2> SUFFICES ASSUME VPNInit PROVE VPNInv
    OBVIOUS
  <2>1. VPNTypeOK
    BY NewGateways, VPNAssumption DEF VPNInit, VPNTypeOK, Resting
  <2>2. ~Exists /\ \A u \in Users : vpnCmd[u] = Resting
    BY DEF VPNInit, Exists
  <2>3. Resting.at = "idle" /\ ~Resting.made
    BY DEF Resting
  <2> QED
    BY <2>1, <2>2, <2>3 DEF VPNInv
<1>2. VPNInv /\ [VPNNext]_vpnVars => VPNInv'
  BY VPNStays
<1> DEFINE Shielded(u) ==
      /\ vpnCmd[u].at = "wait" /\ ended'[u] = "ok"
      /\ vpnCmd[u].ks /\ vpnCmd[u].made
      /\ Up /\ gateway.maker = u
      => gateway.deny
<1>3. VPNInv /\ [VPNNext]_vpnVars => [\A u \in Users : Shielded(u)]_vpnVars
  <2> SUFFICES ASSUME VPNInv, VPNNext, NEW u \in Users,
                      vpnCmd[u].at = "wait", ended'[u] = "ok", vpnCmd[u].ks,
                      vpnCmd[u].made, Up, gateway.maker = u
               PROVE  gateway.deny
    OBVIOUS
  <2>1. ended[u] = "never" /\ DOMAIN ended = Users
    BY DEF VPNInv, VPNTypeOK
  <2>2. \A v \in Users : \A how : Ends(v, how) => v # u \/ how = "ok"
    BY <2>1 DEF Ends
  <2>3. SaysConnected
    <3>1. PICK v \in Users : \/ \E ks \in BOOLEAN : BeginStart(v, ks)
                             \/ Starting(v) \/ StopGateway(v)
      BY <2>1 DEF VPNNext, WgQuickUp, Shield, Monitor, TunnelDrops, GatewayEnds
    <3>2. v = u
      BY <2>1, <3>1 DEF Starting, BeginStart, EnsureImage, LookForRunning, RemoveStale,
                        RunGateway, Poll, TimeOut, StopGateway, Ends
    <3> QED
      BY <2>1, <2>2, <3>1, <3>2
         DEF Starting, BeginStart, EnsureImage, LookForRunning, RemoveStale, RunGateway,
             Poll, TimeOut, StopGateway
  <2> QED
    BY <2>3 DEF SaysConnected, VPNInv, Up
<1> QED
  BY <1>1, <1>2, <1>3, PTL DEF VPNSpec, ShieldedWhenStarted
----------------------------------------------------------------------------
(* ConfiguredStore. Of an entry that is in no doubt at most one redaction  *)
(* is under way, and the row is still as it has read it.                   *)

Reads(c, e) == call[c].at = "update" /\ call[c].entry = e

StoreInv ==
  /\ StoreTypeOK
  /\ \A e \in Entries \ doubtful, c, d \in Loggers : Reads(c, e) /\ Reads(d, e) => c = d
  /\ \A e \in Entries \ doubtful, c \in Loggers :
       Reads(c, e) => call[c].read = table[e].clear
  /\ \A e \in Entries, f \in Fields : <<e, f>> \in redacted => e \in told
  /\ \A e \in Entries : table[e].row => e \in told
  /\ \A e \in Entries, c \in Loggers : Reads(c, e) => e \in told
  /\ RedactedStaysRedacted

\* Every step keeps the types.
LEMMA StoreTyped == StoreTypeOK /\ [StoreNext]_storeVars => StoreTypeOK'
<1> SUFFICES ASSUME StoreTypeOK, [StoreNext]_storeVars PROVE StoreTypeOK'
  OBVIOUS
<1> DEFINE Redactions == [at : {"update"}, entry : Entries, fields : SUBSET Fields,
                          read : SUBSET Fields]
<1>1. \A c \in Loggers : call[c].at = "update" => call[c] \in Redactions
  BY DEF StoreTypeOK, NoCall
<1>2. ASSUME NEW ok \in BOOLEAN, Open(ok) PROVE StoreTypeOK'
  BY <1>2 DEF Open, StoreTypeOK
<1>3. ASSUME NEW e \in Entries, NEW done \in BOOLEAN, NEW reported \in BOOLEAN,
             LogEntry(e, done, reported)
      PROVE  StoreTypeOK'
  BY <1>3 DEF LogEntry, Row, StoreTypeOK
<1>4. ASSUME NEW c \in Loggers, NEW done \in BOOLEAN, NEW reported \in BOOLEAN,
             RedactWrites(c, done, reported)
      PROVE  StoreTypeOK'
  <2> DEFINE e == call[c].entry
  <2>1. call[c] \in Redactions
    BY <1>1, <1>4 DEF RedactWrites
  <2>2. /\ table' \in [Entries -> [clear : SUBSET Fields, row : BOOLEAN]]
        /\ redacted' \subseteq Entries \X Fields /\ doubtful' \subseteq Entries
    BY <1>4, <2>1 DEF RedactWrites, Row, StoreTypeOK
  <2>3. DOMAIN call' = Loggers /\ \A d \in Loggers : call'[d] = NoCall \/ call'[d] = call[d]
    BY <1>4 DEF RedactWrites, StoreTypeOK
  <2>4. UNCHANGED <<asked, opened, told>>
    BY <1>4 DEF RedactWrites
  <2> QED
    BY <2>2, <2>3, <2>4 DEF StoreTypeOK
<1>5. ASSUME NEW c \in Loggers, NEW e \in Entries, NEW fields \in SUBSET Fields,
             RedactReads(c, e, fields)
      PROVE  StoreTypeOK'
  <2>1. table[e].clear \in SUBSET Fields
    BY DEF StoreTypeOK
  <2>2. /\ DOMAIN call' = Loggers
        /\ \A d \in Loggers : call'[d] = call[d] \/ call'[d] \in Redactions
    BY <1>5, <2>1 DEF RedactReads, StoreTypeOK
  <2> QED
    BY <1>5, <2>2 DEF RedactReads, StoreTypeOK
<1>6. CASE UNCHANGED storeVars
  BY <1>6 DEF storeVars, StoreTypeOK
<1> QED
  BY <1>2, <1>3, <1>4, <1>5, <1>6 DEF StoreNext

\* Every step keeps what a redaction relies on.
LEMMA StoreStays == StoreInv /\ [StoreNext]_storeVars => StoreInv'
<1> SUFFICES ASSUME StoreInv, [StoreNext]_storeVars PROVE StoreInv'
  OBVIOUS
<1>t. StoreTypeOK /\ StoreTypeOK'
  BY StoreTyped DEF StoreInv
<1>0. /\ DOMAIN call = Loggers
      /\ table \in [Entries -> [clear : SUBSET Fields, row : BOOLEAN]]
  BY <1>t DEF StoreTypeOK
<1>1. ASSUME NEW ok \in BOOLEAN, Open(ok) PROVE StoreInv'
  BY <1>1, <1>t DEF Open, StoreInv, Reads, RedactedStaysRedacted
<1>2. ASSUME NEW e \in Entries, NEW done \in BOOLEAN, NEW reported \in BOOLEAN,
             LogEntry(e, done, reported)
      PROVE  StoreInv'
  <2>1. /\ UNCHANGED <<call, redacted>> /\ e \notin told /\ told' = told \cup {e}
        /\ doubtful \subseteq doubtful'
        /\ \A g \in Entries : g # e => table'[g] = table[g]
    BY <1>0, <1>2 DEF LogEntry
  <2>2. /\ \A c \in Loggers : ~Reads(c, e)
        /\ \A f \in Fields : <<e, f>> \notin redacted
    BY <2>1 DEF StoreInv
  <2>3. \A c \in Loggers, g \in Entries : Reads(c, g)' <=> Reads(c, g)
    BY <2>1 DEF Reads
  <2> QED
    BY <1>t, <2>1, <2>2, <2>3 DEF StoreInv, RedactedStaysRedacted
<1>3. ASSUME NEW c \in Loggers, NEW done \in BOOLEAN, NEW reported \in BOOLEAN,
             RedactWrites(c, done, reported)
      PROVE  StoreInv'
  <2> DEFINE e == call[c].entry
  <2>1. /\ e \in Entries /\ Reads(c, e)
        /\ call[c].read \in SUBSET Fields
    BY <1>3, <1>t DEF RedactWrites, Reads, StoreTypeOK, NoCall
  <2>2. \A d \in Loggers : call'[d].at # "update" \/ (d # c /\ call'[d] = call[d])
    BY <1>3, <1>t DEF RedactWrites, StoreTypeOK, NoCall
  <2>3. /\ doubtful' = IF reported THEN doubtful ELSE doubtful \cup {e}
        /\ redacted' = redacted \cup ({e} \X call[c].fields) /\ told' = told
        /\ reported => done
        /\ table' = IF done THEN [table EXCEPT ![e] = Row(call[c].read \ call[c].fields)]
                            ELSE table
    BY <1>3 DEF RedactWrites
  <2>4. /\ \A g \in Entries : g # e => table'[g] = table[g]
        /\ reported => table'[e].clear = call[c].read \ call[c].fields
        /\ e \in told
    BY <1>0, <2>1, <2>3 DEF Row, StoreInv
  <2>5. \A d \in Loggers, g \in Entries : Reads(d, g)' => Reads(d, g) /\ d # c
                                                        /\ call'[d] = call[d]
    BY <2>2 DEF Reads
  <2>6. \A g \in Entries \ doubtful', d, b \in Loggers :
          Reads(d, g)' /\ Reads(b, g)' => d = b
    BY <2>3, <2>5 DEF StoreInv
  <2>7. \A g \in Entries \ doubtful', d \in Loggers :
          Reads(d, g)' => call'[d].read = table'[g].clear
    BY <2>1, <2>3, <2>4, <2>5 DEF StoreInv
  <2>8. \A g \in Entries, f \in Fields : <<g, f>> \in redacted' => g \in told'
    BY <2>3, <2>4 DEF StoreInv
  <2>9. \A g \in Entries : table'[g].row => g \in told'
    BY <2>3, <2>4 DEF StoreInv
  <2>10. RedactedStaysRedacted'
    <3> SUFFICES ASSUME NEW g \in Entries \ doubtful', NEW f \in Fields,
                        <<g, f>> \in redacted'
                 PROVE  f \notin table'[g].clear
      BY DEF RedactedStaysRedacted
    <3>1. CASE g # e
      BY <2>3, <2>4, <3>1 DEF StoreInv, RedactedStaysRedacted
    <3>2. CASE g = e
      <4>1. reported /\ call[c].read = table[e].clear
        BY <2>1, <2>3, <3>2 DEF StoreInv
      <4>2. <<e, f>> \in redacted \/ f \in call[c].fields
        BY <2>3, <3>2
      <4> QED
        BY <2>3, <2>4, <3>2, <4>1, <4>2 DEF StoreInv, RedactedStaysRedacted
    <3> QED
      BY <3>1, <3>2
  <2>11. \A g \in Entries, d \in Loggers : Reads(d, g)' => g \in told'
    BY <2>3, <2>5 DEF StoreInv
  <2> QED
    BY <1>t, <2>6, <2>7, <2>8, <2>9, <2>10, <2>11 DEF StoreInv
<1>4. ASSUME NEW c \in Loggers, NEW e \in Entries, NEW fields \in SUBSET Fields,
             RedactReads(c, e, fields)
      PROVE  StoreInv'
  <2>1. /\ UNCHANGED <<table, told, redacted>> /\ doubtful \subseteq doubtful' /\ e \in told
        /\ e \notin doubtful' => Redacting(c, e) = {}
    BY <1>4 DEF RedactReads, StoreInv
  <2>2. \A d \in Loggers : d # c => call'[d] = call[d]
    BY <1>0, <1>4 DEF RedactReads
  <2>3. call'[c].entry = e /\ call'[c].read = table[e].clear
    BY <1>0, <1>4 DEF RedactReads
  <2>4. \A d \in Loggers, g \in Entries :
          Reads(d, g)' => (d # c /\ Reads(d, g)) \/ (d = c /\ g = e)
    BY <2>2, <2>3 DEF Reads
  <2>5. e \notin doubtful' => \A d \in Loggers : d # c => ~Reads(d, e)
    BY <2>1 DEF Redacting, Reads
  <2>6. \A g \in Entries \ doubtful', d, b \in Loggers :
          Reads(d, g)' /\ Reads(b, g)' => d = b
    BY <2>1, <2>4, <2>5 DEF StoreInv
  <2>7. \A g \in Entries \ doubtful', d \in Loggers :
          Reads(d, g)' => call'[d].read = table'[g].clear
    BY <2>1, <2>2, <2>3, <2>4 DEF StoreInv
  <2>8. \A g \in Entries, d \in Loggers : Reads(d, g)' => g \in told'
    BY <2>1, <2>4 DEF StoreInv
  <2>9. RedactedStaysRedacted'
    BY <2>1 DEF StoreInv, RedactedStaysRedacted
  <2> QED
    BY <1>t, <2>1, <2>6, <2>7, <2>8, <2>9 DEF StoreInv
<1>5. CASE UNCHANGED storeVars
  BY <1>5, <1>t DEF storeVars, StoreInv, Reads, RedactedStaysRedacted
<1> QED
  BY <1>1, <1>2, <1>3, <1>4, <1>5 DEF StoreNext

\* What was reported redacted stays out of the table, for any number of entries, fields
\* and calls, and any that overlap on other entries.
THEOREM RedactionsLast == StoreSpec => []RedactedStaysRedacted
<1>1. StoreInit => StoreInv
  BY DEF StoreInit, StoreInv, StoreTypeOK, NoRow, NoCall, Reads, RedactedStaysRedacted
<1>2. StoreInv /\ [StoreNext]_storeVars => StoreInv'
  BY StoreStays
<1>3. StoreInv => RedactedStaysRedacted
  BY DEF StoreInv
<1> QED
  BY <1>1, <1>2, <1>3, PTL DEF StoreSpec

\* Nobody who asked for the database is given memory, in either build.
THEOREM DatabaseOrNothing == StoreSpec => []NeverSilentlyVolatile
<1> USE DEF NeverSilentlyVolatile, Requested
<1>1. StoreInit => NeverSilentlyVolatile
  BY DEF StoreInit
<1>2. NeverSilentlyVolatile /\ [StoreNext]_storeVars => NeverSilentlyVolatile'
  BY DEF StoreNext, Open, LogEntry, RedactReads, RedactWrites, storeVars
<1> QED
  BY <1>1, <1>2, PTL DEF StoreSpec
----------------------------------------------------------------------------
(* RateLimiter. A host's buckets are counted: one for each reset so far,   *)
(* and one more while the map has one.                                     *)

BucketInv ==
  /\ buckets \in [LimitedHosts -> Nat]
  /\ made \in [LimitedHosts -> Nat] /\ resets \in [LimitedHosts -> Nat]
  /\ \A c \in Callers : caller[c].at = "make" => caller[c].host \in LimitedHosts
  /\ DOMAIN caller = Callers
  /\ \A h \in LimitedHosts : made[h] <= resets[h] + (IF buckets[h] = 0 THEN 0 ELSE 1)

\* Every step keeps the count.
LEMMA BucketsStay == BucketInv /\ [RateNext]_rateVars => BucketInv'
<1> SUFFICES ASSUME BucketInv, [RateNext]_rateVars PROVE BucketInv'
  OBVIOUS
<1> USE DEF BucketInv
<1>1. ASSUME NEW c \in Callers, NEW h \in LimitedHosts, Find(c, h) PROVE BucketInv'
  BY <1>1 DEF Find, Holds
<1>2. ASSUME NEW c \in Callers, FindOrMake(c) PROVE BucketInv'
  <2> DEFINE h == caller[c].host
  <2>1. h \in LimitedHosts
    BY <1>2 DEF FindOrMake
  <2>2. CASE buckets[h] # 0
    BY <1>2, <2>1, <2>2 DEF FindOrMake, Holds
  <2>3. CASE buckets[h] = 0
    <3>1. /\ buckets' = [buckets EXCEPT ![h] = made[h] + 1]
          /\ made' = [made EXCEPT ![h] = made[h] + 1]
          /\ resets' = resets
          /\ caller' = [caller EXCEPT ![c] = [at |-> "take", host |-> h,
                                              bucket |-> made[h] + 1]]
      BY <1>2, <2>3 DEF FindOrMake, Make, Holds
    <3>2. \A d \in Callers : caller'[d].at = "make" => caller'[d].host \in LimitedHosts
      BY <3>1
    <3>3. \A k \in LimitedHosts :
            made'[k] <= resets'[k] + (IF buckets'[k] = 0 THEN 0 ELSE 1)
      BY <2>1, <2>3, <3>1
    <3> QED
      BY <2>1, <3>1, <3>2, <3>3
  <2> QED
    BY <2>2, <2>3
<1>3. ASSUME NEW c \in Callers, Take(c) PROVE BucketInv'
  BY <1>3 DEF Take, Waiting
<1>4. ASSUME NEW h \in LimitedHosts, Reset(h) PROVE BucketInv'
  BY <1>4 DEF Reset
<1>5. CASE ResetAll
  BY <1>5 DEF ResetAll
<1>6. CASE Tick \/ UNCHANGED rateVars
  BY <1>6 DEF Tick, rateVars
<1> QED
  BY <1>1, <1>2, <1>3, <1>4, <1>5, <1>6 DEF RateNext

\* A host has one bucket until it is reset, however many calls race to make the first
\* one, for any number of hosts and callers and any rate.
THEOREM OneBucket == RateSpec => []OneBucketPerReset
<1>1. RateInit => BucketInv
  BY DEF RateInit, BucketInv, Waiting
<1>2. BucketInv /\ [RateNext]_rateVars => BucketInv'
  BY BucketsStay
<1>3. BucketInv => OneBucketPerReset
  BY DEF BucketInv, OneBucketPerReset
<1> QED
  BY <1>1, <1>2, <1>3, PTL DEF RateSpec
----------------------------------------------------------------------------
(* RateLimiter, the tokens. What the buckets of a host may still give is   *)
(* kept in an account, which also has what they have given.                *)

\* The calls hold buckets that were made, and no bucket was used in the future.
RateCalls ==
  /\ \A c \in Callers :
       /\ caller[c].at \in {"make", "take"} => caller[c].host \in LimitedHosts
       /\ caller[c].at = "take" => caller[c].bucket \in 1..made[caller[c].host]
  /\ \A h \in LimitedHosts : buckets[h] <= made[h]
  /\ \A h \in LimitedHosts, b \in Numbers : last[h][b] <= now

\* What bucket b of h has, once it is refilled.
Refilled(h, b) == tokens[h][b] + (now - last[h][b]) * Rate
Credit(h, b) == Min({Refilled(h, b), Burst})

\* What n buckets give in d ticks at the most.
AtMost(n, d) == n * (Burst + d * Rate)

\* An account of n buckets that have credit: account[j] is no less than the first j
\* of them have; and what was given since any time s and what they all have is no
\* more than they may give since then.
Account(n, time, credit, given, account) ==
  /\ \A j \in 0..n : account[j] \in Int
  /\ \A j \in 1..n : credit[j] \in Nat /\ account[j] >= account[j - 1] + credit[j]
  /\ account[0] = 0 /\ account[n] <= AtMost(n, 0)
  /\ \A s \in 0..time : given[s] \in Int /\ given[s] + account[n] <= AtMost(n, time - s)

Credits(h) == [j \in 1..made[h] |-> Credit(h, j)]
Given(h) == [s \in 0..now |-> GrantedIn(h, s, now)]
HasAccount(h) == \E account : Account(made[h], now, Credits(h), Given(h), account)

\* In every stretch of time that is over the buckets have given what they may, and
\* nothing is granted yet at times to come.
Granted(h) ==
  /\ \A t \in Times : t >= now => granted[h][t] = granted[h][now]
  /\ \A s, t \in 0..now : s <= t => GrantedIn(h, s, t) <= AtMost(made[h], t - s)

RateInv ==
  /\ RateTypeOK /\ RateCalls
  /\ \A h \in LimitedHosts : Granted(h) /\ HasAccount(h)

\* The lesser of two numbers.
LEMMA MinOfTwo ==
  ASSUME NEW m \in Int, NEW n \in Int
  PROVE  Min({m, n}) = IF m <= n THEN m ELSE n
BY DEF Min

\* The constants and the numbers of buckets.
LEMMA RateNumbers ==
  /\ Rate \in Nat /\ Burst \in Nat /\ MaxTime \in Nat /\ MaxResets \in Nat
  /\ Times = 0..MaxTime /\ Numbers = 1..(1 + MaxResets)
BY RateAssumption DEF Times, Numbers

\* A product does not fall when a factor grows.
LEMMA ProductGrows ==
  ASSUME NEW m \in Nat, NEW n \in Nat, m <= n, NEW x \in Nat
  PROVE  m * x <= n * x /\ m * x \in Nat /\ n * x \in Nat
<1>1. n - m \in Nat
  OBVIOUS
<1>2. (n - m) * x \in Nat
  BY <1>1
<1>3. n * x = m * x + (n - m) * x
  BY <1>1
<1> QED
  BY <1>2, <1>3

\* What buckets may give is a number, which grows with them and with the time.
LEMMA AtMostGrows ==
  ASSUME NEW n \in Nat, NEW d \in Nat
  PROVE  /\ AtMost(n, d) \in Nat
         /\ AtMost(n + 1, d) >= AtMost(n, d) + Burst
         /\ AtMost(n, d + 1) = AtMost(n, d) + n * Rate
         /\ AtMost(n, 0) = n * Burst /\ n * Rate \in Nat /\ n * Burst \in Nat
<1>1. Rate \in Nat /\ Burst \in Nat
  BY RateNumbers
<1>2. d * Rate \in Nat /\ n * Rate \in Nat /\ n * Burst \in Nat /\ n * (d * Rate) \in Nat
  BY <1>1
<1>3. AtMost(n, d) = n * Burst + n * (d * Rate)
  BY <1>1, <1>2 DEF AtMost
<1>4. AtMost(n + 1, d) = n * Burst + n * (d * Rate) + Burst + d * Rate
  BY <1>1, <1>2 DEF AtMost
<1>5. AtMost(n, d + 1) = n * Burst + n * (d * Rate) + n * Rate
  BY <1>1, <1>2 DEF AtMost
<1>6. AtMost(n, 0) = n * Burst
  BY <1>1 DEF AtMost
<1> QED
  BY <1>1, <1>2, <1>3, <1>4, <1>5, <1>6

\* What a bucket has, and what one tick adds.
LEMMA CreditIs ==
  ASSUME RateTypeOK, RateCalls, NEW h \in LimitedHosts, NEW b \in Numbers
  PROVE  /\ Refilled(h, b) \in Nat /\ Credit(h, b) \in 0..Burst
         /\ Credit(h, b) = IF Refilled(h, b) <= Burst THEN Refilled(h, b) ELSE Burst
<1>1. /\ Rate \in Nat /\ Burst \in Nat
      /\ tokens[h][b] \in Nat /\ now - last[h][b] \in Nat
  <2>1. Rate \in Nat /\ Burst \in Nat /\ MaxTime \in Nat /\ Times = 0..MaxTime
    BY RateNumbers
  <2>2. tokens[h] \in [Numbers -> 0..Burst] /\ last[h] \in [Numbers -> Times] /\ now \in Times
    BY DEF RateTypeOK
  <2>3. tokens[h][b] \in 0..Burst /\ last[h][b] \in Times /\ last[h][b] <= now
    BY <2>2 DEF RateCalls
  <2> QED
    BY <2>1, <2>2, <2>3
<1>2. (now - last[h][b]) * Rate \in Nat
  BY <1>1
<1>3. Refilled(h, b) \in Nat
  BY <1>1, <1>2 DEF Refilled
<1>4. Credit(h, b) = IF Refilled(h, b) <= Burst THEN Refilled(h, b) ELSE Burst
  BY <1>1, <1>3, MinOfTwo DEF Credit
<1> QED
  BY <1>1, <1>3, <1>4

\* An account is never in debt.
LEMMA NoDebt ==
  ASSUME NEW n \in Nat, NEW time \in Nat, NEW credit, NEW given, NEW account,
         Account(n, time, credit, given, account)
  PROVE  account[n] >= 0
<1> DEFINE S == {j \in 0..n : account[j] >= 0}
<1>1. 0 \in S
  BY DEF Account
<1>2. ASSUME NEW j \in 1..n, j - 1 \in S PROVE j \in S
  <2>1. /\ j \in 0..n /\ j - 1 \in 0..n
        /\ account[j] \in Int /\ account[j - 1] \in Int /\ credit[j] \in Nat
        /\ account[j] >= account[j - 1] + credit[j]
    BY DEF Account
  <2>2. account[j - 1] >= 0
    BY <1>2
  <2> QED
    BY <2>1, <2>2
<1> HIDE DEF S
<1>3. \A j \in 0..n : j \in S
  BY <1>1, <1>2, Interval, Zenon
<1>4. n \in S
  BY <1>3
<1> QED
  BY <1>4 DEF S

\* One more bucket, a full one.
LEMMA AccountGrows ==
  ASSUME NEW n \in Nat, NEW time \in Nat, NEW credit, NEW given, NEW account,
         Account(n, time, credit, given, account),
         NEW more, more[n + 1] = Burst, \A j \in 1..n : more[j] = credit[j]
  PROVE  \E new : Account(n + 1, time, more, given, new)
<1> DEFINE new == [j \in 0..(n + 1) |-> IF j = n + 1 THEN account[n] + Burst ELSE account[j]]
<1>1. Burst \in Nat /\ account[n] \in Int /\ n \in 0..n
  BY RateNumbers DEF Account
<1>2. /\ new[n + 1] = account[n] + Burst
      /\ \A j \in 0..n : new[j] = account[j]
  OBVIOUS
<1> HIDE DEF new
<1>3. ASSUME NEW d \in Nat
      PROVE  /\ AtMost(n, d) \in Nat /\ AtMost(n + 1, d) \in Nat
             /\ AtMost(n + 1, d) >= AtMost(n, d) + Burst
  <2>1. n + 1 \in Nat
    OBVIOUS
  <2> QED
    BY <2>1, AtMostGrows, Zenon
<1>4. ASSUME NEW j \in 0..(n + 1) PROVE new[j] \in Int
  <2>1. CASE j = n + 1
    BY <1>1, <1>2, <2>1
  <2>2. CASE j \in 0..n
    BY <1>2, <2>2 DEF Account
  <2> QED
    BY <2>1, <2>2
<1>5. ASSUME NEW j \in 1..(n + 1) PROVE more[j] \in Nat /\ new[j] >= new[j - 1] + more[j]
  <2>1. CASE j = n + 1
    <3>1. j - 1 = n /\ new[j - 1] = account[n] /\ new[j] = account[n] + Burst /\ more[j] = Burst
      BY <1>1, <1>2, <2>1
    <3> QED
      BY <1>1, <3>1
  <2>2. CASE j \in 1..n
    <3>1. j \in 0..n /\ j - 1 \in 0..n
      BY <2>2
    <3>2. new[j] = account[j] /\ new[j - 1] = account[j - 1] /\ more[j] = credit[j]
      BY <1>2, <2>2, <3>1
    <3> QED
      BY <2>2, <3>2 DEF Account
  <2> QED
    BY <2>1, <2>2
<1>6. new[0] = 0
  <2>1. 0 \in 0..n
    OBVIOUS
  <2> QED
    BY <1>2, <2>1 DEF Account
<1>7. new[n + 1] <= AtMost(n + 1, 0)
  <2>1. account[n] <= AtMost(n, 0)
    BY DEF Account
  <2> QED
    BY <1>1, <1>2, <1>3, <2>1
<1>8. ASSUME NEW s \in 0..time
      PROVE  given[s] \in Int /\ given[s] + new[n + 1] <= AtMost(n + 1, time - s)
  <2>1. given[s] \in Int /\ given[s] + account[n] <= AtMost(n, time - s)
    BY DEF Account
  <2>2. time - s \in Nat
    OBVIOUS
  <2>3. /\ AtMost(n, time - s) \in Nat /\ AtMost(n + 1, time - s) \in Nat
        /\ AtMost(n + 1, time - s) >= AtMost(n, time - s) + Burst
    BY <1>3, <2>2
  <2> QED
    BY <1>1, <1>2, <2>1, <2>3
<1>9. Account(n + 1, time, more, given, new)
  BY <1>4, <1>5, <1>6, <1>7, <1>8 DEF Account
<1> QED
  BY <1>9

\* Bucket b gives a token.
LEMMA AccountPays ==
  ASSUME NEW n \in Nat, NEW time \in Nat, NEW credit, NEW given, NEW account,
         Account(n, time, credit, given, account),
         NEW b \in 1..n, NEW less, NEW more,
         credit[b] > 0, less[b] = credit[b] - 1,
         \A j \in 1..n : j # b => less[j] = credit[j],
         \A s \in 0..time : more[s] = given[s] + 1
  PROVE  \E new : Account(n, time, less, more, new)
<1> DEFINE new == [j \in 0..n |-> IF j >= b THEN account[j] - 1 ELSE account[j]]
<1>1. \A j \in 0..n : new[j] = IF j >= b THEN account[j] - 1 ELSE account[j]
  OBVIOUS
<1> HIDE DEF new
<1>2. ASSUME NEW j \in 0..n PROVE new[j] \in Int
  BY <1>1 DEF Account
<1>3. ASSUME NEW j \in 1..n PROVE less[j] \in Nat /\ new[j] >= new[j - 1] + less[j]
  <2>1. /\ account[j] \in Int /\ account[j - 1] \in Int /\ credit[j] \in Nat
        /\ account[j] >= account[j - 1] + credit[j] /\ j \in 0..n /\ j - 1 \in 0..n
    BY DEF Account
  <2>2. CASE j = b
    <3>1. new[j] = account[j] - 1 /\ new[j - 1] = account[j - 1] /\ less[j] = credit[j] - 1
          /\ credit[j] > 0
      BY <1>1, <2>1, <2>2
    <3> QED
      BY <2>1, <3>1
  <2>3. CASE j > b
    <3>1. new[j] = account[j] - 1 /\ new[j - 1] = account[j - 1] - 1 /\ less[j] = credit[j]
      BY <1>1, <2>1, <2>3
    <3> QED
      BY <2>1, <3>1
  <2>4. CASE j < b
    <3>1. new[j] = account[j] /\ new[j - 1] = account[j - 1] /\ less[j] = credit[j]
      BY <1>1, <2>1, <2>4
    <3> QED
      BY <2>1, <3>1
  <2> QED
    BY <2>2, <2>3, <2>4
<1>4. new[0] = 0
  <2>1. 0 \in 0..n /\ ~(0 >= b)
    OBVIOUS
  <2> QED
    BY <1>1, <2>1 DEF Account
<1>5. new[n] = account[n] - 1 /\ account[n] \in Int
  <2>1. n \in 0..n /\ n >= b
    OBVIOUS
  <2> QED
    BY <1>1, <2>1 DEF Account
<1>6. new[n] <= AtMost(n, 0)
  <2>1. account[n] <= AtMost(n, 0) /\ AtMost(n, 0) \in Nat
    BY AtMostGrows DEF Account
  <2> QED
    BY <1>5, <2>1
<1>7. ASSUME NEW s \in 0..time PROVE more[s] \in Int /\ more[s] + new[n] <= AtMost(n, time - s)
  <2>1. given[s] \in Int /\ given[s] + account[n] <= AtMost(n, time - s)
    BY DEF Account
  <2>2. more[s] = given[s] + 1
    OBVIOUS
  <2>3. AtMost(n, time - s) \in Nat
    <3>1. time - s \in Nat
      OBVIOUS
    <3> QED
      BY <3>1, AtMostGrows, Zenon
  <2> QED
    BY <1>5, <2>1, <2>2, <2>3
<1>8. Account(n, time, less, more, new)
  BY <1>2, <1>3, <1>4, <1>6, <1>7 DEF Account
<1> QED
  BY <1>8

\* A tick refills each bucket.
LEMMA AccountTicks ==
  ASSUME NEW n \in Nat, NEW time \in Nat, NEW credit, NEW given, NEW account,
         Account(n, time, credit, given, account),
         NEW more, NEW same,
         \A j \in 1..n : more[j] \in Nat /\ more[j] <= credit[j] + Rate /\ more[j] <= Burst,
         \A s \in 0..time : same[s] = given[s], same[time + 1] = 0
  PROVE  \E new : Account(n, time + 1, more, same, new)
<1> DEFINE new == [j \in 0..n |-> IF account[j] + j * Rate <= j * Burst
                                    THEN account[j] + j * Rate ELSE j * Burst]
<1>1. Burst \in Nat /\ Rate \in Nat
  BY RateNumbers
<1>2. ASSUME NEW j \in 0..n
      PROVE  /\ new[j] \in Int /\ new[j] <= account[j] + j * Rate /\ new[j] <= j * Burst
             /\ new[j] = account[j] + j * Rate \/ new[j] = j * Burst
  <2>1. account[j] \in Int
    BY DEF Account
  <2>2. j * Rate \in Nat /\ j * Burst \in Nat
    BY <1>1
  <2>3. new[j] = IF account[j] + j * Rate <= j * Burst THEN account[j] + j * Rate ELSE j * Burst
    OBVIOUS
  <2> HIDE DEF new
  <2> QED
    BY <2>1, <2>2, <2>3
<1>3. new[0] = 0
  <2>1. 0 * Rate = 0 /\ 0 * Burst = 0
    BY <1>1
  <2>2. account[0] = 0 /\ 0 \in 0..n
    BY DEF Account
  <2> QED
    BY <2>1, <2>2
<1> HIDE DEF new
<1>4. ASSUME NEW j \in 1..n PROVE more[j] \in Nat /\ new[j] >= new[j - 1] + more[j]
  <2> DEFINE i == j - 1
             r == i * Rate
             f == i * Burst
  <2>1. i \in Nat /\ j = i + 1 /\ i \in 0..n /\ j \in 0..n
    OBVIOUS
  <2>2. /\ account[j] \in Int /\ account[i] \in Int /\ credit[j] \in Nat
        /\ account[j] >= account[i] + credit[j]
        /\ more[j] \in Nat /\ more[j] <= credit[j] + Rate /\ more[j] <= Burst
    BY <2>1 DEF Account
  <2>3. /\ new[i] \in Int /\ new[i] <= account[i] + r /\ new[i] <= f
        /\ new[j] \in Int
        /\ new[j] = account[j] + j * Rate \/ new[j] = j * Burst
    BY <1>2, <2>1
  <2> HIDE DEF i
  <2>4. r \in Nat /\ f \in Nat /\ j * Rate = r + Rate /\ j * Burst = f + Burst
    <3>1. \A m, x \in Nat : m * x \in Nat /\ (m + 1) * x = m * x + x
      OBVIOUS
    <3> QED
      BY <1>1, <2>1, <3>1, Zenon
  <2> HIDE DEF r, f
  <2>5. new[j] = account[j] + (r + Rate) \/ new[j] = f + Burst
    BY <2>3, <2>4
  <2>6. new[j] >= new[i] + more[j]
    BY <1>1, <2>2, <2>3, <2>4, <2>5
  <2> QED
    BY <2>2, <2>6 DEF i
<1>5. /\ n \in 0..n /\ new[n] \in Int /\ new[n] <= AtMost(n, 0)
      /\ new[n] <= account[n] + n * Rate /\ account[n] \in Int
  <2>1. AtMost(n, 0) = n * Burst
    BY AtMostGrows
  <2>2. n \in 0..n
    OBVIOUS
  <2> QED
    BY <1>2, <2>1, <2>2 DEF Account
<1>6. ASSUME NEW s \in 0..(time + 1)
      PROVE  same[s] \in Int /\ same[s] + new[n] <= AtMost(n, time + 1 - s)
  <2>1. CASE s = time + 1
    <3>1. time + 1 - s = 0 /\ same[s] = 0
      BY <2>1
    <3>2. AtMost(n, 0) \in Nat
      BY AtMostGrows
    <3> QED
      BY <1>5, <3>1, <3>2
  <2>2. CASE s \in 0..time
    <3> DEFINE d == time - s
    <3>1. d \in Nat /\ time + 1 - s = d + 1
      BY <2>2
    <3>2. given[s] + account[n] <= AtMost(n, d) /\ given[s] \in Int /\ same[s] = given[s]
      BY <2>2 DEF Account
    <3> HIDE DEF d
    <3>3. AtMost(n, d + 1) = AtMost(n, d) + n * Rate /\ AtMost(n, d) \in Nat /\ n * Rate \in Nat
      BY <3>1, AtMostGrows
    <3>4. same[s] + new[n] <= AtMost(n, d + 1)
      BY <1>5, <3>2, <3>3
    <3> QED
      BY <3>1, <3>2, <3>4
  <2> QED
    BY <2>1, <2>2
<1>7. Account(n, time + 1, more, same, new)
  BY <1>2, <1>3, <1>4, <1>5, <1>6 DEF Account
<1> QED
  BY <1>7

\* Types first: a bucket never has more than it can hold, and the calls use what
\* was made.
LEMMA RateTyped ==
  RateTypeOK /\ RateCalls /\ [RateNext]_rateVars => RateTypeOK' /\ RateCalls'
<1> SUFFICES ASSUME RateTypeOK, RateCalls, [RateNext]_rateVars PROVE RateTypeOK' /\ RateCalls'
  OBVIOUS
<1> DEFINE Calls == [at : {"idle", "make", "take"},
                     host : LimitedHosts \cup {NoBucket}, bucket : {0} \cup Numbers]
<1>n. /\ Rate \in Nat /\ Burst \in Nat /\ MaxTime \in Nat /\ MaxResets \in Nat
      /\ Times = 0..MaxTime /\ Numbers = 1..(1 + MaxResets)
  BY RateNumbers
<1>t. /\ buckets \in [LimitedHosts -> {0} \cup Numbers]
      /\ tokens \in [LimitedHosts -> [Numbers -> 0..Burst]]
      /\ last \in [LimitedHosts -> [Numbers -> Times]]
      /\ made \in [LimitedHosts -> {0} \cup Numbers]
      /\ caller \in [Callers -> Calls]
      /\ now \in Times
      /\ resets \in [LimitedHosts -> 0..MaxResets]
      /\ granted \in [LimitedHosts -> [Times -> Nat]]
  BY DEF RateTypeOK
<1>m. made \in [LimitedHosts -> {0} \cup Numbers] /\ resets \in [LimitedHosts -> 0..MaxResets]
  BY <1>t
<1>k. tokens \in [LimitedHosts -> [Numbers -> 0..Burst]] /\ Burst \in 0..Burst
  BY <1>n, <1>t
<1>l. \A h \in LimitedHosts, b \in Numbers : last[h][b] \in Nat /\ now \in Nat
  <2>1. last \in [LimitedHosts -> [Numbers -> Times]] /\ now \in Times
    BY <1>t
  <2>2. \A h \in LimitedHosts, b \in Numbers : last[h][b] \in Times
    BY <2>1
  <2> QED
    BY <1>n, <2>1, <2>2
<1>h. \A h \in LimitedHosts : made[h] \in Nat /\ resets[h] \in Nat /\ resets[h] <= MaxResets
  <2>1. \A h \in LimitedHosts : made[h] \in {0} \cup Numbers /\ resets[h] \in 0..MaxResets
    BY <1>m
  <2> QED
    BY <1>n, <2>1
<1>1. ASSUME NEW c \in Callers, NEW h \in LimitedHosts, Find(c, h)
      PROVE  RateTypeOK' /\ RateCalls'
  <2>1. UNCHANGED <<buckets, tokens, last, made, now, resets, granted>>
    BY <1>1 DEF Find
  <2>2. \E next \in Calls :
          /\ caller' = [caller EXCEPT ![c] = next]
          /\ next.host = h /\ next.at \in {"make", "take"}
          /\ next.at = "take" => next.bucket = buckets[h] /\ buckets[h] # 0
    <3>1. CASE buckets[h] # 0
      <4>1. [at |-> "take", host |-> h, bucket |-> buckets[h]] \in Calls
        BY <1>t
      <4> QED
        BY <1>1, <3>1, <4>1 DEF Find, Holds
    <3>2. CASE buckets[h] = 0
      <4>1. [at |-> "make", host |-> h, bucket |-> 0] \in Calls
        OBVIOUS
      <4> QED
        BY <1>1, <3>2, <4>1 DEF Find
    <3> QED
      BY <3>1, <3>2
  <2>3. PICK next \in Calls :
          /\ caller' = [caller EXCEPT ![c] = next]
          /\ next.host = h /\ next.at \in {"make", "take"}
          /\ next.at = "take" => next.bucket = buckets[h] /\ buckets[h] # 0
    BY <2>2
  <2> HIDE DEF Calls
  <2>4. caller' \in [Callers -> Calls]
    BY <1>t, <2>3
  <2>5. RateTypeOK'
    BY <1>t, <2>1, <2>4 DEF RateTypeOK, Calls
  <2>6. buckets[h] # 0 => buckets[h] \in 1..made[h]
    BY <1>n, <1>t DEF RateCalls
  <2>7. \A d \in Callers : caller'[d] = IF d = c THEN next ELSE caller[d]
    BY <1>t, <2>3
  <2>8. RateCalls'
    BY <2>1, <2>3, <2>6, <2>7 DEF RateCalls
  <2> QED
    BY <2>5, <2>8
<1>2. ASSUME NEW c \in Callers, FindOrMake(c) PROVE RateTypeOK' /\ RateCalls'
  <2> DEFINE h == caller[c].host
  <2>1. h \in LimitedHosts
    BY <1>2 DEF FindOrMake, RateCalls
  <2>2. CASE buckets[h] # 0
    <3>1. /\ UNCHANGED <<buckets, tokens, last, made, now, resets, granted>>
          /\ caller' = [caller EXCEPT ![c] = [at |-> "take", host |-> h, bucket |-> buckets[h]]]
      BY <1>2, <2>2 DEF FindOrMake, Holds
    <3> DEFINE next == [at |-> "take", host |-> h, bucket |-> buckets[h]]
    <3>2. next \in Calls
      BY <1>t, <2>1
    <3>3. caller' \in [Callers -> Calls]
      BY <1>t, <3>1, <3>2
    <3>4. RateTypeOK'
      BY <1>t, <3>1, <3>3 DEF RateTypeOK
    <3>5. buckets[h] \in 1..made[h]
      BY <1>n, <1>t, <2>1, <2>2 DEF RateCalls
    <3>6. \A d \in Callers : caller'[d] = IF d = c THEN next ELSE caller[d]
      BY <1>t, <3>1
    <3>7. RateCalls'
      BY <2>1, <3>1, <3>5, <3>6 DEF RateCalls
    <3> QED
      BY <3>4, <3>7
  <2>3. CASE buckets[h] = 0
    <3> DEFINE b == made[h] + 1
               next == [at |-> "take", host |-> h, bucket |-> b]
    <3>1. /\ b \in Numbers
          /\ buckets' = [buckets EXCEPT ![h] = b]
          /\ tokens' = [tokens EXCEPT ![h][b] = Burst]
          /\ last' = [last EXCEPT ![h][b] = now]
          /\ made' = [made EXCEPT ![h] = b]
          /\ caller' = [caller EXCEPT ![c] = next]
          /\ UNCHANGED <<now, resets, granted>>
      BY <1>2, <2>3 DEF FindOrMake, Make, Holds
    <3>2. next \in Calls
      BY <2>1, <3>1
    <3>3. made[h] \in Nat /\ b \in Nat /\ b > made[h]
      BY <1>h, <2>1
    <3> HIDE DEF b
    <3>4. buckets' \in [LimitedHosts -> {0} \cup Numbers]
          /\ made' \in [LimitedHosts -> {0} \cup Numbers]
      BY <1>t, <3>1
    <3>5. tokens' \in [LimitedHosts -> [Numbers -> 0..Burst]]
      BY <1>k, <3>1
    <3>6. last' \in [LimitedHosts -> [Numbers -> Times]]
      BY <1>t, <3>1
    <3>7. caller' \in [Callers -> Calls]
      BY <1>t, <3>1, <3>2
    <3>8. RateTypeOK'
      BY <1>t, <3>1, <3>4, <3>5, <3>6, <3>7 DEF RateTypeOK
    <3>9. /\ \A d \in Callers : caller'[d] = IF d = c THEN next ELSE caller[d]
          /\ \A k \in LimitedHosts : /\ made'[k] = IF k = h THEN b ELSE made[k]
                                     /\ buckets'[k] = IF k = h THEN b ELSE buckets[k]
      BY <1>t, <3>1
    <3>10. \A k \in LimitedHosts : made[k] \in Nat /\ made'[k] \in Nat /\ made[k] <= made'[k]
      <4>1. \A k \in LimitedHosts : made[k] \in Nat
        BY <1>h
      <4> QED
        BY <3>3, <3>9, <4>1
    <3>11. ASSUME NEW d \in Callers
           PROVE  /\ caller'[d].at \in {"make", "take"} => caller'[d].host \in LimitedHosts
                  /\ caller'[d].at = "take" => caller'[d].bucket \in 1..made'[caller'[d].host]
      <4>1. CASE d = c
        <5>1. caller'[d] = next /\ made'[h] = b /\ b \in 1..b
          BY <2>1, <3>3, <3>9, <4>1
        <5> QED
          BY <2>1, <5>1
      <4>2. CASE d # c
        <5>1. caller'[d] = caller[d]
          BY <3>9, <4>2
        <5>2. ASSUME caller[d].at = "take" PROVE caller[d].bucket \in 1..made'[caller[d].host]
          <6>1. caller[d].host \in LimitedHosts /\ caller[d].bucket \in 1..made[caller[d].host]
            BY <5>2 DEF RateCalls
          <6> QED
            BY <3>10, <6>1
        <5> QED
          BY <5>1, <5>2 DEF RateCalls
      <4> QED
        BY <4>1, <4>2
    <3>12. \A k \in LimitedHosts : buckets'[k] <= made'[k]
      BY <3>3, <3>9 DEF RateCalls
    <3>13. \A k \in LimitedHosts, i \in Numbers : last'[k][i] <= now'
      <4>1. \A k \in LimitedHosts, i \in Numbers : last'[k][i] \in {now, last[k][i]}
        BY <1>t, <3>1
      <4>2. now <= now
        BY <1>n, <1>t
      <4> QED
        BY <3>1, <4>1, <4>2 DEF RateCalls
    <3> QED
      BY <3>8, <3>11, <3>12, <3>13 DEF RateCalls
  <2> QED
    BY <2>2, <2>3
<1>3. ASSUME NEW c \in Callers, Take(c) PROVE RateTypeOK' /\ RateCalls'
  <2> DEFINE h == caller[c].host
             b == caller[c].bucket
             full == Credit(h, b)
             left == IF full > 0 THEN full - 1 ELSE 0
  <2>1. /\ h \in LimitedHosts /\ b \in 1..made[h]
    BY <1>3 DEF Take, RateCalls
  <2>2. b \in Numbers
    BY <1>n, <1>t, <2>1
  <2>3. full \in 0..Burst
    BY <2>1, <2>2, CreditIs
  <2>4. /\ tokens' = [tokens EXCEPT ![h][b] = left]
        /\ last' = [last EXCEPT ![h][b] = now]
        /\ granted' = IF full > 0 THEN [granted EXCEPT ![h] = OneMore(@)] ELSE granted
        /\ caller' = [caller EXCEPT ![c] = Waiting]
        /\ UNCHANGED <<buckets, made, now, resets>>
    BY <1>3 DEF Take, Credit, Refilled
  <2>5. left \in 0..Burst
    BY <1>n, <2>3
  <2> HIDE DEF full, left, h, b
  <2>6. tokens' \in [LimitedHosts -> [Numbers -> 0..Burst]]
    BY <1>t, <2>4, <2>5
  <2>7. last' \in [LimitedHosts -> [Numbers -> Times]]
    BY <1>t, <2>4
  <2>8. granted' \in [LimitedHosts -> [Times -> Nat]]
    <3>1. OneMore(granted[h]) \in [Times -> Nat]
      BY <1>t, <2>1 DEF OneMore
    <3> QED
      BY <1>t, <2>4, <3>1
  <2>9. Waiting \in Calls
    BY DEF Waiting
  <2>10. caller' \in [Callers -> Calls]
    BY <1>t, <2>4, <2>9
  <2>11. RateTypeOK'
    BY <1>t, <2>4, <2>6, <2>7, <2>8, <2>10 DEF RateTypeOK
  <2>12. \A d \in Callers : caller'[d] = IF d = c THEN Waiting ELSE caller[d]
    BY <1>t, <2>4
  <2>13. \A k \in LimitedHosts, i \in Numbers : last'[k][i] <= now'
    <3>1. \A k \in LimitedHosts, i \in Numbers : last'[k][i] \in {now, last[k][i]}
      BY <1>t, <2>4
    <3>2. now <= now
      BY <1>n, <1>t
    <3> QED
      BY <2>4, <3>1, <3>2 DEF RateCalls
  <2>14. RateCalls'
    BY <2>4, <2>12, <2>13 DEF RateCalls, Waiting
  <2> QED
    BY <2>11, <2>14
<1>4. CASE ResetAll \/ \E h \in LimitedHosts : Reset(h)
  <2>1. UNCHANGED <<tokens, last, made, caller, now, granted>>
    BY <1>4 DEF ResetAll, Reset
  <2>2. \A h \in LimitedHosts : buckets'[h] \in {0, buckets[h]}
    BY <1>4, <1>t DEF ResetAll, Reset
  <2>3. buckets' \in [LimitedHosts -> {0} \cup Numbers]
    BY <1>4, <1>t DEF ResetAll, Reset
  <2>4. resets' \in [LimitedHosts -> 0..MaxResets]
    <3>1. \A h \in LimitedHosts : resets[h] < MaxResets => resets[h] + 1 \in 0..MaxResets
      BY <1>h, <1>n
    <3>2. CASE ResetAll
      <4>1. /\ \A h \in LimitedHosts : resets[h] < MaxResets
            /\ resets' = [h \in LimitedHosts |-> resets[h] + 1]
        BY <3>2 DEF ResetAll
      <4> QED
        BY <3>1, <4>1
    <3>3. ASSUME NEW h \in LimitedHosts, Reset(h) PROVE resets' \in [LimitedHosts -> 0..MaxResets]
      <4>1. resets[h] < MaxResets /\ resets' = [resets EXCEPT ![h] = @ + 1]
        BY <3>3 DEF Reset
      <4>2. resets[h] + 1 \in 0..MaxResets
        BY <3>1, <4>1
      <4> QED
        BY <1>m, <4>1, <4>2
    <3> QED
      BY <1>4, <3>2, <3>3
  <2>5. RateTypeOK'
    BY <1>t, <2>1, <2>3, <2>4 DEF RateTypeOK
  <2>6. \A h \in LimitedHosts : buckets'[h] <= made'[h]
    <3>1. \A h \in LimitedHosts : 0 <= made[h]
      BY <1>h
    <3> QED
      BY <2>1, <2>2, <3>1 DEF RateCalls
  <2> QED
    BY <2>1, <2>5, <2>6 DEF RateCalls
<1>5. CASE Tick
  <2>1. now' = now + 1 /\ now < MaxTime /\ UNCHANGED <<buckets, tokens, last, made, caller,
                                                        resets, granted>>
    BY <1>5 DEF Tick
  <2>2. now' \in Times
    BY <1>n, <1>t, <2>1
  <2>3. RateTypeOK'
    BY <1>t, <2>1, <2>2 DEF RateTypeOK
  <2>4. \A h \in LimitedHosts, b \in Numbers : last'[h][b] <= now'
    <3> SUFFICES ASSUME NEW h \in LimitedHosts, NEW b \in Numbers PROVE last'[h][b] <= now'
      OBVIOUS
    <3>1. last[h][b] <= now /\ last'[h][b] = last[h][b] /\ now' = now + 1
      BY <2>1 DEF RateCalls
    <3> QED
      BY <1>l, <3>1
  <2> QED
    BY <2>1, <2>3, <2>4 DEF RateCalls
<1>6. CASE UNCHANGED rateVars
  BY <1>6 DEF rateVars, RateTypeOK, RateCalls
<1> QED
  BY <1>1, <1>2, <1>3, <1>4, <1>5, <1>6 DEF RateNext

\* What was granted to a host in a stretch of time is a number, none after now, and
\* the credits of its buckets are in its account.
LEMMA GrantedNumbers ==
  ASSUME RateTypeOK, RateCalls, NEW h \in LimitedHosts
  PROVE  /\ made[h] \in Nat /\ now \in Nat /\ now \in 0..now
         /\ \A b \in 1..made[h] : b \in Numbers
         /\ \A t \in Times : granted[h][t] \in Nat
         /\ \A t \in 0..now : t \in Times
         /\ \A s, t \in 0..now : GrantedIn(h, s, t) \in Int
<1>1. /\ made[h] \in {0} \cup Numbers /\ now \in Times
      /\ granted[h] \in [Times -> Nat]
  BY DEF RateTypeOK
<1>2. /\ made[h] \in Nat /\ now \in Nat /\ now \in 0..now
      /\ \A b \in 1..made[h] : b \in Numbers
      /\ \A t \in 0..now : t \in Times
  BY <1>1, RateNumbers
<1>3. \A t \in Times : granted[h][t] \in Nat
  BY <1>1
<1>4. ASSUME NEW s \in 0..now, NEW t \in 0..now PROVE GrantedIn(h, s, t) \in Int
  <2>1. granted[h][t] \in Nat
    BY <1>2, <1>3
  <2>2. s # 0 => granted[h][s - 1] \in Nat
    <3>1. s # 0 => s - 1 \in 0..now
      BY <1>2
    <3> QED
      BY <1>2, <1>3, <3>1
  <2> QED
    BY <2>1, <2>2 DEF GrantedIn
<1> QED
  BY <1>2, <1>3, <1>4

\* A host nothing happens to keeps its account and what it was granted.
LEMMA HostStays ==
  ASSUME NEW h, now' = now, granted'[h] = granted[h], made'[h] = made[h],
         \A b \in 1..made[h] : Credit(h, b)' = Credit(h, b),
         Granted(h), HasAccount(h)
  PROVE  Granted(h)' /\ HasAccount(h)'
<1>1. \A s, t : GrantedIn(h, s, t)' = GrantedIn(h, s, t)
  BY DEF GrantedIn
<1>2. Credits(h)' = Credits(h) /\ Given(h)' = Given(h)
  BY <1>1 DEF Credits, Given
<1>3. HasAccount(h)'
  BY <1>2 DEF HasAccount
<1>4. Granted(h)'
  BY <1>1 DEF Granted
<1> QED
  BY <1>3, <1>4

\* A host that gets a bucket.
LEMMA HostGrows ==
  ASSUME RateTypeOK, RateCalls, NEW h \in LimitedHosts,
         now' = now, granted' = granted, made'[h] = made[h] + 1,
         \A b \in 1..made[h] : Credit(h, b)' = Credit(h, b),
         NEW b, b = made[h] + 1, Credit(h, b)' = Burst,
         Granted(h), HasAccount(h)
  PROVE  Granted(h)' /\ HasAccount(h)'
<1>1. \A s, t : GrantedIn(h, s, t)' = GrantedIn(h, s, t)
  BY DEF GrantedIn
<1>2. made[h] \in Nat /\ now \in Nat /\ \A s, t \in 0..now : GrantedIn(h, s, t) \in Int
  BY GrantedNumbers
<1>3. PICK account : Account(made[h], now, Credits(h), Given(h), account)
  BY DEF HasAccount
<1>4. Given(h)' = Given(h)
  BY <1>1 DEF Given
<1>5. /\ Credits(h)'[made[h] + 1] = Burst
      /\ \A j \in 1..made[h] : Credits(h)'[j] = Credits(h)[j]
  <2>1. \A j \in 1..(made[h] + 1) : Credits(h)'[j] = Credit(h, j)'
    BY DEF Credits
  <2>2. b \in 1..(made[h] + 1) /\ \A j \in 1..made[h] : j \in 1..(made[h] + 1)
    BY <1>2
  <2>3. /\ Credits(h)'[b] = Credit(h, b)'
        /\ \A j \in 1..made[h] : Credits(h)'[j] = Credit(h, j)'
    BY <2>1, <2>2, Zenon
  <2>4. \A j \in 1..made[h] : Credits(h)[j] = Credit(h, j)
    BY DEF Credits
  <2> QED
    BY <2>3, <2>4
<1>6. \E new : Account(made[h] + 1, now, Credits(h)', Given(h), new)
  BY <1>2, <1>3, <1>5, AccountGrows, Zenon
<1>7. HasAccount(h)'
  BY <1>4, <1>6 DEF HasAccount
<1>8. ASSUME NEW s \in 0..now, NEW t \in 0..now, s <= t
      PROVE  GrantedIn(h, s, t) <= AtMost(made[h] + 1, t - s)
  <2>0. Burst \in Nat
    BY RateNumbers
  <2>1. t - s \in Nat /\ made[h] + 1 \in Nat
    BY <1>2, <1>8
  <2>2. /\ AtMost(made[h], t - s) \in Nat /\ AtMost(made[h] + 1, t - s) \in Nat
        /\ AtMost(made[h] + 1, t - s) >= AtMost(made[h], t - s) + Burst
    BY <1>2, <2>1, AtMostGrows, Zenon
  <2>3. GrantedIn(h, s, t) <= AtMost(made[h], t - s) /\ GrantedIn(h, s, t) \in Int
    BY <1>2, <1>8 DEF Granted
  <2> QED
    BY <2>0, <2>2, <2>3
<1>9. Granted(h)'
  BY <1>1, <1>8 DEF Granted
<1> QED
  BY <1>7, <1>9

\* A host that is granted a token.
LEMMA HostPays ==
  ASSUME RateTypeOK, RateCalls, NEW h \in LimitedHosts, NEW b \in 1..made[h],
         now' = now, granted'[h] = OneMore(granted[h]), made'[h] = made[h],
         \A j \in 1..made[h] : j # b => Credit(h, j)' = Credit(h, j),
         Credit(h, b) > 0, Credit(h, b)' = Credit(h, b) - 1,
         Granted(h), HasAccount(h)
  PROVE  Granted(h)' /\ HasAccount(h)'
<1>1. /\ made[h] \in Nat /\ now \in Nat /\ now \in 0..now
      /\ \A t \in Times : granted[h][t] \in Nat
      /\ \A t \in 0..now : t \in Times
      /\ \A s, t \in 0..now : GrantedIn(h, s, t) \in Int
  BY GrantedNumbers
<1>2. \A t \in Times : granted'[h][t] = IF t >= now THEN granted[h][t] + 1 ELSE granted[h][t]
  BY DEF OneMore
<1>3. ASSUME NEW s \in 0..now, NEW t \in 0..now, s <= t
      PROVE  GrantedIn(h, s, t)' = IF t = now THEN GrantedIn(h, s, t) + 1 ELSE GrantedIn(h, s, t)
  <2>1. t \in Times /\ granted[h][t] \in Nat /\ t <= now
    BY <1>1
  <2>2. granted'[h][t] = IF t = now THEN granted[h][t] + 1 ELSE granted[h][t]
    BY <1>1, <1>2, <2>1
  <2>3. CASE s = 0
    BY <2>1, <2>2, <2>3 DEF GrantedIn
  <2>4. CASE s # 0
    <3>1. s - 1 \in 0..now /\ ~(s - 1 >= now)
      BY <1>1, <2>4
    <3>2. s - 1 \in Times /\ granted[h][s - 1] \in Nat
      BY <1>1, <3>1
    <3>3. granted'[h][s - 1] = granted[h][s - 1]
      BY <1>2, <3>1, <3>2
    <3> QED
      BY <2>1, <2>2, <2>4, <3>2, <3>3 DEF GrantedIn
  <2> QED
    BY <2>3, <2>4
<1>4. PICK account : Account(made[h], now, Credits(h), Given(h), account)
  BY DEF HasAccount
<1>5. \A s \in 0..now : Given(h)'[s] = Given(h)[s] + 1
  <2> SUFFICES ASSUME NEW s \in 0..now PROVE Given(h)'[s] = Given(h)[s] + 1
    OBVIOUS
  <2>1. s <= now
    BY <1>1
  <2>2. GrantedIn(h, s, now)' = GrantedIn(h, s, now) + 1
    BY <1>1, <1>3, <2>1
  <2>3. Given(h)'[s] = GrantedIn(h, s, now)' /\ Given(h)[s] = GrantedIn(h, s, now)
    BY DEF Given
  <2> QED
    BY <2>2, <2>3
<1>6. /\ Credits(h)[b] > 0 /\ Credits(h)'[b] = Credits(h)[b] - 1
      /\ \A j \in 1..made[h] : j # b => Credits(h)'[j] = Credits(h)[j]
  BY DEF Credits
<1>7. \E new : Account(made[h], now, Credits(h)', Given(h)', new)
  BY <1>1, <1>4, <1>5, <1>6, AccountPays, Zenon
<1>8. HasAccount(h)'
  BY <1>7 DEF HasAccount
<1>9. ASSUME NEW s \in 0..now, NEW t \in 0..now, s <= t
      PROVE  GrantedIn(h, s, t)' <= AtMost(made[h], t - s)
  <2>1. CASE t # now
    BY <1>3, <1>9, <2>1 DEF Granted
  <2>2. CASE t = now
    <3>1. PICK new : Account(made[h], now, Credits(h)', Given(h)', new)
      BY <1>7
    <3>2. new[made[h]] >= 0
      BY <1>1, <3>1, NoDebt, Zenon
    <3>3. /\ Given(h)'[s] \in Int /\ Given(h)'[s] + new[made[h]] <= AtMost(made[h], now - s)
          /\ new[made[h]] \in Int
      <4>1. made[h] \in 0..made[h]
        BY <1>1
      <4> QED
        BY <3>1, <4>1 DEF Account
    <3>4. AtMost(made[h], now - s) \in Nat
      <4>1. now - s \in Nat
        BY <1>1
      <4> QED
        BY <1>1, <4>1, AtMostGrows, Zenon
    <3>5. Given(h)'[s] = GrantedIn(h, s, t)'
      BY <2>2 DEF Given
    <3>6. Given(h)'[s] <= AtMost(made[h], now - s)
      BY <3>2, <3>3, <3>4
    <3> QED
      BY <2>2, <3>5, <3>6
  <2> QED
    BY <2>1, <2>2
<1>10. \A t \in Times : t >= now => granted'[h][t] = granted'[h][now]
  <2> SUFFICES ASSUME NEW t \in Times, t >= now PROVE granted'[h][t] = granted'[h][now]
    OBVIOUS
  <2>1. granted[h][t] = granted[h][now] /\ now \in Times /\ now >= now
    BY <1>1 DEF Granted
  <2> QED
    BY <1>2, <2>1
<1>11. Granted(h)'
  BY <1>9, <1>10 DEF Granted
<1> QED
  BY <1>8, <1>11

\* A host for which time goes on.
LEMMA HostTicks ==
  ASSUME RateTypeOK, RateCalls, NEW h \in LimitedHosts,
         now' = now + 1, now' \in Times, granted' = granted, made' = made,
         \A j \in 1..made[h] : /\ Credit(h, j)' \in Nat
                               /\ Credit(h, j)' <= Credit(h, j) + Rate
                               /\ Credit(h, j)' <= Burst,
         Granted(h), HasAccount(h)
  PROVE  Granted(h)' /\ HasAccount(h)'
<1>1. /\ made[h] \in Nat /\ now \in Nat /\ now \in 0..now
      /\ \A t \in Times : granted[h][t] \in Nat
      /\ \A t \in 0..now : t \in Times
      /\ \A s, t \in 0..now : GrantedIn(h, s, t) \in Int
  BY GrantedNumbers
<1>2. \A s, t : GrantedIn(h, s, t)' = GrantedIn(h, s, t)
  BY DEF GrantedIn
<1>3. granted[h][now + 1] = granted[h][now]
  <2>1. now + 1 \in Times /\ now + 1 >= now
    BY <1>1
  <2> QED
    BY <2>1 DEF Granted
<1>4. GrantedIn(h, now + 1, now + 1) = 0
  <2>1. now + 1 # 0 /\ (now + 1) - 1 = now /\ granted[h][now] \in Nat
    BY <1>1
  <2>2. GrantedIn(h, now + 1, now + 1) = granted[h][now + 1] - granted[h][now]
    BY <2>1 DEF GrantedIn
  <2> QED
    BY <1>3, <2>1, <2>2
<1>5. \A s \in 0..now : GrantedIn(h, s, now + 1) = GrantedIn(h, s, now)
  BY <1>3 DEF GrantedIn
<1>6. PICK account : Account(made[h], now, Credits(h), Given(h), account)
  BY DEF HasAccount
<1>7. /\ \A s \in 0..now : Given(h)'[s] = Given(h)[s]
      /\ Given(h)'[now + 1] = 0
  <2>1. Given(h)' = [s \in 0..(now + 1) |-> GrantedIn(h, s, now + 1)]
    BY <1>2 DEF Given
  <2>2. now + 1 \in 0..(now + 1) /\ \A s \in 0..now : s \in 0..(now + 1)
    BY <1>1
  <2> QED
    BY <1>4, <1>5, <2>1, <2>2 DEF Given
<1>8. \A j \in 1..made[h] : /\ Credits(h)'[j] \in Nat
                            /\ Credits(h)'[j] <= Credits(h)[j] + Rate
                            /\ Credits(h)'[j] <= Burst
  BY DEF Credits
<1>9. \E new : Account(made[h], now + 1, Credits(h)', Given(h)', new)
  BY <1>1, <1>6, <1>7, <1>8, AccountTicks, Zenon
<1>10. HasAccount(h)'
  BY <1>9 DEF HasAccount
<1>11. ASSUME NEW s \in 0..(now + 1), NEW t \in 0..(now + 1), s <= t
       PROVE  GrantedIn(h, s, t) <= AtMost(made[h], t - s)
  <2>1. CASE t \in 0..now
    <3>1. s \in 0..now
      BY <1>1, <1>11, <2>1
    <3> QED
      BY <1>11, <2>1, <3>1 DEF Granted
  <2>2. CASE t = now + 1 /\ s = now + 1
    <3>1. t - s \in Nat
      BY <1>1, <2>2
    <3>2. AtMost(made[h], t - s) \in Nat
      BY <1>1, <3>1, AtMostGrows, Zenon
    <3> QED
      BY <1>4, <2>2, <3>2
  <2>3. CASE t = now + 1 /\ s \in 0..now
    <3> DEFINE d == now - s
    <3>1. d \in Nat /\ t - s = d + 1 /\ s <= now
      BY <1>1, <2>3
    <3>2. GrantedIn(h, s, now) <= AtMost(made[h], d) /\ GrantedIn(h, s, now) \in Int
      BY <1>1, <2>3, <3>1 DEF Granted
    <3> HIDE DEF d
    <3>3. /\ AtMost(made[h], d + 1) = AtMost(made[h], d) + made[h] * Rate
          /\ AtMost(made[h], d) \in Nat /\ made[h] * Rate \in Nat
      BY <1>1, <3>1, AtMostGrows, Zenon
    <3>4. GrantedIn(h, s, t) = GrantedIn(h, s, now)
      BY <1>5, <2>3
    <3>5. GrantedIn(h, s, t) <= AtMost(made[h], d + 1)
      BY <3>2, <3>3, <3>4
    <3> QED
      BY <3>1, <3>5
  <2>4. t \in 0..now \/ t = now + 1
    BY <1>1
  <2>5. s \in 0..now \/ s = now + 1
    BY <1>1
  <2>6. CASE t = now + 1
    BY <2>2, <2>3, <2>5, <2>6
  <2> QED
    BY <2>1, <2>4, <2>6
<1>12. \A t \in Times : t >= now + 1 => granted[h][t] = granted[h][now + 1]
  <2> SUFFICES ASSUME NEW t \in Times, t >= now + 1 PROVE granted[h][t] = granted[h][now + 1]
    OBVIOUS
  <2>1. t >= now
    BY <1>1, RateNumbers
  <2> QED
    BY <1>3, <2>1 DEF Granted
<1>13. Granted(h)'
  BY <1>2, <1>11, <1>12 DEF Granted
<1> QED
  BY <1>10, <1>13

\* A product with a factor that is one greater.
LEMMA OneMoreTime ==
  ASSUME NEW x \in Int, NEW y \in Int
  PROVE  (x + 1) * y = x * y + y /\ x * y \in Int
OBVIOUS

\* A function of functions with one value changed.
With(f, h, b, v) == [f EXCEPT ![h][b] = v]

Put(g, f, h, b, v) ==
  /\ g[h][b] = v
  /\ \A k \in LimitedHosts : k # h => g[k] = f[k]
  /\ \A j \in Numbers : j # b => g[h][j] = f[h][j]

LEMMA WithPuts ==
  ASSUME NEW C, NEW f \in [LimitedHosts -> [Numbers -> C]],
         NEW h \in LimitedHosts, NEW b \in Numbers, NEW v
  PROVE  Put(With(f, h, b, v), f, h, b, v)
<1>1. /\ With(f, h, b, v)[h] = [f[h] EXCEPT ![b] = v]
      /\ \A k \in LimitedHosts : k # h => With(f, h, b, v)[k] = f[k]
  BY DEF With
<1>2. f[h] \in [Numbers -> C]
  OBVIOUS
<1>3. /\ With(f, h, b, v)[h][b] = v
      /\ \A j \in Numbers : j # b => With(f, h, b, v)[h][j] = f[h][j]
  BY <1>1, <1>2
<1> QED
  BY <1>1, <1>3 DEF Put

\* Every step keeps it.
LEMMA RateStays == RateInv /\ [RateNext]_rateVars => RateInv'
<1> SUFFICES ASSUME RateInv, [RateNext]_rateVars PROVE RateInv'
  OBVIOUS
<1>0. /\ RateTypeOK /\ RateCalls /\ RateTypeOK' /\ RateCalls'
      /\ \A h \in LimitedHosts : Granted(h) /\ HasAccount(h)
  BY RateTyped DEF RateInv
<1> SUFFICES ASSUME NEW h \in LimitedHosts PROVE Granted(h)' /\ HasAccount(h)'
  BY <1>0 DEF RateInv
<1>1. /\ tokens \in [LimitedHosts -> [Numbers -> 0..Burst]]
      /\ last \in [LimitedHosts -> [Numbers -> Times]]
      /\ made \in [LimitedHosts -> {0} \cup Numbers]
      /\ granted \in [LimitedHosts -> [Times -> Nat]]
  BY <1>0 DEF RateTypeOK
<1>2. made[h] \in Nat /\ now \in Nat /\ \A b \in 1..made[h] : b \in Numbers
  BY <1>0, GrantedNumbers
<1>s. ASSUME now' = now, granted'[h] = granted[h], made'[h] = made[h],
             tokens'[h] = tokens[h], last'[h] = last[h]
      PROVE  Granted(h)' /\ HasAccount(h)'
  <2>1. \A b \in 1..made[h] : Credit(h, b)' = Credit(h, b)
    BY <1>s DEF Credit, Refilled
  <2> QED
    BY <1>0, <1>s, <2>1, HostStays
<1>3. ASSUME NEW c \in Callers, NEW k \in LimitedHosts, Find(c, k)
      PROVE  Granted(h)' /\ HasAccount(h)'
  BY <1>s, <1>3 DEF Find
<1>4. ASSUME NEW c \in Callers, FindOrMake(c) PROVE Granted(h)' /\ HasAccount(h)'
  <2>0. PICK k \in LimitedHosts : k = caller[c].host
    BY <1>0, <1>4 DEF FindOrMake, RateCalls
  <2>b. PICK b : b = made[k] + 1
    OBVIOUS
  <2>1. CASE UNCHANGED <<tokens, last, made, now, granted>>
    BY <1>s, <2>1
  <2>2. CASE Make(c, k)
    <3>1. /\ b \in Numbers /\ UNCHANGED <<now, granted>>
          /\ tokens' = With(tokens, k, b, Burst)
          /\ last' = With(last, k, b, now)
          /\ made' = [made EXCEPT ![k] = b]
      BY <2>b, <2>2 DEF Make, With
    <3>0. Put(tokens', tokens, k, b, Burst) /\ Put(last', last, k, b, now)
      <4>1. /\ Put(With(tokens, k, b, Burst), tokens, k, b, Burst)
            /\ Put(With(last, k, b, now), last, k, b, now)
        BY <1>1, <3>1, WithPuts
      <4> QED
        BY <3>1, <4>1
    <3>2. CASE h # k
      <4>1. tokens'[h] = tokens[h] /\ last'[h] = last[h] /\ made'[h] = made[h]
        BY <1>1, <3>0, <3>1, <3>2 DEF Put
      <4> QED
        BY <1>s, <3>1, <4>1
    <3>3. CASE h = k
      <4>1. /\ made'[h] = made[h] + 1
            /\ tokens'[h][b] = Burst /\ last'[h][b] = now
        BY <1>1, <2>b, <3>0, <3>1, <3>3 DEF Put
      <4>2. \A j \in 1..made[h] : tokens'[h][j] = tokens[h][j] /\ last'[h][j] = last[h][j]
        <5>1. \A j \in 1..made[h] : j \in Numbers /\ j # b
          BY <1>2, <2>b, <3>3
        <5> QED
          BY <3>0, <3>3, <5>1 DEF Put
      <4>3. \A j \in 1..made[h] : Credit(h, j)' = Credit(h, j)
        BY <3>1, <4>2 DEF Credit, Refilled
      <4>4. Credit(h, b)' = Burst
        <5>1. Rate \in Nat /\ Burst \in Nat
          BY RateNumbers
        <5>2. (now - now) * Rate = 0
          BY <1>2, <5>1
        <5>3. Refilled(h, b)' = Burst
          BY <3>1, <4>1, <5>1, <5>2 DEF Refilled
        <5>4. Min({Burst, Burst}) = Burst
          BY <5>1, MinOfTwo
        <5> QED
          BY <5>3, <5>4 DEF Credit
      <4> QED
        BY <1>0, <2>b, <3>1, <3>3, <4>1, <4>3, <4>4, HostGrows
    <3> QED
      BY <3>2, <3>3
  <2> QED
    BY <1>4, <2>0, <2>1, <2>2 DEF FindOrMake
<1>5. ASSUME NEW c \in Callers, Take(c) PROVE Granted(h)' /\ HasAccount(h)'
  <2>k. PICK k \in LimitedHosts : k = caller[c].host
    BY <1>0, <1>5 DEF Take, RateCalls
  <2>b. PICK b : b = caller[c].bucket
    OBVIOUS
  <2> DEFINE full == Credit(k, b)
  <2>1. b \in 1..made[k] /\ b \in Numbers
    <3>1. b \in 1..made[k]
      BY <1>0, <1>5, <2>k, <2>b DEF Take, RateCalls
    <3> QED
      BY <1>0, <3>1, GrantedNumbers
  <2>2. /\ tokens' = With(tokens, k, b, IF full > 0 THEN full - 1 ELSE 0)
        /\ last' = With(last, k, b, now)
        /\ granted' = IF full > 0 THEN [granted EXCEPT ![k] = OneMore(@)] ELSE granted
        /\ made' = made /\ now' = now
    BY <1>5, <2>k, <2>b DEF Take, With, Credit, Refilled
  <2>3. full \in 0..Burst
    BY <1>0, <2>1, CreditIs
  <2> DEFINE left == IF full > 0 THEN full - 1 ELSE 0
  <2>6. Put(tokens', tokens, k, b, left) /\ Put(last', last, k, b, now)
    <3>1. tokens' = With(tokens, k, b, left)
      BY <2>2
    <3> HIDE DEF left
    <3>2. /\ Put(With(tokens, k, b, left), tokens, k, b, left)
          /\ Put(With(last, k, b, now), last, k, b, now)
      BY <1>1, <2>1, WithPuts
    <3> QED
      BY <2>2, <3>1, <3>2
  <2>7. granted'[k] = IF full > 0 THEN OneMore(granted[k]) ELSE granted[k]
    BY <1>1, <2>1, <2>2
  <2>8. \A i \in LimitedHosts : i # k => granted'[i] = granted[i]
    BY <1>1, <2>1, <2>2
  <2> HIDE DEF left, full
  <2>4. CASE h # k
    <3>1. tokens'[h] = tokens[h] /\ last'[h] = last[h] /\ granted'[h] = granted[h]
      BY <2>4, <2>6, <2>8 DEF Put
    <3> QED
      BY <1>s, <2>2, <3>1
  <2>5. CASE h = k
    <3>1. \A j \in 1..made[h] : j # b => Credit(h, j)' = Credit(h, j)
      <4>1. \A j \in 1..made[h] :
              j # b => tokens'[h][j] = tokens[h][j] /\ last'[h][j] = last[h][j]
        BY <1>2, <2>5, <2>6 DEF Put
      <4> QED
        BY <2>2, <4>1 DEF Credit, Refilled
    <3>2. Credit(h, b)' = IF full > 0 THEN full - 1 ELSE 0
      <4>1. tokens'[h][b] = left /\ last'[h][b] = now
        BY <2>5, <2>6 DEF Put
      <4>2. Rate \in Nat /\ Burst \in Nat
        BY RateNumbers
      <4>3. left \in Nat /\ left <= Burst
        BY <2>3, <4>2 DEF left
      <4>4. (now - now) * Rate = 0
        BY <1>2, <4>2
      <4>5. Refilled(h, b)' = left
        BY <2>2, <4>1, <4>3, <4>4 DEF Refilled
      <4>6. Min({left, Burst}) = left
        BY <4>2, <4>3, MinOfTwo
      <4>7. Credit(h, b)' = left
        BY <4>5, <4>6 DEF Credit
      <4> QED
        BY <4>7 DEF left
    <3>3. CASE full > 0
      <4>1. /\ Credit(h, b) > 0 /\ Credit(h, b)' = Credit(h, b) - 1
            /\ made'[h] = made[h] /\ b \in 1..made[h] /\ now' = now
        BY <2>1, <2>2, <2>5, <3>2, <3>3 DEF full
      <4>2. granted'[h] = OneMore(granted[h])
        BY <2>5, <2>7, <3>3
      <4> QED
        BY <1>0, <3>1, <4>1, <4>2, HostPays
    <3>4. CASE ~(full > 0)
      <4>1. full = 0
        BY <2>3, <3>4, RateNumbers
      <4>2. \A j \in 1..made[h] : Credit(h, j)' = Credit(h, j)
        BY <2>5, <3>1, <3>2, <4>1 DEF full
      <4>3. now' = now /\ granted'[h] = granted[h] /\ made'[h] = made[h]
        BY <2>2, <2>5, <2>7, <3>4
      <4> QED
        BY <1>0, <4>2, <4>3, HostStays
    <3> QED
      BY <3>3, <3>4
  <2> QED
    BY <2>4, <2>5
<1>6. CASE ResetAll \/ \E k \in LimitedHosts : Reset(k)
  BY <1>s, <1>6 DEF ResetAll, Reset
<1>7. CASE Tick
  <2>1. now' = now + 1 /\ UNCHANGED <<tokens, last, made, granted>>
    BY <1>7 DEF Tick
  <2>2. now' \in Times
    BY <1>0 DEF RateTypeOK
  <2>3. ASSUME NEW j \in 1..made[h]
        PROVE  /\ Credit(h, j)' \in Nat
               /\ Credit(h, j)' <= Credit(h, j) + Rate
               /\ Credit(h, j)' <= Burst
    <3>1. j \in Numbers /\ Rate \in Nat /\ Burst \in Nat
      BY <1>2, RateNumbers
    <3>2. /\ Refilled(h, j) \in Nat
          /\ Credit(h, j) = IF Refilled(h, j) <= Burst THEN Refilled(h, j) ELSE Burst
      BY <1>0, <3>1, CreditIs
    <3>3. Refilled(h, j)' = Refilled(h, j) + Rate
      <4>1. tokens[h][j] \in Int /\ now - last[h][j] \in Int
        <5>1. tokens[h] \in [Numbers -> 0..Burst] /\ last[h] \in [Numbers -> Times]
          BY <1>1
        <5>2. tokens[h][j] \in 0..Burst /\ last[h][j] \in Times
          BY <3>1, <5>1
        <5> QED
          BY <1>2, <5>2, RateNumbers
      <4>2. Refilled(h, j)' = tokens[h][j] + ((now + 1) - last[h][j]) * Rate
        <5>1. tokens' = tokens /\ last' = last /\ now' = now + 1
          BY <2>1
        <5> QED
          BY <5>1, Zenon DEF Refilled
      <4> DEFINE d == now - last[h][j]
      <4>3. (now + 1) - last[h][j] = d + 1
        <5>1. last[h][j] \in Times
          BY <1>1, <3>1
        <5>2. last[h][j] \in Int /\ now \in Int
          BY <1>2, <5>1, RateNumbers
        <5>3. \A x, y \in Int : (x + 1) - y = (x - y) + 1
          OBVIOUS
        <5> QED
          BY <5>2, <5>3, Zenon
      <4> HIDE DEF d
      <4>5. d \in Int /\ Rate \in Int /\ Refilled(h, j) = tokens[h][j] + d * Rate
        BY <3>1, <4>1 DEF d, Refilled
      <4>6. (d + 1) * Rate = d * Rate + Rate /\ d * Rate \in Int
        BY <4>5, OneMoreTime, Zenon
      <4> QED
        BY <3>1, <4>1, <4>2, <4>3, <4>5, <4>6
    <3>4. Credit(h, j)' = Min({Refilled(h, j) + Rate, Burst})
      BY <3>3 DEF Credit
    <3>5. Credit(h, j)' = IF Refilled(h, j) + Rate <= Burst THEN Refilled(h, j) + Rate
                                                             ELSE Burst
      <4>1. Refilled(h, j) + Rate \in Int /\ Burst \in Int
        BY <3>1, <3>2
      <4> QED
        BY <3>4, <4>1, MinOfTwo
    <3> QED
      BY <3>1, <3>2, <3>5
  <2> QED
    BY <1>0, <2>1, <2>2, <2>3, HostTicks
<1>8. CASE UNCHANGED rateVars
  BY <1>s, <1>8 DEF rateVars
<1> QED
  BY <1>3, <1>4, <1>5, <1>6, <1>7, <1>8 DEF RateNext

\* The bound grows with the buckets and the time.
LEMMA AtMostLess ==
  ASSUME NEW m \in Nat, NEW n \in Nat, m <= n, NEW d \in Nat, NEW e \in Nat, d <= e
  PROVE  AtMost(m, d) \in Nat /\ AtMost(n, e) \in Nat /\ AtMost(m, d) <= AtMost(n, e)
<1>1. Rate \in Nat /\ Burst \in Nat
  BY RateNumbers
<1>2. d * Rate <= e * Rate /\ d * Rate \in Nat /\ e * Rate \in Nat
  BY <1>1, ProductGrows
<1> DEFINE x == Burst + d * Rate
           y == Burst + e * Rate
<1>3. x \in Nat /\ y \in Nat /\ x <= y
  BY <1>1, <1>2
<1> HIDE DEF x, y
<1>4. m * x <= n * x /\ m * x \in Nat /\ n * x \in Nat
  BY <1>3, ProductGrows
<1>5. x * n <= y * n /\ y * n \in Nat
  BY <1>3, ProductGrows
<1>6. x * n = n * x /\ y * n = n * y
  BY <1>3
<1>7. m * x \in Nat /\ n * y \in Nat /\ m * x <= n * y
  BY <1>4, <1>5, <1>6
<1> QED
  BY <1>7 DEF AtMost, x, y

\* At the start there are no buckets and nothing was granted.
LEMMA RateStarts == RateInit => RateInv
<1> SUFFICES ASSUME RateInit PROVE RateInv
  OBVIOUS
<1>1. /\ Rate \in Nat /\ Burst \in Nat /\ MaxTime \in Nat /\ MaxResets \in Nat
      /\ Times = 0..MaxTime /\ Numbers = 1..(1 + MaxResets)
  BY RateNumbers
<1>2. 0 \in 0..Burst /\ 0 \in Times /\ 0 \in 0..MaxResets /\ now = 0
  BY <1>1 DEF RateInit
<1>3. RateTypeOK
  <2>1. Waiting \in [at : {"idle", "make", "take"}, host : LimitedHosts \cup {NoBucket},
                     bucket : {0} \cup Numbers]
    BY DEF Waiting
  <2>2. /\ tokens \in [LimitedHosts -> [Numbers -> 0..Burst]]
        /\ last \in [LimitedHosts -> [Numbers -> Times]]
    BY <1>2 DEF RateInit
  <2>3. resets \in [LimitedHosts -> 0..MaxResets] /\ granted \in [LimitedHosts -> [Times -> Nat]]
    BY <1>2 DEF RateInit
  <2> QED
    BY <1>2, <2>1, <2>2, <2>3 DEF RateInit, RateTypeOK
<1>4. RateCalls
  <2>1. \A c \in Callers : caller[c].at = "idle"
    BY DEF RateInit, Waiting
  <2>2. /\ \A h \in LimitedHosts : buckets[h] = 0 /\ made[h] = 0
        /\ \A h \in LimitedHosts, b \in Numbers : last[h][b] = 0
    BY DEF RateInit
  <2> QED
    BY <1>2, <2>1, <2>2 DEF RateCalls
<1>5. ASSUME NEW h \in LimitedHosts PROVE Granted(h) /\ HasAccount(h)
  <2>1. made[h] = 0 /\ \A t \in Times : granted[h][t] = 0
    BY DEF RateInit
  <2>2. \A s, t \in 0..0 : GrantedIn(h, s, t) = 0
    <3>1. GrantedIn(h, 0, 0) = 0
      BY <1>2, <2>1 DEF GrantedIn
    <3> QED
      BY <3>1
  <2>3. AtMost(0, 0) = 0
    BY <1>1, AtMostGrows
  <2>4. \A s, t \in 0..0 : t - s = 0
    OBVIOUS
  <2>5. Granted(h)
    BY <1>2, <2>1, <2>2, <2>3, <2>4 DEF Granted
  <2> DEFINE account == [j \in 0..0 |-> 0]
  <2>6. \A s \in 0..0 : Given(h)[s] = 0
    BY <1>2, <2>2 DEF Given
  <2>7. account[0] = 0
    OBVIOUS
  <2> HIDE DEF account
  <2>8. Account(0, 0, Credits(h), Given(h), account)
    BY <2>3, <2>4, <2>6, <2>7 DEF Account
  <2>9. HasAccount(h)
    BY <1>2, <2>1, <2>8 DEF HasAccount
  <2> QED
    BY <2>5, <2>9
<1> QED
  BY <1>3, <1>4, <1>5 DEF RateInv

\* The accounts, and the count of buckets, bound what is granted.
LEMMA AccountsBound ==
  ASSUME RateInv, OneBucketPerReset
  PROVE  GrantsWithinRate
<1> SUFFICES ASSUME NEW h \in LimitedHosts, NEW s \in Times, NEW t \in Times, s <= t
             PROVE  GrantedIn(h, s, t) <= AtMost(1 + resets[h], t - s)
  BY DEF GrantsWithinRate, AtMost
<1>1. /\ made[h] \in Nat /\ now \in Nat /\ now \in Times
      /\ \A x \in Times : granted[h][x] \in Nat
      /\ \A x, y \in 0..now : GrantedIn(h, x, y) \in Int
  BY GrantedNumbers DEF RateInv, RateTypeOK
<1>2. resets[h] \in Nat /\ made[h] <= 1 + resets[h]
  BY RateNumbers DEF RateInv, RateTypeOK, OneBucketPerReset
<1>3. s \in Nat /\ t \in Nat /\ t - s \in Nat /\ 1 + resets[h] \in Nat
  BY <1>2, RateNumbers
<1>4. /\ \A x \in Times : x >= now => granted[h][x] = granted[h][now]
      /\ \A x, y \in 0..now : x <= y => GrantedIn(h, x, y) <= AtMost(made[h], y - x)
  BY DEF RateInv, Granted
<1>5. CASE t <= now
  <2>1. s \in 0..now /\ t \in 0..now
    BY <1>1, <1>3, <1>5
  <2>2. GrantedIn(h, s, t) <= AtMost(made[h], t - s) /\ GrantedIn(h, s, t) \in Int
    BY <1>1, <1>4, <2>1
  <2>3. /\ AtMost(made[h], t - s) \in Nat /\ AtMost(1 + resets[h], t - s) \in Nat
        /\ AtMost(made[h], t - s) <= AtMost(1 + resets[h], t - s)
    <3>1. t - s <= t - s
      BY <1>3
    <3> QED
      BY <1>1, <1>2, <1>3, <3>1, AtMostLess, Zenon
  <2> QED
    BY <2>2, <2>3
<1>6. CASE t > now /\ s <= now
  <2>1. s \in 0..now /\ now \in 0..now /\ now - s \in Nat /\ now - s <= t - s /\ t >= now
    BY <1>1, <1>3, <1>6
  <2>2. GrantedIn(h, s, now) <= AtMost(made[h], now - s) /\ GrantedIn(h, s, now) \in Int
    BY <1>1, <1>4, <1>6, <2>1
  <2>3. /\ AtMost(made[h], now - s) \in Nat /\ AtMost(1 + resets[h], t - s) \in Nat
        /\ AtMost(made[h], now - s) <= AtMost(1 + resets[h], t - s)
    BY <1>1, <1>2, <1>3, <2>1, AtMostLess, Zenon
  <2>4. granted[h][t] = granted[h][now]
    BY <1>4, <2>1
  <2>5. GrantedIn(h, s, t) = GrantedIn(h, s, now)
    BY <2>4 DEF GrantedIn
  <2> QED
    BY <2>2, <2>3, <2>5
<1>7. CASE s > now
  <2>1. s # 0 /\ s - 1 \in Times /\ s - 1 >= now /\ t >= now
    BY <1>1, <1>3, <1>7, RateNumbers
  <2>2. granted[h][t] = granted[h][s - 1] /\ granted[h][t] \in Nat
    BY <1>1, <1>4, <2>1
  <2>3. GrantedIn(h, s, t) = granted[h][t] - granted[h][s - 1]
    BY <2>1 DEF GrantedIn
  <2>4. AtMost(1 + resets[h], t - s) \in Nat
    BY <1>3, AtMostGrows
  <2> QED
    BY <2>2, <2>3, <2>4
<1> QED
  BY <1>1, <1>3, <1>5, <1>6, <1>7

\* Buckets, calls and counts stay of their kinds, for any number of hosts, calls and
\* resets, and no bucket has more than Burst tokens.
THEOREM RateTypeCorrect == RateSpec => []RateTypeOK
<1>1. RateInv /\ [RateNext]_rateVars => RateInv'
  BY RateStays
<1>2. RateInv => RateTypeOK
  BY DEF RateInv
<1> QED
  BY <1>1, <1>2, RateStarts, PTL DEF RateSpec

\* In every stretch of time a host is granted no more than a full bucket and what is
\* refilled meanwhile, and each reset at most doubles that: calls that raced with the
\* reset, or waited for a bucket's lock while time went on, included. It holds for any
\* number of hosts and calls, and for any rate and burst.
THEOREM GrantsKeepRate == RateSpec => []GrantsWithinRate
<1>1. RateInv /\ [RateNext]_rateVars => RateInv'
  BY RateStays
<1>2. RateInv /\ OneBucketPerReset => GrantsWithinRate
  BY AccountsBound
<1> QED
  BY <1>1, <1>2, RateStarts, OneBucket, PTL DEF RateSpec
----------------------------------------------------------------------------
(* ScanCommand. What is allowed comes from decisions about the targets,    *)
(* and a switch that has been on since the policy was checked has let no   *)
(* target through.                                                         *)

AllowedInv ==
  /\ targets \in Seq(ScanTargets)
  /\ answer \in Seq([host : Hosts, allowed : BOOLEAN])
  /\ \A i \in DOMAIN answer : answer[i].allowed => answer[i].host \in Allowable
  /\ at \in {"ask", "filter", "policy"} => kept = {}
  /\ OnlyAllowedAreUsed

\* A list is a sequence.
LEMMA ListsAreSequences == \A S, T : S \subseteq T => SomeOf(S) \subseteq Seq(T)
<1> SUFFICES ASSUME NEW S, NEW T, S \subseteq T, NEW n \in 0..MaxListed, NEW s \in [1..n -> S]
             PROVE  s \in Seq(T)
  BY DEF SomeOf
<1>1. n \in Nat
  BY ScanAssumption
<1>2. s \in [1..n -> T]
  OBVIOUS
<1> QED
  BY <1>1, <1>2

\* Every step keeps the targets allowed.
LEMMA AllowedStay == AllowedInv /\ [ScanNext]_scanVars => AllowedInv'
<1> SUFFICES ASSUME AllowedInv, [ScanNext]_scanVars PROVE AllowedInv'
  OBVIOUS
<1>1. CASE Ask
  <2>1. CASE UNCHANGED answer
    BY <1>1, <2>1 DEF Ask, GoesTo, AllowedInv, OnlyAllowedAreUsed, Sifts
  <2>2. CASE answer' \in SomeOf(Decisions)
    <3>1. answer' \in Seq(Decisions)
      BY <2>2, ListsAreSequences
    <3>2. \A i \in DOMAIN answer' : answer'[i] \in Decisions
      BY <3>1
    <3>3. answer' \in Seq([host : Hosts, allowed : BOOLEAN])
      <4>1. Decisions \subseteq [host : Hosts, allowed : BOOLEAN]
        BY DEF Decisions
      <4> QED
        BY <2>2, <4>1, ListsAreSequences
    <3>4. \A i \in DOMAIN answer' : answer'[i].allowed => answer'[i].host \in Allowable
      BY <3>2 DEF Decisions
    <3> QED
      BY <1>1, <3>3, <3>4 DEF Ask, AllowedInv, OnlyAllowedAreUsed, Sifts
  <2> QED
    BY <1>1, <2>1, <2>2 DEF Ask
<1>2. CASE Filter
  <2> DEFINE yes == {i \in DOMAIN answer : answer[i].allowed}
  <2>1. CASE Aligned
    <3>1. DOMAIN answer = DOMAIN targets
      BY <2>1 DEF Aligned, AllowedInv
    <3>2. \A i \in yes : answer[i].host \in Allowable \cap Range(targets)
      BY <2>1, <3>1 DEF Aligned, AllowedInv, Range
    <3> QED
      BY <1>2, <3>2 DEF Filter, GoesTo, AllowedInv, OnlyAllowedAreUsed, Sifts
  <2>2. CASE ~Aligned
    BY <1>2, <2>2 DEF Filter, GoesTo, AllowedInv, OnlyAllowedAreUsed, Sifts
  <2> QED
    BY <2>1, <2>2
<1>3. ASSUME NEW h \in Hosts, Sift(h) PROVE AllowedInv'
  BY <1>3 DEF Sift, ServerAllows, AllowedInv, OnlyAllowedAreUsed, Sifts
<1>4. CASE Keep
  BY <1>4 DEF Keep, GoesTo, AllowedInv, OnlyAllowedAreUsed, Sifts
<1>5. ASSUME CheckPolicy \/ Run \/ ScanEnds \/ (\E h \in Hosts : Recheck(h)) \/ TimeIsOver
               \/ TurnSwitch \/ UNCHANGED scanVars
      PROVE  AllowedInv'
  BY <1>5 DEF CheckPolicy, Run, ScanEnds, Recheck, TimeIsOver, TurnSwitch, scanVars,
              GoesTo, AllowedInv, OnlyAllowedAreUsed, Sifts
<1> QED
  BY <1>1, <1>2, <1>3, <1>4, <1>5 DEF ScanNext

\* What is scanned was allowed under its own name, and so was what recon without the
\* proxy lists as found and records, for any targets, lists of any length and any answer
\* of the server. The raw output it prints is another matter (PrintedAreAllowed).
THEOREM ScansStayAllowed == ScanSpec => []OnlyAllowedAreUsed
<1>1. ScanInit => AllowedInv
  <2> SUFFICES ASSUME ScanInit PROVE AllowedInv
    OBVIOUS
  <2>1. targets \in Seq(ScanTargets)
    BY ListsAreSequences DEF ScanInit, ExtractedTargets
  <2> QED
    BY <2>1 DEF ScanInit, AllowedInv, OnlyAllowedAreUsed
<1>2. AllowedInv /\ [ScanNext]_scanVars => AllowedInv'
  BY AllowedStay
<1>3. AllowedInv => OnlyAllowedAreUsed
  BY DEF AllowedInv
<1> QED
  BY <1>1, <1>2, <1>3, PTL DEF ScanSpec

SwitchInv ==
  /\ stayedOn => switchOn
  /\ at \in {"ask", "filter", "policy"} => inScope = {}
  /\ at = "recheck" /\ stayedOn => inScope = {}

\* Every step keeps the targets blocked while the switch stays on.
LEMMA SwitchStays == SwitchInv /\ [ScanNext]_scanVars => SwitchInv'
BY DEF SwitchInv, ScanNext, Ask, Filter, CheckPolicy, Run, ScanEnds, Keep, Recheck, Sift,
       ServerAllows, TimeIsOver, TurnSwitch, scanVars, GoesTo

\* A kill switch that is turned on before the adapter checks its targets, and stays on,
\* stops the scan, for any targets.
THEOREM SwitchedOffScans == ScanSpec => SwitchStopsTheScan
<1>1. ScanInit => SwitchInv
  BY DEF ScanInit, SwitchInv
<1>2. SwitchInv /\ [ScanNext]_scanVars => SwitchInv'
  BY SwitchStays
<1>3. SwitchInv /\ [ScanNext]_scanVars
        => [at = "recheck" /\ at' = "running" => ~stayedOn]_scanVars
  BY DEF SwitchInv, ScanNext, Ask, Filter, CheckPolicy, Run, ScanEnds, Keep, Recheck, Sift,
         TimeIsOver, TurnSwitch, GoesTo
<1> QED
  BY <1>1, <1>2, <1>3, PTL DEF ScanSpec, SwitchStopsTheScan
----------------------------------------------------------------------------
(* ScopeRules. A valid rule, other than cidr, names a host, which loses    *)
(* its only dot; so does a host asked about, and they are compared equal.  *)

ScopeInv == Loaded => program \in Programs /\ ProgramValid(program)

\* A host with at most one dot is normal without it, however often it is normalized.
LEMMA NormalHosts ==
  \A labels : \A dots \in {0, 1} :
    Normal(Host(labels, dots)) = Host(labels, 0) /\ Normal(Host(labels, 0)) = Host(labels, 0)
BY DEF Normal, Host

\* Hosts are equal that have the same labels and dots.
LEMMA SameHosts ==
  \A m, n, d, e : /\ Host(m, d) = Host(n, e) <=> m = n /\ d = e
                  /\ Host(m, d).labels = m /\ Host(m, d).dots = d
BY DEF Host

\* The host of a valid rule.
LEMMA RuleHosts ==
  ASSUME NEW r \in Rules, RuleValid(r), r.type # "cidr"
  PROVE  /\ r.type \in {"exact_host", "wildcard_host", "path_prefix"}
         /\ r.host.labels # << >>
         /\ Normal(r.host) = Host(r.host.labels, 0)
<1>1. r.type \in {"exact_host", "wildcard_host", "path_prefix"} /\ r.host # NoHost
  BY DEF RuleValid
<1>2. \E n \in RuleNames, d \in {0, 1} : r.host = Host(n, d)
  BY <1>1 DEF Rules
<1>3. << >> \notin RuleNames
  BY ScopeAssumption
<1> QED
  BY <1>1, <1>2, <1>3, NormalHosts, SameHosts

\* The engine's comparison with a normal host is what the rule covers by its labels.
LEMMA MatchesCover ==
  ASSUME NEW r \in Rules, RuleValid(r), NEW m, NEW d
  PROVE  MatchHostRule(r, Host(m, 0)) <=> Covers(r, Host(m, d))
<1>1. CASE r.type = "cidr"
  BY <1>1 DEF MatchHostRule, Covers
<1>2. CASE r.type \in {"exact_host", "path_prefix"}
  <2>1. Normal(r.host) = Host(r.host.labels, 0)
    BY <1>2, RuleHosts
  <2>2. MatchHostRule(r, Host(m, 0)) <=> Host(m, 0) = Normal(r.host)
    BY <1>2 DEF MatchHostRule
  <2>3. Covers(r, Host(m, d)) <=> Host(m, d).labels = r.host.labels
    BY <1>2 DEF Covers
  <2> QED
    BY <2>1, <2>2, <2>3, SameHosts
<1>3. CASE r.type = "wildcard_host"
  <2>1. Normal(r.host) = Host(r.host.labels, 0)
    BY <1>3, RuleHosts
  <2>2. Normal(Host(m, 0)) = Host(m, 0)
    BY NormalHosts
  <2>3. MatchHostRule(r, Host(m, 0)) <=> MatchWildcard(r, Host(m, 0))
    BY <1>3 DEF MatchHostRule
  <2>4. MatchWildcard(r, Host(m, 0))
          <=> IsSuffix(r.host.labels, m) /\ (r.host.labels = m => r.apex)
    BY <2>1, <2>2, SameHosts DEF MatchWildcard
  <2>5. Covers(r, Host(m, d))
          <=> IsSuffix(r.host.labels, m) /\ (m = r.host.labels => r.apex)
    BY <1>3, SameHosts DEF Covers
  <2> QED
    BY <2>3, <2>4, <2>5
<1> QED
  BY <1>1, <1>2, <1>3, RuleHosts

\* The loaded configuration stays as it was loaded.
LEMMA ScopeStays == ScopeSpec => []ScopeInv
<1>1. ScopeInit => ScopeInv
  BY DEF ScopeInit, ScopeInv, Loaded
<1>2. ScopeInv /\ [ScopeNext]_program => ScopeInv'
  BY DEF ScopeInv, ScopeNext, LoadProgram, Loaded, ProgramValid, RuleValid
<1> QED
  BY <1>1, <1>2, PTL DEF ScopeSpec

\* What the engine and the proxy's look at excluded paths decide about a URL whose host
\* has at most one dot, in the words of the rules.
LEMMA EngineDecides ==
  ASSUME ScopeInv, Loaded, NEW u \in URLs, u.host.dots <= 1
  PROVE  /\ Normal(u.host) = Host(u.host.labels, 0)
         /\ Normal(Normal(u.host)) = Normal(u.host)
         /\ IsHostInScope(program, u.host) <=> IsHostInScope(program, Normal(u.host))
         /\ IsHostInScope(program, u.host)
              <=> /\ \E r \in program.include : Covers(r, u.host)
                  /\ ~\E r \in program.exclude : r.type # "path_prefix" /\ Covers(r, u.host)
         /\ CheckPathExclusion(program, Normal(u.host), u.path)
              <=> \E r \in program.exclude : /\ r.type = "path_prefix" /\ Covers(r, u.host)
                                             /\ IsPrefix(r.prefix, u.path)
<1> DEFINE m == u.host.labels
<1>1. \E n \in ScopeNames : \E d \in {0, 1} : u.host = Host(n, d)
  <2>1. PICK n \in ScopeNames, d \in 0..MaxDots : u.host = Host(n, d)
    BY DEF URLs
  <2>2. d \in {0, 1}
    BY <2>1, SameHosts, ScopeAssumption
  <2> QED
    BY <2>1, <2>2
<1>2. /\ u.host = Host(m, u.host.dots) /\ m # << >>
      /\ Normal(u.host) = Host(m, 0) /\ Normal(Host(m, 0)) = Host(m, 0)
  <2>1. << >> \notin ScopeNames
    BY ScopeAssumption
  <2> QED
    BY <1>1, <2>1, NormalHosts, SameHosts
<1>3. \A r \in program.include \cup program.exclude : r \in Rules /\ RuleValid(r)
  <2>1. program.include \in RuleLists /\ program.exclude \in RuleLists
    BY DEF ScopeInv, Programs
  <2> QED
    BY <2>1, ScopeAssumption DEF ScopeInv, ProgramValid
<1>4. \A r \in program.include \cup program.exclude :
        MatchHostRule(r, Host(m, 0)) <=> Covers(r, u.host)
  BY <1>2, <1>3, MatchesCover
<1>5. Host(m, 0) # NoHost
  BY <1>2, SameHosts DEF NoHost
<1>6. /\ IsHostInScope(program, u.host)
           <=> /\ \E r \in program.include : Covers(r, u.host)
               /\ ~\E r \in program.exclude : r.type # "path_prefix" /\ Covers(r, u.host)
      /\ IsHostInScope(program, Host(m, 0)) <=> IsHostInScope(program, u.host)
  BY <1>2, <1>4, <1>5 DEF IsHostInScope
<1>7. \A r \in program.exclude : r.type = "path_prefix" =>
        /\ Normal(r.host) # NoHost
        /\ Host(m, 0) = Normal(r.host) <=> Covers(r, u.host)
  <2> SUFFICES ASSUME NEW r \in program.exclude, r.type = "path_prefix"
               PROVE  /\ Normal(r.host) # NoHost
                      /\ Host(m, 0) = Normal(r.host) <=> Covers(r, u.host)
    OBVIOUS
  <2>1. Normal(r.host) = Host(r.host.labels, 0) /\ r.host.labels # << >>
    BY <1>3, RuleHosts
  <2>2. MatchHostRule(r, Host(m, 0)) <=> Host(m, 0) = Normal(r.host)
    BY DEF MatchHostRule
  <2> QED
    BY <1>4, <2>1, <2>2, SameHosts DEF NoHost
<1>8. CheckPathExclusion(program, Host(m, 0), u.path)
        <=> \E r \in program.exclude : /\ r.type = "path_prefix" /\ Covers(r, u.host)
                                       /\ IsPrefix(r.prefix, u.path)
  BY <1>7 DEF CheckPathExclusion
<1> QED
  BY <1>2, <1>6, <1>8

\* The proxy, with the schemes and ports NewProxy gives it (proxy.go:131), follows the
\* rules, for any names, paths, prefixes, lists of rules and limits.
THEOREM RulesDecide == ScopeSpec => []ProxyFollowsTheRules
<1>1. ScopeInv => ProxyFollowsTheRules
  <2> SUFFICES ASSUME ScopeInv, Loaded, NEW u \in URLs, u.host.dots <= 1
               PROVE  ProxyAdmits(program, u)
                        <=> /\ ValidateScheme(program, u) /\ ValidatePort(program, u)
                            /\ Authorised(program, u)
    BY DEF ProxyFollowsTheRules
  <2>1. IsHostInScope(program, Normal(u.host))
          /\ ~CheckPathExclusion(program, Normal(u.host), u.path)
            <=> Authorised(program, u)
    BY EngineDecides DEF Authorised
  <2> QED
    BY <2>1 DEF ProxyAdmits
<1> QED
  BY <1>1, ScopeStays, PTL

\* CheckURL and the proxy agree, for the same, and so do `check` and `queue add` wherever
\* some scheme and port are listed.
THEOREM AllAsk == ScopeSpec => []DoorsAgree
<1>1. ScopeInv => DoorsAgree
  <2> SUFFICES ASSUME ScopeInv, Loaded PROVE DoorsAgree
    BY DEF DoorsAgree
  <2> DEFINE dots == IF \E r \in program.exclude : r.type = "path_prefix" THEN 0 ELSE 1
             OneDot(u) == u.host.dots <= 1
  <2>1. ASSUME NEW u \in URLs, u.host.dots <= 1, CheckURLAdmits(program, u)
        PROVE  ProxyAdmits(program, u)
    BY <2>1, EngineDecides DEF CheckURLAdmits, IsURLInScope, ProxyAdmits
  <2>2. ASSUME NEW u \in URLs, u.host.dots <= dots
        PROVE  /\ CheckURLAdmits(program, u) <=> ProxyAdmits(program, u)
               /\ CheckCommand(program, u) <=> Limited(program) /\ ProxyAdmits(program, u)
               /\ ScopeValidator(program, u) <=> Limited(program) /\ ProxyAdmits(program, u)
               /\ ProxyAdmits(program, u) => ValidateHosts(program, u.host)
    <3>1. PICK d \in 0..MaxDots : u.host.dots = d
      BY SameHosts DEF URLs
    <3>2. u.host.dots <= 1
      BY <2>2, <3>1, ScopeAssumption
    <3>3. ValidateScheme(program, u) <=> u.scheme \in ProxySchemes(program)
      BY DEF ValidateScheme
    <3>4. ValidatePort(program, u)
            <=> PortValid(u) /\ PortOf(u) \in ProxyPorts(program)
      BY DEF ValidatePort
    <3>5. (\E r \in program.exclude : /\ r.type = "path_prefix" /\ MatchHostRule(r, u.host)
                                      /\ IsPrefix(r.prefix, u.path))
            <=> CheckPathExclusion(program, Normal(u.host), u.path)
      <4>1. CASE \E r \in program.exclude : r.type = "path_prefix"
        <5>1. u.host.dots = 0
          BY <2>2, <3>1, <4>1, ScopeAssumption
        <5>2. u.host = Normal(u.host)
          <6>1. \E n \in ScopeNames : \E e \in 0..MaxDots : u.host = Host(n, e)
            BY DEF URLs
          <6> QED
            BY <5>1, <6>1, SameHosts, NormalHosts
        <5>3. \A r \in program.exclude : r.type = "path_prefix" =>
                (MatchHostRule(r, u.host) <=> Covers(r, u.host))
          <6>1. Normal(u.host) = Host(u.host.labels, 0) /\ u.host = Host(u.host.labels, 0)
            BY <3>2, <5>2, EngineDecides
          <6>2. \A r \in program.exclude : r \in Rules /\ RuleValid(r)
            BY ScopeAssumption DEF ScopeInv, Programs, ProgramValid
          <6> QED
            BY <6>1, <6>2, MatchesCover
        <5> QED
          BY <3>2, <5>3, EngineDecides
      <4>2. CASE ~\E r \in program.exclude : r.type = "path_prefix"
        BY <4>2 DEF CheckPathExclusion
      <4> QED
        BY <4>1, <4>2
    <3>6. IsHostInScope(program, u.host) <=> IsHostInScope(program, Normal(u.host))
      BY <3>2, EngineDecides
    <3>7. IsURLInScope(program, u, ProxySchemes(program), ProxyPorts(program))
            <=> ProxyAdmits(program, u)
      BY <3>3, <3>4, <3>5, <3>6 DEF IsURLInScope, ProxyAdmits
    <3>9. IsURLInScope(program, u, Schemes(program), AllowedPorts(program))
            <=> Limited(program) /\ ProxyAdmits(program, u)
      <4>1. Limited(program) => /\ Schemes(program) = ProxySchemes(program)
                                /\ AllowedPorts(program) = ProxyPorts(program)
        BY DEF Limited, ProxySchemes, ProxyPorts
      <4>2. ~Limited(program)
              => ~IsURLInScope(program, u, Schemes(program), AllowedPorts(program))
        BY DEF Limited, IsURLInScope
      <4> QED
        BY <3>7, <4>1, <4>2
    <3>8. ProxyAdmits(program, u) => /\ ValidateScheme(program, u)
                                     /\ ValidatePort(program, u)
                                     /\ IsHostInScope(program, u.host)
                                     /\ ~CheckPathExclusion(program, Normal(u.host), u.path)
      BY <3>6 DEF ProxyAdmits
    <3> QED
      BY <3>7, <3>8, <3>9 DEF CheckCommand, ScopeValidator, CheckURLAdmits, ValidateHosts
  <2> QED
    BY <2>1, <2>2 DEF DoorsAgree
<1> QED
  BY <1>1, ScopeStays, PTL
----------------------------------------------------------------------------
(* Normalize, paths. What cleanPath has kept of the first n segments are   *)
(* those that stay if the path ends there, at the places idx lists.        *)

\* Stays, in a path that ends with segment n.
StaysUpTo(p, i, n) ==
  /\ p[i] \in Segments
  /\ \A j \in i + 1..n : Back(p, i + 1, j) <= Ordinary(p, i + 1, j)

\* The a-th of the m segments that are kept is the one at idx[a]; the segments after
\* it have that many more ordinary ones than ".." as are kept after it.
Kept(p, n, cleaned, m, idx) ==
  /\ m \in 0..n /\ idx \in [1..m -> 1..n]
  /\ cleaned \in Seq(Segments) /\ Len(cleaned) = m
  /\ \A a, b \in 1..m : a < b => idx[a] < idx[b]
  /\ \A i \in 1..n : StaysUpTo(p, i, n) <=> \E a \in 1..m : idx[a] = i
  /\ \A a \in 1..m :
       /\ cleaned[a] = p[idx[a]]
       /\ Ordinary(p, idx[a] + 1, n) = Back(p, idx[a] + 1, n) + (m - a)

\* The numbers of a set between i and n, and one more.
LEMMA OneMoreCounted ==
  ASSUME NEW P, NEW i \in Nat, NEW n \in Nat, i <= n + 1
  PROVE  /\ Cardinality({k \in i..n : k \in P}) \in Nat
         /\ Cardinality({k \in i..(n + 1) : k \in P})
              = IF n + 1 \in P THEN Cardinality({k \in i..n : k \in P}) + 1
                               ELSE Cardinality({k \in i..n : k \in P})
<1> DEFINE C == {k \in i..n : k \in P}
<1>1. IsFiniteSet(C)
  <2>1. IsFiniteSet(i..n)
    BY FS_Interval
  <2>2. C \subseteq i..n
    OBVIOUS
  <2> QED
    BY <2>1, <2>2, FS_Subset
<1>2. n + 1 \notin C
  OBVIOUS
<1>3. {k \in i..(n + 1) : k \in P} = IF n + 1 \in P THEN C \cup {n + 1} ELSE C
  OBVIOUS
<1> HIDE DEF C
<1>4. Cardinality(C) \in Nat /\ Cardinality(C \cup {n + 1}) = Cardinality(C) + 1
  BY <1>1, <1>2, FS_CardinalityType, FS_AddElement
<1>5. Cardinality({k \in i..(n + 1) : k \in P})
        = IF n + 1 \in P THEN Cardinality(C) + 1 ELSE Cardinality(C)
  BY <1>3, <1>4
<1> QED
  BY <1>4, <1>5 DEF C

\* The same for the segments of a path.
LEMMA SegmentsCounted ==
  ASSUME NEW p, NEW i \in Nat, NEW n \in Nat, i <= n + 1
  PROVE  /\ Ordinary(p, i, n) \in Nat /\ Back(p, i, n) \in Nat
         /\ Ordinary(p, i, n + 1) = IF p[n + 1] \in Segments THEN Ordinary(p, i, n) + 1
                                                             ELSE Ordinary(p, i, n)
         /\ Back(p, i, n + 1) = IF p[n + 1] = ".." THEN Back(p, i, n) + 1 ELSE Back(p, i, n)
<1> DEFINE O == {k \in Nat : p[k] \in Segments}
           B == {k \in Nat : p[k] = ".."}
<1>1. /\ n + 1 \in O <=> p[n + 1] \in Segments
      /\ n + 1 \in B <=> p[n + 1] = ".."
  OBVIOUS
<1>2. \A m \in Nat : /\ {k \in i..m : p[k] \in Segments} = {k \in i..m : k \in O}
                     /\ {k \in i..m : p[k] = ".."} = {k \in i..m : k \in B}
  OBVIOUS
<1> HIDE DEF O, B
<1>3. \A m \in Nat : /\ Ordinary(p, i, m) = Cardinality({k \in i..m : k \in O})
                     /\ Back(p, i, m) = Cardinality({k \in i..m : k \in B})
  BY <1>2 DEF Ordinary, Back
<1>4. n + 1 \in Nat
  OBVIOUS
<1>5. /\ Cardinality({k \in i..n : k \in O}) \in Nat
      /\ Cardinality({k \in i..(n + 1) : k \in O})
           = IF n + 1 \in O THEN Cardinality({k \in i..n : k \in O}) + 1
                            ELSE Cardinality({k \in i..n : k \in O})
  BY OneMoreCounted
<1>6. /\ Cardinality({k \in i..n : k \in B}) \in Nat
      /\ Cardinality({k \in i..(n + 1) : k \in B})
           = IF n + 1 \in B THEN Cardinality({k \in i..n : k \in B}) + 1
                            ELSE Cardinality({k \in i..n : k \in B})
  BY OneMoreCounted
<1> QED
  BY <1>1, <1>3, <1>4, <1>5, <1>6

\* Between a segment and itself there is none.
LEMMA NoneBetween ==
  ASSUME NEW p, NEW n \in Nat
  PROVE  Ordinary(p, n + 1, n) = 0 /\ Back(p, n + 1, n) = 0
<1>1. /\ {k \in n + 1..n : p[k] \in Segments} = {}
      /\ {k \in n + 1..n : p[k] = ".."} = {}
  OBVIOUS
<1> QED
  BY <1>1, FS_EmptySet DEF Ordinary, Back

\* Whether a segment stays when the path goes on by one.
LEMMA StaysNext ==
  ASSUME NEW p, NEW n \in Nat
  PROVE  /\ \A i \in 1..n :
              StaysUpTo(p, i, n + 1)
                <=> StaysUpTo(p, i, n) /\ Back(p, i + 1, n + 1) <= Ordinary(p, i + 1, n + 1)
         /\ StaysUpTo(p, n + 1, n + 1) <=> p[n + 1] \in Segments
<1>1. ASSUME NEW i \in 1..n
      PROVE  StaysUpTo(p, i, n + 1)
               <=> StaysUpTo(p, i, n) /\ Back(p, i + 1, n + 1) <= Ordinary(p, i + 1, n + 1)
  <2>1. i + 1..n + 1 = (i + 1..n) \cup {n + 1}
    OBVIOUS
  <2> QED
    BY <2>1, Zenon DEF StaysUpTo
<1>2. (n + 1) + 1..n + 1 = {}
  OBVIOUS
<1>3. StaysUpTo(p, n + 1, n + 1) <=> p[n + 1] \in Segments
  BY <1>2, Zenon DEF StaysUpTo
<1> QED
  BY <1>1, <1>3

\* What one more segment adds to the counts after those that are kept.
LEMMA KeptCounts ==
  ASSUME NEW p, NEW n \in Nat, NEW cleaned, NEW m, NEW idx, Kept(p, n, cleaned, m, idx),
         NEW a \in 1..m
  PROVE  /\ m \in Nat /\ idx[a] \in 1..n /\ Back(p, idx[a] + 1, n) \in Nat
         /\ Ordinary(p, idx[a] + 1, n + 1)
              = IF p[n + 1] \in Segments THEN Back(p, idx[a] + 1, n) + (m - a) + 1
                                         ELSE Back(p, idx[a] + 1, n) + (m - a)
         /\ Back(p, idx[a] + 1, n + 1)
              = IF p[n + 1] = ".." THEN Back(p, idx[a] + 1, n) + 1
                                   ELSE Back(p, idx[a] + 1, n)
<1>1. m \in Nat /\ idx[a] \in 1..n
  BY DEF Kept
<1>2. Ordinary(p, idx[a] + 1, n) = Back(p, idx[a] + 1, n) + (m - a)
  BY DEF Kept
<1> DEFINE i == idx[a] + 1
<1>3. i \in Nat /\ i <= n + 1
  BY <1>1
<1> HIDE DEF i
<1>4. /\ Back(p, i, n) \in Nat
      /\ Ordinary(p, i, n + 1) = IF p[n + 1] \in Segments THEN Ordinary(p, i, n) + 1
                                                          ELSE Ordinary(p, i, n)
      /\ Back(p, i, n + 1) = IF p[n + 1] = ".." THEN Back(p, i, n) + 1 ELSE Back(p, i, n)
  BY <1>3, SegmentsCounted
<1>5. Ordinary(p, i, n) = Back(p, i, n) + (m - a)
  BY <1>2 DEF i
<1>6. Ordinary(p, i, n + 1) = IF p[n + 1] \in Segments THEN Back(p, i, n) + (m - a) + 1
                                                       ELSE Back(p, i, n) + (m - a)
  BY <1>4, <1>5
<1> QED
  BY <1>1, <1>4, <1>6 DEF i

\* A segment that cleanPath skips.
LEMMA KeptSkips ==
  ASSUME NEW p, NEW n \in Nat, NEW cleaned, NEW m, NEW idx, Kept(p, n, cleaned, m, idx),
         p[n + 1] \notin Segments, p[n + 1] # ".." \/ m = 0
  PROVE  Kept(p, n + 1, cleaned, m, idx)
<1>1. /\ m \in 0..(n + 1) /\ idx \in [1..m -> 1..(n + 1)]
      /\ cleaned \in Seq(Segments) /\ Len(cleaned) = m
      /\ \A a, b \in 1..m : a < b => idx[a] < idx[b]
  BY DEF Kept
<1>2. ASSUME NEW a \in 1..m
      PROVE  /\ cleaned[a] = p[idx[a]]
             /\ Ordinary(p, idx[a] + 1, n + 1) = Back(p, idx[a] + 1, n + 1) + (m - a)
             /\ Back(p, idx[a] + 1, n + 1) <= Ordinary(p, idx[a] + 1, n + 1)
  <2>1. p[n + 1] # ".." /\ cleaned[a] = p[idx[a]]
    <3>1. m # 0
      OBVIOUS
    <3>2. cleaned[a] = p[idx[a]]
      BY Zenon DEF Kept
    <3> QED
      BY <3>1, <3>2, Zenon
  <2>2. /\ m \in Nat /\ Back(p, idx[a] + 1, n) \in Nat
        /\ Ordinary(p, idx[a] + 1, n + 1) = Back(p, idx[a] + 1, n) + (m - a)
        /\ Back(p, idx[a] + 1, n + 1) = Back(p, idx[a] + 1, n)
    <3>1. /\ m \in Nat /\ Back(p, idx[a] + 1, n) \in Nat
          /\ Ordinary(p, idx[a] + 1, n + 1)
               = IF p[n + 1] \in Segments THEN Back(p, idx[a] + 1, n) + (m - a) + 1
                                          ELSE Back(p, idx[a] + 1, n) + (m - a)
          /\ Back(p, idx[a] + 1, n + 1)
               = IF p[n + 1] = ".." THEN Back(p, idx[a] + 1, n) + 1
                                    ELSE Back(p, idx[a] + 1, n)
      BY KeptCounts
    <3> QED
      BY <2>1, <3>1
  <2> QED
    BY <2>1, <2>2
<1>3. \A i \in 1..(n + 1) : StaysUpTo(p, i, n + 1) <=> \E a \in 1..m : idx[a] = i
  <2>1. ASSUME NEW i \in 1..n
        PROVE  StaysUpTo(p, i, n + 1) <=> \E a \in 1..m : idx[a] = i
    <3>1. StaysUpTo(p, i, n) <=> \E a \in 1..m : idx[a] = i
      BY DEF Kept
    <3> QED
      BY <1>2, <3>1, StaysNext, Zenon
  <2>2. ~StaysUpTo(p, n + 1, n + 1) /\ ~(\E a \in 1..m : idx[a] = n + 1)
    <3>1. \A a \in 1..m : idx[a] # n + 1
      BY DEF Kept
    <3> QED
      BY <3>1, StaysNext
  <2> QED
    BY <2>1, <2>2
<1> QED
  BY <1>1, <1>2, <1>3 DEF Kept

\* A segment that it keeps.
LEMMA KeptAppends ==
  ASSUME NEW p, NEW n \in Nat, NEW cleaned, NEW m, NEW idx, Kept(p, n, cleaned, m, idx),
         p[n + 1] \in Segments, p[n + 1] # ".."
  PROVE  \E new : Kept(p, n + 1, Append(cleaned, p[n + 1]), m + 1, new)
<1> DEFINE new == [a \in 1..(m + 1) |-> IF a = m + 1 THEN n + 1 ELSE idx[a]]
           more == Append(cleaned, p[n + 1])
<1>1. /\ m \in 0..n /\ idx \in [1..m -> 1..n]
      /\ cleaned \in Seq(Segments) /\ Len(cleaned) = m
      /\ \A a, b \in 1..m : a < b => idx[a] < idx[b]
  BY DEF Kept
<1>2. /\ m + 1 \in 0..(n + 1) /\ new \in [1..(m + 1) -> 1..(n + 1)]
      /\ more \in Seq(Segments) /\ Len(more) = m + 1
      /\ more[m + 1] = p[n + 1] /\ \A a \in 1..m : more[a] = cleaned[a]
      /\ new[m + 1] = n + 1 /\ \A a \in 1..m : new[a] = idx[a]
  BY <1>1
<1>3. \A a \in 1..(m + 1) : a \in 1..m \/ a = m + 1
  BY <1>1
<1> HIDE DEF new, more
<1>4. \A a, b \in 1..(m + 1) : a < b => new[a] < new[b]
  <2>1. \A a \in 1..m : new[a] \in 1..n /\ new[a] < n + 1
    BY <1>1, <1>2
  <2>2. ASSUME NEW a \in 1..m, NEW b \in 1..m, a < b PROVE new[a] < new[b]
    <3>1. new[a] = idx[a] /\ new[b] = idx[b]
      BY <1>2
    <3> QED
      BY <1>1, <2>2, <3>1
  <2>3. ASSUME NEW b \in 1..(m + 1) PROVE ~(m + 1 < b)
    BY <1>1
  <2> QED
    BY <1>2, <1>3, <2>1, <2>2, <2>3
<1>5. ASSUME NEW a \in 1..(m + 1)
      PROVE  /\ more[a] = p[new[a]]
             /\ Ordinary(p, new[a] + 1, n + 1)
                  = Back(p, new[a] + 1, n + 1) + ((m + 1) - a)
             /\ a \in 1..m => Back(p, new[a] + 1, n + 1) <= Ordinary(p, new[a] + 1, n + 1)
  <2>1. CASE a \in 1..m
    <3>1. cleaned[a] = p[idx[a]] /\ new[a] = idx[a] /\ more[a] = cleaned[a]
      <4>1. \A b \in 1..m : cleaned[b] = p[idx[b]]
        BY Zenon DEF Kept
      <4> QED
        BY <1>2, <2>1, <4>1, Zenon
    <3>2. /\ m \in Nat /\ Back(p, idx[a] + 1, n) \in Nat
          /\ Ordinary(p, idx[a] + 1, n + 1)
               = IF p[n + 1] \in Segments THEN Back(p, idx[a] + 1, n) + (m - a) + 1
                                          ELSE Back(p, idx[a] + 1, n) + (m - a)
          /\ Back(p, idx[a] + 1, n + 1)
               = IF p[n + 1] = ".." THEN Back(p, idx[a] + 1, n) + 1
                                    ELSE Back(p, idx[a] + 1, n)
      BY <2>1, KeptCounts
    <3>3. /\ Ordinary(p, idx[a] + 1, n + 1) = Back(p, idx[a] + 1, n) + (m - a) + 1
          /\ Back(p, idx[a] + 1, n + 1) = Back(p, idx[a] + 1, n)
      BY <3>2
    <3>4. /\ Ordinary(p, idx[a] + 1, n + 1) = Back(p, idx[a] + 1, n + 1) + ((m + 1) - a)
          /\ Back(p, idx[a] + 1, n + 1) <= Ordinary(p, idx[a] + 1, n + 1)
      BY <2>1, <3>2, <3>3
    <3> QED
      BY <2>1, <3>1, <3>4
  <2>2. CASE a = m + 1
    <3>1. more[a] = p[n + 1] /\ new[a] = n + 1 /\ n + 1 \in Nat /\ a \notin 1..m
      BY <1>1, <1>2, <2>2
    <3>2. Ordinary(p, (n + 1) + 1, n + 1) = 0 /\ Back(p, (n + 1) + 1, n + 1) = 0
      BY <3>1, NoneBetween
    <3>3. (m + 1) - a = 0
      BY <1>1, <2>2
    <3> QED
      BY <3>1, <3>2, <3>3
  <2> QED
    BY <1>3, <2>1, <2>2
<1>6. \A i \in 1..(n + 1) : StaysUpTo(p, i, n + 1) <=> \E a \in 1..(m + 1) : new[a] = i
  <2>0. m + 1 \in 1..(m + 1) /\ \A a \in 1..m : a \in 1..(m + 1)
    BY <1>1
  <2>1. ASSUME NEW i \in 1..n
        PROVE  StaysUpTo(p, i, n + 1) <=> \E a \in 1..(m + 1) : new[a] = i
    <3>1. StaysUpTo(p, i, n) <=> \E a \in 1..m : idx[a] = i
      BY DEF Kept
    <3>2. new[m + 1] # i
      BY <1>2
    <3>3. (\E a \in 1..(m + 1) : new[a] = i) <=> \E a \in 1..m : idx[a] = i
      BY <1>2, <1>3, <2>0, <3>2, Zenon
    <3>4. \A a \in 1..m : Back(p, idx[a] + 1, n + 1) <= Ordinary(p, idx[a] + 1, n + 1)
      BY <1>2, <1>5, <2>0, Zenon
    <3> QED
      BY <3>1, <3>3, <3>4, StaysNext, Zenon
  <2>2. StaysUpTo(p, n + 1, n + 1) /\ \E a \in 1..(m + 1) : new[a] = n + 1
    BY <1>2, <2>0, StaysNext
  <2> QED
    BY <2>1, <2>2
<1>7. Kept(p, n + 1, more, m + 1, new)
  BY <1>2, <1>4, <1>5, <1>6 DEF Kept
<1> QED
  BY <1>7 DEF more

\* A ".." that takes the last one away.
LEMMA KeptGoesBack ==
  ASSUME NEW p, NEW n \in Nat, NEW cleaned, NEW m, NEW idx, Kept(p, n, cleaned, m, idx),
         p[n + 1] = "..", m # 0
  PROVE  \E new : Kept(p, n + 1, Front(cleaned), m - 1, new)
<1> DEFINE new == [a \in 1..(m - 1) |-> idx[a]]
           less == Front(cleaned)
<1>0. p[n + 1] \notin Segments
  BY NormalizeAssumption
<1>1. /\ m \in 0..n /\ idx \in [1..m -> 1..n]
      /\ cleaned \in Seq(Segments) /\ Len(cleaned) = m
      /\ \A a, b \in 1..m : a < b => idx[a] < idx[b]
  BY DEF Kept
<1>2. \A a \in 1..(m - 1) : a \in 1..m
  BY <1>1
<1>3. /\ m - 1 \in 0..(n + 1) /\ new \in [1..(m - 1) -> 1..(n + 1)]
      /\ \A a \in 1..(m - 1) : new[a] = idx[a]
  BY <1>1, <1>2
<1>4. /\ less \in Seq(Segments) /\ Len(less) = m - 1
      /\ \A a \in 1..(m - 1) : less[a] = cleaned[a]
  BY <1>1 DEF Front
<1> HIDE DEF new, less
<1>5. \A a, b \in 1..(m - 1) : a < b => new[a] < new[b]
  BY <1>1, <1>2, <1>3, Zenon
<1>6. ASSUME NEW a \in 1..m
      PROVE  /\ cleaned[a] = p[idx[a]]
             /\ Ordinary(p, idx[a] + 1, n + 1) = Back(p, idx[a] + 1, n + 1) + ((m - 1) - a)
             /\ Back(p, idx[a] + 1, n + 1) <= Ordinary(p, idx[a] + 1, n + 1) <=> a <= m - 1
  <2>1. \A b \in 1..m : cleaned[b] = p[idx[b]]
    BY Zenon DEF Kept
  <2>2. /\ m \in Nat /\ Back(p, idx[a] + 1, n) \in Nat
        /\ Ordinary(p, idx[a] + 1, n + 1)
             = IF p[n + 1] \in Segments THEN Back(p, idx[a] + 1, n) + (m - a) + 1
                                        ELSE Back(p, idx[a] + 1, n) + (m - a)
        /\ Back(p, idx[a] + 1, n + 1)
             = IF p[n + 1] = ".." THEN Back(p, idx[a] + 1, n) + 1
                                  ELSE Back(p, idx[a] + 1, n)
    BY KeptCounts
  <2>3. /\ Ordinary(p, idx[a] + 1, n + 1) = Back(p, idx[a] + 1, n) + (m - a)
        /\ Back(p, idx[a] + 1, n + 1) = Back(p, idx[a] + 1, n) + 1
    BY <1>0, <2>2
  <2>4. /\ Ordinary(p, idx[a] + 1, n + 1) = Back(p, idx[a] + 1, n + 1) + ((m - 1) - a)
        /\ Back(p, idx[a] + 1, n + 1) <= Ordinary(p, idx[a] + 1, n + 1) <=> a <= m - 1
    BY <2>2, <2>3
  <2> QED
    BY <2>1, <2>4
<1>7. \A i \in 1..(n + 1) : StaysUpTo(p, i, n + 1) <=> \E a \in 1..(m - 1) : new[a] = i
  <2>1. ASSUME NEW i \in 1..n
        PROVE  StaysUpTo(p, i, n + 1) <=> \E a \in 1..(m - 1) : new[a] = i
    <3>1. StaysUpTo(p, i, n) <=> \E a \in 1..m : idx[a] = i
      BY DEF Kept
    <3>2. StaysUpTo(p, i, n + 1)
            <=> StaysUpTo(p, i, n) /\ Back(p, i + 1, n + 1) <= Ordinary(p, i + 1, n + 1)
      BY StaysNext
    <3>3. StaysUpTo(p, i, n + 1) <=> \E a \in 1..m : idx[a] = i /\ a <= m - 1
      BY <1>6, <3>1, <3>2, Zenon
    <3>4. \A a \in 1..m : a <= m - 1 <=> a \in 1..(m - 1)
      BY <1>1
    <3> QED
      BY <1>2, <1>3, <3>3, <3>4, Zenon
  <2>2. ~StaysUpTo(p, n + 1, n + 1) /\ ~(\E a \in 1..(m - 1) : new[a] = n + 1)
    <3>1. \A a \in 1..(m - 1) : new[a] # n + 1
      <4>1. \A a \in 1..m : idx[a] # n + 1
        BY <1>1
      <4> QED
        BY <1>2, <1>3, <4>1, Zenon
    <3> QED
      BY <1>0, <3>1, StaysNext
  <2> QED
    BY <2>1, <2>2
<1>8. \A a \in 1..(m - 1) :
        /\ less[a] = p[new[a]]
        /\ Ordinary(p, new[a] + 1, n + 1) = Back(p, new[a] + 1, n + 1) + ((m - 1) - a)
  BY <1>2, <1>3, <1>4, <1>6, Zenon
<1>9. Kept(p, n + 1, less, m - 1, new)
  BY <1>3, <1>4, <1>5, <1>7, <1>8 DEF Kept
<1> QED
  BY <1>9 DEF less

\* Whatever the segment, what Clean does with it keeps those that stay.
LEMMA CleanKeeps ==
  ASSUME NEW p, NEW n \in Nat, NEW cleaned, NEW m, NEW idx, Kept(p, n, cleaned, m, idx),
         p[n + 1] \in Segments \cup {"", ".", ".."}
  PROVE  \E next, new : Kept(p, n + 1, Clean(cleaned, p[n + 1]), next, new)
<1>1. \A seg \in Segments : seg \notin {"", "."} /\ seg # ".."
  BY NormalizeAssumption
<1>2. cleaned \in Seq(Segments) /\ Len(cleaned) = m
  BY Zenon DEF Kept
<1>3. cleaned = << >> <=> m = 0
  BY <1>2, EmptySeq
<1>4. CASE p[n + 1] \in {"", "."}
  <2>1. Clean(cleaned, p[n + 1]) = cleaned
    BY <1>4 DEF Clean
  <2>2. p[n + 1] \notin Segments /\ p[n + 1] # ".."
    BY <1>1, <1>4
  <2> QED
    BY <2>1, <2>2, KeptSkips
<1>5. CASE p[n + 1] = ".."
  <2>1. Clean(cleaned, p[n + 1]) = IF cleaned = << >> THEN cleaned ELSE Front(cleaned)
    BY <1>5 DEF Clean
  <2>2. p[n + 1] \notin Segments
    BY <1>1, <1>5
  <2>3. CASE m = 0
    <3>1. Clean(cleaned, p[n + 1]) = cleaned
      BY <1>3, <2>1, <2>3
    <3> QED
      BY <2>2, <2>3, <3>1, KeptSkips
  <2>4. CASE m # 0
    <3>1. Clean(cleaned, p[n + 1]) = Front(cleaned)
      BY <1>3, <2>1, <2>4
    <3> QED
      BY <1>5, <2>4, <3>1, KeptGoesBack
  <2> QED
    BY <2>3, <2>4
<1>6. CASE p[n + 1] \in Segments
  <2>1. p[n + 1] \notin {"", "."} /\ p[n + 1] # ".."
    BY <1>1, <1>6
  <2>2. Clean(cleaned, p[n + 1]) = Append(cleaned, p[n + 1])
    BY <2>1 DEF Clean
  <2> QED
    BY <1>6, <2>1, <2>2, KeptAppends
<1> QED
  BY <1>4, <1>5, <1>6

AnySegment == Segments \cup {"", ".", ".."}

\* CleanPath goes along the segments.
Cleaning(p, f) ==
  f = [n \in 0..Len(p) |-> IF n = 0 THEN << >> ELSE Clean(f[n - 1], p[n])]

\* What Clean makes of ordinary segments is ordinary segments.
LEMMA CleanIsOrdinary ==
  ASSUME NEW cleaned \in Seq(Segments), NEW seg \in AnySegment
  PROVE  Clean(cleaned, seg) \in Seq(Segments)
<1>1. CASE seg \in {"", "."}
  BY <1>1 DEF Clean
<1>2. CASE seg = ".."
  <2>1. Clean(cleaned, seg) = IF cleaned = << >> THEN cleaned ELSE Front(cleaned)
    BY <1>2 DEF Clean
  <2>2. cleaned # << >> => Front(cleaned) \in Seq(Segments)
    <3>1. cleaned # << >> => Len(cleaned) \in Nat \ {0}
      BY EmptySeq
    <3> QED
      BY <3>1 DEF Front
  <2> QED
    BY <2>1, <2>2
<1>3. CASE seg \in Segments
  <2>1. seg \notin {"", "."} /\ seg # ".."
    BY <1>3, NormalizeAssumption
  <2>2. Clean(cleaned, seg) = Append(cleaned, seg)
    BY <2>1 DEF Clean
  <2> QED
    BY <1>3, <2>2
<1> QED
  BY <1>1, <1>2, <1>3 DEF AnySegment

\* There is such a function.
LEMMA CleaningExists ==
  ASSUME NEW p \in Seq(AnySegment)
  PROVE  \E f : Cleaning(p, f)
<1> DEFINE n == Len(p)
           V == Seq(Segments)
           step == [i \in 1..n |-> [c \in V |-> Clean(c, p[i])]]
<1>1. n \in Nat /\ << >> \in V /\ \A i \in 1..n : p[i] \in AnySegment
  OBVIOUS
<1>2. \A i \in 1..n, c \in V : Clean(c, p[i]) \in V
  BY <1>1, CleanIsOrdinary
<1> HIDE DEF n, V
<1>3. step \in Steps(n, V)
  BY <1>2 DEF Steps
<1>4. \A i \in 1..n, c \in V : step[i][c] = Clean(c, p[i])
  OBVIOUS
<1> HIDE DEF step
<1>5. PICK f \in [0..n -> V] : f = [i \in 0..n |-> IF i = 0 THEN << >> ELSE step[i][f[i - 1]]]
  BY <1>1, <1>3, RecursiveFunction
<1>6. \A i \in 0..n : i # 0 => i \in 1..n /\ f[i - 1] \in V
  BY <1>1, <1>5
<1>7. [i \in 0..n |-> IF i = 0 THEN << >> ELSE step[i][f[i - 1]]]
        = [i \in 0..n |-> IF i = 0 THEN << >> ELSE Clean(f[i - 1], p[i])]
  BY <1>4, <1>6
<1> QED
  BY <1>5, <1>7 DEF Cleaning, n

\* What CleanPath keeps.
LEMMA PathKept ==
  ASSUME NEW p \in Seq(AnySegment)
  PROVE  \E m, idx : Kept(p, Len(p), CleanPath(p), m, idx)
<1> DEFINE n == Len(p)
           f == CHOOSE g : Cleaning(p, g)
<1>1. n \in Nat /\ \A i \in 1..n : p[i] \in AnySegment
  OBVIOUS
<1>2. Cleaning(p, f)
  BY CleaningExists
<1>3. CleanPath(p) = f[n]
  BY DEF CleanPath, Cleaning
<1> HIDE DEF f, n
<1>4. f[0] = << >> /\ \A i \in 1..n : f[i] = Clean(f[i - 1], p[i])
  <2>1. \A i \in 0..n : f[i] = IF i = 0 THEN << >> ELSE Clean(f[i - 1], p[i])
    BY <1>2 DEF Cleaning, n
  <2>2. 0 \in 0..n /\ \A i \in 1..n : i \in 0..n /\ i # 0
    BY <1>1
  <2> QED
    BY <2>1, <2>2
<1> DEFINE S == {i \in 0..n : \E m, idx : Kept(p, i, f[i], m, idx)}
<1>5. 0 \in S
  <2> DEFINE none == [a \in 1..0 |-> 0]
  <2>1. none \in [1..0 -> 1..0] /\ << >> \in Seq(Segments) /\ Len(<< >>) = 0
    OBVIOUS
  <2> HIDE DEF none
  <2>2. Kept(p, 0, << >>, 0, none)
    BY <2>1 DEF Kept
  <2> QED
    BY <1>1, <1>4, <2>2
<1>6. ASSUME NEW i \in 1..n, i - 1 \in S PROVE i \in S
  <2> DEFINE k == i - 1
  <2>1. k \in Nat /\ k + 1 = i
    OBVIOUS
  <2>2. PICK m, idx : Kept(p, k, f[k], m, idx)
    BY <1>6
  <2>3. f[i] = Clean(f[k], p[i])
    BY <1>4
  <2> HIDE DEF k
  <2>4. p[k + 1] \in AnySegment
    BY <1>1, <2>1
  <2>5. \E next, new : Kept(p, k + 1, Clean(f[k], p[k + 1]), next, new)
    BY <2>1, <2>2, <2>4, CleanKeeps DEF AnySegment
  <2>6. \E next, new : Kept(p, i, f[i], next, new)
    BY <2>1, <2>3, <2>5
  <2>7. i \in 0..n
    BY <1>1
  <2> QED
    BY <2>6, <2>7
<1> HIDE DEF S
<1>7. \A i \in 0..n : i \in S
  BY <1>1, <1>5, <1>6, Interval, Zenon
<1>8. n \in S
  BY <1>1, <1>7
<1> QED
  BY <1>3, <1>8 DEF S, n

\* A set whose elements are numbered has as many.
Enumerates(f, n, S) ==
  /\ f \in [1..n -> S] /\ \A a, b \in 1..n : f[a] = f[b] => a = b
  /\ \A x \in S : \E a \in 1..n : f[a] = x

LEMMA NumberedCount ==
  ASSUME NEW S, NEW n \in Nat, NEW f, Enumerates(f, n, S)
  PROVE  Cardinality(S) = n
<1>1. f \in Bijection(1..n, S)
  BY DEF Enumerates, Bijection, Injection, Surjection, IsInjective
<1> QED
  BY <1>1, FS_CountingElements DEF ExistsBijection

\* Of numbers listed in ascending order the a-th has a up to it.
Ascending(idx, m, n, S) ==
  /\ idx \in [1..m -> 1..n] /\ S \subseteq 1..n
  /\ \A a, b \in 1..m : a < b => idx[a] < idx[b]
  /\ \A i \in 1..n : i \in S <=> \E a \in 1..m : idx[a] = i

LEMMA AscendingCount ==
  ASSUME NEW m \in Nat, NEW n \in Nat, NEW idx, NEW S, Ascending(idx, m, n, S)
  PROVE  /\ Cardinality(S) = m
         /\ \A a \in 1..m : Cardinality({i \in S : i <= idx[a]}) = a
<1> USE DEF Ascending
<1>1. \A a, b \in 1..m : idx[a] = idx[b] => a = b
  <2> SUFFICES ASSUME NEW a \in 1..m, NEW b \in 1..m, idx[a] = idx[b] PROVE a = b
    OBVIOUS
  <2>1. ~(a < b) /\ ~(b < a)
    <3>1. idx[a] \in 1..n
      OBVIOUS
    <3>2. ~(idx[a] < idx[b]) /\ ~(idx[b] < idx[a])
      BY <3>1
    <3> QED
      BY <3>2
  <2> QED
    BY <2>1
<1>2. \A a \in 1..m : idx[a] \in S
  OBVIOUS
<1>3. Cardinality(S) = m
  <2>1. idx \in [1..m -> S] /\ \A x \in S : \E a \in 1..m : idx[a] = x
    BY <1>2
  <2>2. Enumerates(idx, m, S)
    BY <1>1, <2>1 DEF Enumerates
  <2> QED
    BY <2>2, NumberedCount
<1>4. ASSUME NEW a \in 1..m PROVE Cardinality({i \in S : i <= idx[a]}) = a
  <2> DEFINE T == {i \in S : i <= idx[a]}
             f == [b \in 1..a |-> idx[b]]
  <2>1. a \in Nat /\ \A b \in 1..a : b \in 1..m /\ (b = a \/ b < a)
    OBVIOUS
  <2>2. \A b \in 1..m : idx[b] <= idx[a] <=> b \in 1..a
    <3> SUFFICES ASSUME NEW b \in 1..m PROVE idx[b] <= idx[a] <=> b \in 1..a
      OBVIOUS
    <3>1. idx[a] \in Int /\ idx[b] \in Int /\ (a < b => idx[a] < idx[b])
          /\ (b < a => idx[b] < idx[a]) /\ (a = b => idx[a] = idx[b])
      OBVIOUS
    <3> QED
      BY <3>1
  <2>3. f \in [1..a -> T] /\ \A b \in 1..a : f[b] = idx[b]
    BY <1>2, <2>1, <2>2
  <2>4. \A x \in T : \E b \in 1..a : f[b] = x
    <3>1. \A x \in T : \E b \in 1..m : idx[b] = x /\ idx[b] <= idx[a]
      OBVIOUS
    <3> QED
      BY <2>2, <2>3, <3>1
  <2>5. \A b, c \in 1..a : f[b] = f[c] => b = c
    BY <1>1, <2>1, <2>3
  <2> HIDE DEF T, f
  <2>6. Cardinality(T) = a
    <3>1. Enumerates(f, a, T)
      BY <2>3, <2>4, <2>5 DEF Enumerates
    <3> QED
      BY <2>1, <3>1, NumberedCount
  <2> QED
    BY <2>6 DEF T
<1> QED
  BY <1>3, <1>4

\* cleanPath keeps its promise about every path.
LEMMA PathsAreResolved == url.path \in Seq(AnySegment) => PathIsResolved
<1> DEFINE p == url.path
           n == Len(p)
           stay == {i \in DOMAIN p : Stays(p, i)}
<1> SUFFICES ASSUME p \in Seq(AnySegment)
             PROVE  /\ Len(CleanPath(p)) = Cardinality(stay)
                    /\ \A i \in stay : CleanPath(p)[Cardinality({j \in stay : j <= i})] = p[i]
  BY DEF PathIsResolved
<1>1. n \in Nat /\ DOMAIN p = 1..n
  OBVIOUS
<1>2. \A i \in 1..n : i \in stay <=> StaysUpTo(p, i, n)
  BY <1>1 DEF Stays, StaysUpTo
<1>3. stay \subseteq 1..n
  BY <1>1
<1>4. PICK m, idx : Kept(p, n, CleanPath(p), m, idx)
  BY PathKept
<1> HIDE DEF stay, n, p
<1>5. /\ m \in 0..n /\ idx \in [1..m -> 1..n] /\ Len(CleanPath(p)) = m
      /\ \A a, b \in 1..m : a < b => idx[a] < idx[b]
      /\ \A i \in 1..n : i \in stay <=> \E a \in 1..m : idx[a] = i
  BY <1>2, <1>4 DEF Kept
<1>6. \A a \in 1..m : CleanPath(p)[a] = p[idx[a]]
  BY <1>4, Zenon DEF Kept
<1>7. m \in Nat
  BY <1>1, <1>5
<1>8. /\ Cardinality(stay) = m
      /\ \A a \in 1..m : Cardinality({i \in stay : i <= idx[a]}) = a
  <2>1. Ascending(idx, m, n, stay)
    BY <1>3, <1>5 DEF Ascending
  <2> QED
    BY <1>1, <1>7, <2>1, AscendingCount
<1>9. \A i \in stay : CleanPath(p)[Cardinality({j \in stay : j <= i})] = p[i]
  <2> SUFFICES ASSUME NEW i \in stay
               PROVE  CleanPath(p)[Cardinality({j \in stay : j <= i})] = p[i]
    OBVIOUS
  <2>1. PICK a \in 1..m : idx[a] = i
    BY <1>3, <1>5
  <2> QED
    BY <1>6, <1>8, <2>1, Zenon
<1> QED
  BY <1>5, <1>8, <1>9

----------------------------------------------------------------------------
(* Normalize, queries. sortQuery's list is the query's pairs rearranged at *)
(* every step, and up to the pass under way no key is before a smaller.    *)

Pairs == Keys \X Vals

LEMMA KeyIsNumber == \A pair \in Pairs : GetKey(pair) \in Nat
BY NormalizeAssumption DEF Pairs, GetKey

\* t is s with the pairs at i and j exchanged.
Exchanged(t, s, i, j) ==
  /\ t \in Seq(Pairs) /\ Len(t) = Len(s) /\ t[i] = s[j] /\ t[j] = s[i]
  /\ \A a \in 1..Len(s) : a # i /\ a # j => t[a] = s[a]

LEMMA TwoExchanged ==
  ASSUME NEW s \in Seq(Pairs), NEW i \in 1..Len(s), NEW j \in 1..Len(s)
  PROVE  Exchanged([s EXCEPT ![i] = s[j], ![j] = s[i]], s, i, j)
<1> DEFINE n == Len(s)
           t == [a \in 1..n |-> IF a = j THEN s[i] ELSE IF a = i THEN s[j] ELSE s[a]]
<1>1. n \in Nat /\ s \in [1..n -> Pairs]
  OBVIOUS
<1>2. [s EXCEPT ![i] = s[j], ![j] = s[i]] = t
  BY <1>1
<1>3. t \in [1..n -> Pairs] /\ t[i] = s[j] /\ t[j] = s[i]
      /\ \A a \in 1..n : a # i /\ a # j => t[a] = s[a]
  BY <1>1
<1> HIDE DEF t
<1>4. t \in Seq(Pairs) /\ Len(t) = n
  BY <1>1, <1>3
<1> QED
  BY <1>2, <1>3, <1>4 DEF Exchanged

\* p takes the places of one list of n pairs one by one to those of another.
Permutes(p, n) == p \in Bijection(1..n, 1..n)
Rearranged(s, q) ==
  \E p : Permutes(p, Len(q)) /\ \A a \in 1..Len(q) : s[a] = q[p[a]]

\* Up to its i-th, no pair of s has a greater key than one after it.
Ahead(s, i) ==
  \A a, b \in 1..Len(s) : a <= i /\ a < b => GetKey(s[a]) <= GetKey(s[b])

\* sortQuery on q, in pass i, after the exchange with j.
Sorting(q, s, i, j) ==
  /\ s \in Seq(Pairs) /\ Len(s) = Len(q) /\ Rearranged(s, q)
  /\ Ahead(s, i - 1)
  /\ \A b \in 1..Len(s) : i < b /\ b <= j => GetKey(s[i]) <= GetKey(s[b])

\* An exchange rearranges.
LEMMA ExchangeRearranges ==
  ASSUME NEW q \in Seq(Pairs), NEW s, NEW t, NEW i \in 1..Len(q), NEW j \in 1..Len(q),
         Len(s) = Len(q), Rearranged(s, q), Exchanged(t, s, i, j)
  PROVE  Rearranged(t, q)
<1> DEFINE n == Len(q)
<1>1. PICK p : Permutes(p, n) /\ \A a \in 1..n : s[a] = q[p[a]]
  BY DEF Rearranged
<1>2. /\ p \in [1..n -> 1..n] /\ \A a, b \in 1..n : p[a] = p[b] => a = b
      /\ \A b \in 1..n : \E a \in 1..n : p[a] = b
  BY <1>1 DEF Permutes, Bijection, Injection, Surjection, IsInjective
<1> DEFINE w == [a \in 1..n |-> IF a = i THEN j ELSE IF a = j THEN i ELSE a]
           r == [a \in 1..n |-> p[w[a]]]
<1>3. w \in [1..n -> 1..n] /\ \A a \in 1..n : w[w[a]] = a
  OBVIOUS
<1>4. w[i] = j /\ w[j] = i /\ \A a \in 1..n : a # i /\ a # j => w[a] = a
  OBVIOUS
<1> HIDE DEF w
<1>5. \A a \in 1..n : t[a] = q[r[a]]
  <2> SUFFICES ASSUME NEW a \in 1..n PROVE t[a] = s[w[a]]
    BY <1>1, <1>3
  <2> QED
    BY <1>4, Zenon DEF Exchanged
<1>6. r \in [1..n -> 1..n] /\ \A a, b \in 1..n : r[a] = r[b] => a = b
  <2>1. r \in [1..n -> 1..n]
    BY <1>2, <1>3
  <2>2. ASSUME NEW a \in 1..n, NEW b \in 1..n, r[a] = r[b] PROVE a = b
    <3> DEFINE c == w[a]
               d == w[b]
    <3>1. c \in 1..n /\ d \in 1..n /\ p[c] = p[d]
      BY <1>3, <2>2
    <3>2. c = d
      <4> HIDE DEF c, d
      <4> QED
        BY <1>2, <3>1
    <3> QED
      BY <1>3, <3>2, Zenon
  <2> QED
    BY <2>1, <2>2
<1>7. ASSUME NEW b \in 1..n PROVE \E a \in 1..n : r[a] = b
  <2>1. PICK a \in 1..n : p[a] = b
    BY <1>2
  <2>2. w[a] \in 1..n /\ r[w[a]] = p[w[w[a]]] /\ w[w[a]] = a
    BY <1>3
  <2> QED
    BY <2>1, <2>2
<1> HIDE DEF r
<1>8. Permutes(r, n)
  BY <1>6, <1>7 DEF Permutes, Bijection, Injection, Surjection, IsInjective
<1> QED
  BY <1>5, <1>8 DEF Rearranged

\* Each step of the inner loop keeps what sortQuery relies on.
LEMMA ExchangeSorts ==
  ASSUME NEW q \in Seq(Pairs), NEW s, NEW i \in 1..Len(q), NEW j \in 1..Len(q),
         Sorting(q, s, i, j - 1)
  PROVE  Sorting(q, Exchange(s, i, j), i, j)
<1> DEFINE n == Len(q)
           t == Exchange(s, i, j)
<1>1. /\ n \in Nat /\ i \in 1..n /\ j \in 1..n
      /\ s \in Seq(Pairs) /\ Len(s) = n /\ Rearranged(s, q)
      /\ \A a, b \in 1..n : a < i /\ a < b => GetKey(s[a]) <= GetKey(s[b])
      /\ \A b \in 1..n : i < b /\ b < j => GetKey(s[i]) <= GetKey(s[b])
  BY DEF Sorting, Ahead
<1>2. \A a \in 1..n : GetKey(s[a]) \in Nat
  <2>1. \A a \in 1..n : s[a] \in Pairs
    BY <1>1
  <2> QED
    BY <2>1, KeyIsNumber
<1>3. CASE ~(j > i /\ GetKey(s[i]) > GetKey(s[j]))
  <2>1. t = s
    BY <1>3 DEF Exchange
  <2>2. \A b \in 1..n : i < b /\ b <= j => GetKey(s[i]) <= GetKey(s[b])
    BY <1>1, <1>2, <1>3
  <2> QED
    BY <2>1, <2>2, <1>1 DEF Sorting, Ahead
<1>4. CASE j > i /\ GetKey(s[i]) > GetKey(s[j])
  <2>1. t = [s EXCEPT ![i] = s[j], ![j] = s[i]]
    BY <1>4 DEF Exchange
  <2>2. Exchanged(t, s, i, j)
    <3>1. i \in 1..Len(s) /\ j \in 1..Len(s) /\ s \in Seq(Pairs)
      BY <1>1
    <3>2. Exchanged([s EXCEPT ![i] = s[j], ![j] = s[i]], s, i, j)
      BY <3>1, TwoExchanged, Zenon
    <3> QED
      BY <2>1, <3>2, Zenon
  <2> HIDE DEF t
  <2>3. Rearranged(t, q)
    BY <1>1, <2>2, ExchangeRearranges
  <2>4. /\ t \in Seq(Pairs) /\ Len(t) = n /\ t[i] = s[j] /\ t[j] = s[i]
        /\ \A a \in 1..n : a # i /\ a # j => t[a] = s[a]
    BY <1>1, <2>2 DEF Exchanged
  <2>5. ASSUME NEW a \in 1..n, NEW b \in 1..n, a < i, a < b
        PROVE  GetKey(t[a]) <= GetKey(t[b])
    <3>1. t[a] = s[a]
      BY <1>1, <1>4, <2>4, <2>5
    <3>2. PICK c \in 1..n : a < c /\ t[b] = s[c]
      BY <1>1, <1>4, <2>4, <2>5
    <3> QED
      BY <1>1, <2>5, <3>1, <3>2
  <2>6. ASSUME NEW b \in 1..n, i < b, b <= j
        PROVE  GetKey(t[i]) <= GetKey(t[b])
    <3>1. CASE b = j
      BY <1>2, <1>4, <2>4, <3>1
    <3>2. CASE b # j
      <4>1. i < b /\ b < j /\ t[b] = s[b] /\ t[i] = s[j]
        BY <1>1, <2>4, <2>6, <3>2
      <4> QED
        BY <1>1, <1>2, <1>4, <4>1
    <3> QED
      BY <3>1, <3>2
  <2>7. Sorting(q, t, i, j)
    BY <1>1, <2>3, <2>4, <2>5, <2>6 DEF Sorting, Ahead
  <2> QED
    BY <2>7 DEF t
<1> QED
  BY <1>3, <1>4

\* sortQuery's loops, as the functions of Pass and SortQuery.
Passing(s, i, f) ==
  f = [j \in 0..Len(s) |-> IF j = 0 THEN s ELSE Exchange(f[j - 1], i, j)]
SortingAll(q, f) ==
  f = [i \in 0..Len(q) |-> IF i = 0 THEN q ELSE Pass(f[i - 1], i)]

\* Lists of n pairs.
Lists(n) == {s \in Seq(Pairs) : Len(s) = n}

LEMMA ExchangeIsList ==
  ASSUME NEW n \in Nat, NEW s \in Lists(n), NEW i \in 1..n, NEW j \in 1..n
  PROVE  Exchange(s, i, j) \in Lists(n)
<1>1. s \in Seq(Pairs) /\ Len(s) = n
  BY DEF Lists
<1>2. Exchanged([s EXCEPT ![i] = s[j], ![j] = s[i]], s, i, j)
  BY <1>1, TwoExchanged
<1>3. [s EXCEPT ![i] = s[j], ![j] = s[i]] \in Lists(n)
  BY <1>1, <1>2 DEF Exchanged, Lists
<1> QED
  BY <1>3 DEF Exchange

LEMMA PassingExists ==
  ASSUME NEW n \in Nat, NEW s \in Lists(n), NEW i \in 1..n
  PROVE  \E f : Passing(s, i, f)
<1> DEFINE V == Lists(n)
           step == [j \in 1..n |-> [l \in V |-> Exchange(l, i, j)]]
<1>1. Len(s) = n
  BY DEF Lists
<1>2. \A j \in 1..n, l \in V : Exchange(l, i, j) \in V
  BY ExchangeIsList
<1> HIDE DEF V
<1>3. step \in Steps(n, V) /\ s \in V
  BY <1>2 DEF Steps, V
<1>4. \A j \in 1..n, l \in V : step[j][l] = Exchange(l, i, j)
  OBVIOUS
<1> HIDE DEF step
<1>5. PICK f \in [0..n -> V] : f = [j \in 0..n |-> IF j = 0 THEN s ELSE step[j][f[j - 1]]]
  BY <1>3, RecursiveFunction
<1>6. \A j \in 0..n : j # 0 => j \in 1..n /\ f[j - 1] \in V
  BY <1>5
<1>7. [j \in 0..n |-> IF j = 0 THEN s ELSE step[j][f[j - 1]]]
        = [j \in 0..n |-> IF j = 0 THEN s ELSE Exchange(f[j - 1], i, j)]
  BY <1>4, <1>6
<1> QED
  BY <1>1, <1>5, <1>7 DEF Passing

\* What a pass comes to, exchange by exchange.
LEMMA PassRuns ==
  ASSUME NEW n \in Nat, NEW s \in Lists(n), NEW i \in 1..n
  PROVE  \E f : /\ Pass(s, i) = f[n] /\ f[0] = s
                /\ \A j \in 1..n : f[j] = Exchange(f[j - 1], i, j)
<1> DEFINE f == CHOOSE g : Passing(s, i, g)
<1>1. Len(s) = n
  BY DEF Lists
<1>2. Passing(s, i, f)
  BY PassingExists
<1>3. Pass(s, i) = f[n]
  BY <1>1 DEF Pass, Passing
<1> HIDE DEF f
<1>4. \A j \in 0..n : f[j] = IF j = 0 THEN s ELSE Exchange(f[j - 1], i, j)
  BY <1>1, <1>2 DEF Passing
<1>5. 0 \in 0..n /\ \A j \in 1..n : j \in 0..n /\ j # 0
  OBVIOUS
<1>6. f[0] = s /\ \A j \in 1..n : f[j] = Exchange(f[j - 1], i, j)
  BY <1>4, <1>5
<1> QED
  BY <1>3, <1>6

LEMMA PassIsList ==
  ASSUME NEW n \in Nat, NEW s \in Lists(n), NEW i \in 1..n
  PROVE  Pass(s, i) \in Lists(n)
<1>1. PICK f : /\ Pass(s, i) = f[n] /\ f[0] = s
               /\ \A j \in 1..n : f[j] = Exchange(f[j - 1], i, j)
  BY PassRuns
<1> DEFINE S == {j \in 0..n : f[j] \in Lists(n)}
<1>2. 0 \in S
  BY <1>1
<1>3. \A j \in 1..n : j - 1 \in S => j \in S
  BY <1>1, ExchangeIsList
<1> HIDE DEF S
<1>4. \A j \in 0..n : j \in S
  BY <1>2, <1>3, Interval, Zenon
<1>5. n \in S
  BY <1>4
<1> QED
  BY <1>1, <1>5 DEF S

\* One pass puts a pair with the least key left at i.
LEMMA PassSorts ==
  ASSUME NEW q \in Seq(Pairs), NEW s, NEW i \in 1..Len(q), Sorting(q, s, i, 0)
  PROVE  Sorting(q, Pass(s, i), i, Len(q))
<1> DEFINE n == Len(q)
<1>1. n \in Nat /\ s \in Lists(n)
  BY DEF Sorting, Lists
<1>2. PICK f : /\ Pass(s, i) = f[n] /\ f[0] = s
               /\ \A j \in 1..n : f[j] = Exchange(f[j - 1], i, j)
  BY <1>1, PassRuns
<1> DEFINE S == {j \in 0..n : Sorting(q, f[j], i, j)}
<1>3. 0 \in S
  BY <1>1, <1>2
<1>4. \A j \in 1..n : j - 1 \in S => j \in S
  <2> SUFFICES ASSUME NEW j \in 1..n, j - 1 \in S PROVE j \in S
    OBVIOUS
  <2>1. Sorting(q, f[j - 1], i, j - 1) /\ j \in 0..n
    OBVIOUS
  <2>2. Sorting(q, Exchange(f[j - 1], i, j), i, j)
    BY <2>1, ExchangeSorts
  <2> QED
    BY <1>2, <2>1, <2>2
<1> HIDE DEF S
<1>5. \A j \in 0..n : j \in S
  BY <1>1, <1>3, <1>4, Interval, Zenon
<1>6. n \in S
  BY <1>1, <1>5
<1> QED
  BY <1>2, <1>6 DEF S

\* Before the next pass nothing is wanting.
LEMMA NextPass ==
  ASSUME NEW q \in Seq(Pairs), NEW s, NEW i \in 1..Len(q), Sorting(q, s, i, Len(q))
  PROVE  Sorting(q, s, i + 1, 0)
<1> DEFINE n == Len(q)
<1>1. /\ n \in Nat /\ i \in 1..n /\ s \in Seq(Pairs) /\ Len(s) = n /\ Rearranged(s, q)
      /\ \A a, b \in 1..n : a <= i - 1 /\ a < b => GetKey(s[a]) <= GetKey(s[b])
      /\ \A b \in 1..n : i < b /\ b <= n => GetKey(s[i]) <= GetKey(s[b])
  BY DEF Sorting, Ahead
<1>2. ASSUME NEW a \in 1..n, NEW b \in 1..n, a <= (i + 1) - 1, a < b
      PROVE  GetKey(s[a]) <= GetKey(s[b])
  <2>1. a = i \/ a <= i - 1
    BY <1>1, <1>2
  <2> QED
    BY <1>1, <1>2, <2>1
<1>3. \A b \in 1..n : ~(i + 1 < b /\ b <= 0)
  BY <1>1
<1> QED
  BY <1>1, <1>2, <1>3 DEF Sorting, Ahead

\* Before the first pass the list is as it came.
LEMMA FirstPass == \A q \in Seq(Pairs) : Sorting(q, q, 1, 0)
<1> SUFFICES ASSUME NEW q \in Seq(Pairs) PROVE Sorting(q, q, 1, 0)
  OBVIOUS
<1> DEFINE n == Len(q)
           p == [a \in 1..n |-> a]
<1>1. n \in Nat
  OBVIOUS
<1>2. Permutes(p, n) /\ \A a \in 1..n : q[a] = q[p[a]]
  BY DEF Permutes, Bijection, Injection, Surjection, IsInjective
<1> HIDE DEF p
<1>3. Rearranged(q, q)
  BY <1>2 DEF Rearranged
<1>4. \A a, b \in 1..n : ~(a <= 1 - 1 /\ a < b) /\ ~(1 < b /\ b <= 0)
  BY <1>1
<1> QED
  BY <1>3, <1>4 DEF Sorting, Ahead

LEMMA SortingExists ==
  ASSUME NEW n \in Nat, NEW q \in Lists(n)
  PROVE  \E f : SortingAll(q, f)
<1> DEFINE V == Lists(n)
           step == [i \in 1..n |-> [l \in V |-> Pass(l, i)]]
<1>1. Len(q) = n
  BY DEF Lists
<1>2. \A i \in 1..n, l \in V : Pass(l, i) \in V
  BY PassIsList
<1> HIDE DEF V
<1>3. step \in Steps(n, V) /\ q \in V
  BY <1>2 DEF Steps, V
<1>4. \A i \in 1..n, l \in V : step[i][l] = Pass(l, i)
  OBVIOUS
<1> HIDE DEF step
<1>5. PICK f \in [0..n -> V] : f = [i \in 0..n |-> IF i = 0 THEN q ELSE step[i][f[i - 1]]]
  BY <1>3, RecursiveFunction
<1>6. \A i \in 0..n : i # 0 => i \in 1..n /\ f[i - 1] \in V
  BY <1>5
<1>7. [i \in 0..n |-> IF i = 0 THEN q ELSE step[i][f[i - 1]]]
        = [i \in 0..n |-> IF i = 0 THEN q ELSE Pass(f[i - 1], i)]
  BY <1>4, <1>6
<1> QED
  BY <1>1, <1>5, <1>7 DEF SortingAll

\* sortQuery sorts: its list is the query rearranged, and no key is before a smaller one.
LEMMA QuerySorts ==
  ASSUME NEW q \in Seq(Pairs)
  PROVE  /\ SortQuery(q) \in Seq(Pairs) /\ Len(SortQuery(q)) = Len(q)
         /\ Rearranged(SortQuery(q), q) /\ Ahead(SortQuery(q), Len(q))
<1> DEFINE n == Len(q)
           f == CHOOSE g : SortingAll(q, g)
<1>1. n \in Nat /\ q \in Lists(n)
  BY DEF Lists
<1>2. SortingAll(q, f)
  BY <1>1, SortingExists
<1>3. SortQuery(q) = f[n]
  BY DEF SortQuery, SortingAll
<1> HIDE DEF f
<1>4. f[0] = q /\ \A i \in 1..n : f[i] = Pass(f[i - 1], i)
  <2>1. \A i \in 0..n : f[i] = IF i = 0 THEN q ELSE Pass(f[i - 1], i)
    BY <1>2 DEF SortingAll
  <2>2. 0 \in 0..n /\ \A i \in 1..n : i \in 0..n /\ i # 0
    BY <1>1
  <2> QED
    BY <2>1, <2>2
<1> DEFINE S == {i \in 0..n : Sorting(q, f[i], i + 1, 0)}
<1>5. 0 \in S
  BY <1>1, <1>4, FirstPass
<1>6. \A i \in 1..n : i - 1 \in S => i \in S
  <2> SUFFICES ASSUME NEW i \in 1..n, i - 1 \in S PROVE i \in S
    OBVIOUS
  <2>1. (i - 1) + 1 = i /\ i \in 0..n
    OBVIOUS
  <2>2. Sorting(q, f[i - 1], i, 0)
    BY <2>1
  <2>3. Sorting(q, Pass(f[i - 1], i), i, n)
    BY <2>2, PassSorts
  <2>4. Sorting(q, f[i], i + 1, 0)
    BY <1>4, <2>3, NextPass
  <2> QED
    BY <2>1, <2>4
<1> HIDE DEF S
<1>7. \A i \in 0..n : i \in S
  BY <1>1, <1>5, <1>6, Interval, Zenon
<1>8. Sorting(q, f[n], n + 1, 0)
  BY <1>1, <1>7 DEF S
<1>9. (n + 1) - 1 = n
  BY <1>1
<1> QED
  BY <1>3, <1>8, <1>9 DEF Sorting

\* So QueryIsSorted holds of every query.
LEMMA QueriesAreSorted == url.query \in Seq(Pairs) => QueryIsSorted
<1> DEFINE q == url.query
           s == SortQuery(q)
           n == Len(q)
<1> SUFFICES ASSUME q \in Seq(Pairs)
             PROVE  /\ \A i, j \in DOMAIN s : i < j => GetKey(s[i]) <= GetKey(s[j])
                    /\ \A pair \in Range(q) \cup Range(s) : Count(s, pair) = Count(q, pair)
  BY DEF QueryIsSorted
<1>1. /\ s \in Seq(Pairs) /\ Len(s) = n /\ n \in Nat
      /\ Rearranged(s, q) /\ Ahead(s, n)
  BY QuerySorts
<1> HIDE DEF s, q
<1>2. DOMAIN s = 1..n /\ DOMAIN q = 1..n
  BY <1>1
<1>3. \A i, j \in DOMAIN s : i < j => GetKey(s[i]) <= GetKey(s[j])
  BY <1>1, <1>2 DEF Ahead
<1>4. ASSUME NEW pair PROVE Count(s, pair) = Count(q, pair)
  <2> DEFINE A == {i \in 1..n : s[i] = pair}
             B == {i \in 1..n : q[i] = pair}
  <2>1. PICK p : Permutes(p, n) /\ \A a \in 1..n : s[a] = q[p[a]]
    BY <1>1 DEF Rearranged
  <2>2. /\ p \in [1..n -> 1..n] /\ \A a, b \in 1..n : p[a] = p[b] => a = b
        /\ \A b \in 1..n : \E a \in 1..n : p[a] = b
    BY <2>1 DEF Permutes, Bijection, Injection, Surjection, IsInjective
  <2> DEFINE r == [a \in A |-> p[a]]
  <2>3. r \in Bijection(A, B)
    <3>1. \A a \in A : a \in 1..n /\ p[a] \in B
      BY <2>1, <2>2, Zenon
    <3>2. ASSUME NEW b \in B PROVE \E a \in A : p[a] = b
      <4>1. b \in 1..n /\ q[b] = pair
        OBVIOUS
      <4>2. PICK a \in 1..n : p[a] = b
        BY <2>2, <4>1
      <4>3. a \in A
        BY <2>1, <4>1, <4>2
      <4> QED
        BY <4>2, <4>3
    <3> HIDE DEF A, B
    <3>3. r \in [A -> B] /\ \A a, b \in A : r[a] = r[b] => a = b
      BY <2>2, <3>1
    <3>4. \A b \in B : \E a \in A : r[a] = b
      BY <3>2
    <3> HIDE DEF r
    <3> QED
      BY <3>3, <3>4 DEF Bijection, Injection, Surjection, IsInjective
  <2>4. IsFiniteSet(A)
    <3>1. IsFiniteSet(1..n) /\ A \in SUBSET (1..n)
      BY <1>1, FS_Interval
    <3> QED
      BY <3>1, FS_Subset, Zenon
  <2> HIDE DEF A, B, r
  <2>5. Cardinality(A) = Cardinality(B)
    BY <2>3, <2>4, FS_Bijection DEF ExistsBijection
  <2> QED
    BY <1>2, <2>5 DEF Count, A, B
<1> QED
  BY <1>3, <1>4

\* Numbers in ascending order are never before their places.
LEMMA Climbs ==
  ASSUME NEW n \in Nat, NEW f \in [1..n -> 1..n], \A a, b \in 1..n : a < b => f[a] < f[b]
  PROVE  \A a \in 1..n : a <= f[a]
<1> DEFINE S == {a \in 0..n : a = 0 \/ a <= f[a]}
<1>1. 0 \in S
  OBVIOUS
<1>2. \A a \in 1..n : a - 1 \in S => a \in S
  <2> SUFFICES ASSUME NEW a \in 1..n, a - 1 \in S PROVE a \in S
    OBVIOUS
  <2>1. CASE a = 1
    <3>1. f[1] \in 1..n
      BY <2>1
    <3> QED
      BY <2>1, <3>1
  <2>2. CASE a # 1
    <3>1. a - 1 \in 1..n /\ a - 1 < a
      BY <2>2
    <3>2. a - 1 <= f[a - 1] /\ f[a - 1] < f[a] /\ f[a] \in 1..n /\ f[a - 1] \in 1..n
      BY <3>1
    <3> QED
      BY <3>2
  <2> QED
    BY <2>1, <2>2
<1> HIDE DEF S
<1>3. \A a \in 0..n : a \in S
  BY <1>1, <1>2, Interval, Zenon
<1> QED
  BY <1>3 DEF S

\* s is a list of n pairs whose keys ascend, all of them pairs of t.
Ascends(s, n) ==
  s \in Lists(n) /\ \A a, b \in 1..n : a < b => GetKey(s[a]) < GetKey(s[b])
Within(s, t, n) == \A a \in 1..n : \E b \in 1..n : s[a] = t[b]

LEMMA AscendingPlaces ==
  ASSUME NEW n \in Nat, NEW s, NEW t, Ascends(s, n), Ascends(t, n), Within(s, t, n)
  PROVE  \A a \in 1..n : \E b \in 1..n : s[a] = t[b] /\ a <= b
<1> DEFINE f == [a \in 1..n |-> CHOOSE b \in 1..n : s[a] = t[b]]
<1>1. f \in [1..n -> 1..n] /\ \A a \in 1..n : s[a] = t[f[a]]
  BY DEF Within
<1> HIDE DEF f
<1>2. \A a \in 1..n : GetKey(s[a]) \in Nat /\ GetKey(t[a]) \in Nat
  <2>1. \A a \in 1..n : s[a] \in Pairs /\ t[a] \in Pairs
    BY DEF Ascends, Lists
  <2> QED
    BY <2>1, KeyIsNumber
<1>3. ASSUME NEW a \in 1..n, NEW b \in 1..n, a < b PROVE f[a] < f[b]
  <2> SUFFICES ASSUME ~(f[a] < f[b]) PROVE FALSE
    OBVIOUS
  <2>1. f[a] \in 1..n /\ f[b] \in 1..n /\ s[a] = t[f[a]] /\ s[b] = t[f[b]]
    BY <1>1
  <2>2. GetKey(s[a]) < GetKey(s[b])
    BY <1>3 DEF Ascends
  <2>3. f[b] = f[a] \/ f[b] < f[a]
    BY <2>1
  <2>4. f[b] < f[a] => GetKey(t[f[b]]) < GetKey(t[f[a]])
    BY <2>1 DEF Ascends
  <2> QED
    BY <1>2, <2>1, <2>2, <2>3, <2>4
<1>4. \A a \in 1..n : a <= f[a]
  BY <1>1, <1>3, Climbs
<1> QED
  BY <1>1, <1>4

\* Two such lists of the same pairs are one.
LEMMA SameList ==
  ASSUME NEW n \in Nat, NEW s, NEW t, Ascends(s, n), Ascends(t, n),
         Within(s, t, n), Within(t, s, n)
  PROVE  s = t
<1>1. ASSUME NEW a \in 1..n PROVE s[a] = t[a]
  <2>1. PICK b \in 1..n : s[a] = t[b] /\ a <= b
    BY AscendingPlaces
  <2>2. PICK c \in 1..n : t[a] = s[c] /\ a <= c
    BY AscendingPlaces
  <2>3. s[a] \in Pairs /\ t[a] \in Pairs
    BY DEF Ascends, Lists
  <2>4. GetKey(s[a]) \in Nat /\ GetKey(t[a]) \in Nat
    BY <2>3, KeyIsNumber
  <2>5. a = b \/ GetKey(t[a]) < GetKey(t[b])
    BY <2>1 DEF Ascends
  <2>6. a = c \/ GetKey(s[a]) < GetKey(s[c])
    BY <2>2 DEF Ascends
  <2> QED
    BY <2>1, <2>2, <2>4, <2>5, <2>6
<1>2. s \in [1..n -> Pairs] /\ t \in [1..n -> Pairs]
  BY DEF Ascends, Lists
<1> QED
  BY <1>1, <1>2

\* Where no key comes twice, the sorted keys ascend strictly.
LEMMA DistinctAscend ==
  ASSUME NEW n \in Nat, NEW q \in Lists(n),
         \A i, j \in 1..n : i # j => GetKey(q[i]) # GetKey(q[j])
  PROVE  Ascends(SortQuery(q), n) /\ Within(SortQuery(q), q, n) /\ Within(q, SortQuery(q), n)
<1> DEFINE s == SortQuery(q)
<1>1. q \in Seq(Pairs) /\ Len(q) = n
  BY DEF Lists
<1>2. s \in Seq(Pairs) /\ Len(s) = n /\ Rearranged(s, q) /\ Ahead(s, n)
  BY <1>1, QuerySorts
<1> HIDE DEF s
<1>3. PICK p : Permutes(p, n) /\ \A a \in 1..n : s[a] = q[p[a]]
  BY <1>1, <1>2 DEF Rearranged
<1>4. /\ p \in [1..n -> 1..n] /\ \A a, b \in 1..n : p[a] = p[b] => a = b
      /\ \A b \in 1..n : \E a \in 1..n : p[a] = b
  BY <1>3 DEF Permutes, Bijection, Injection, Surjection, IsInjective
<1>5. Within(s, q, n) /\ Within(q, s, n)
  <2>1. \A a \in 1..n : p[a] \in 1..n /\ s[a] = q[p[a]]
    BY <1>3, <1>4
  <2>2. ASSUME NEW b \in 1..n PROVE \E a \in 1..n : q[b] = s[a]
    <3>1. PICK a \in 1..n : p[a] = b
      BY <1>4
    <3> QED
      BY <2>1, <3>1
  <2> QED
    BY <2>1, <2>2 DEF Within
<1>6. \A a \in 1..n : GetKey(s[a]) \in Nat
  <2>1. \A a \in 1..n : s[a] \in Pairs
    BY <1>2
  <2> QED
    BY <2>1, KeyIsNumber
<1>7. ASSUME NEW a \in 1..n, NEW b \in 1..n, a < b
      PROVE  GetKey(s[a]) < GetKey(s[b])
  <2>1. a # b /\ p[a] \in 1..n /\ p[b] \in 1..n
    BY <1>4, <1>7
  <2>2. GetKey(q[p[a]]) # GetKey(q[p[b]])
    BY <1>4, <2>1, Zenon
  <2>3. GetKey(s[a]) <= GetKey(s[b])
    BY <1>2, <1>7 DEF Ahead
  <2> QED
    BY <1>3, <1>6, <2>2, <2>3
<1> QED
  BY <1>2, <1>5, <1>7 DEF Ascends, Lists, s

LEMMA WithinWithin ==
  ASSUME NEW n, NEW s, NEW t, NEW u, Within(s, t, n), Within(t, u, n)
  PROVE  Within(s, u, n)
<1> SUFFICES ASSUME NEW a \in 1..n PROVE \E b \in 1..n : s[a] = u[b]
  BY DEF Within
<1>1. PICK b \in 1..n : s[a] = t[b]
  BY DEF Within
<1>2. PICK c \in 1..n : t[b] = u[c]
  BY DEF Within
<1> QED
  BY <1>1, <1>2

\* So OneFormPerQuery holds of every query.
LEMMA QueriesHaveOneForm == url.query \in Seq(Pairs) => OneFormPerQuery
<1> DEFINE q == url.query
           n == Len(q)
           swapped == {[q EXCEPT ![i] = q[j], ![j] = q[i]] : i, j \in DOMAIN q}
<1> SUFFICES ASSUME q \in Seq(Pairs),
                    \A i, j \in DOMAIN q : i # j => GetKey(q[i]) # GetKey(q[j]),
                    NEW r \in swapped
             PROVE  SortQuery(r) = SortQuery(q)
  BY DEF OneFormPerQuery
<1>1. n \in Nat /\ DOMAIN q = 1..n /\ q \in Lists(n)
  BY DEF Lists
<1>2. PICK i \in 1..n, j \in 1..n : r = [q EXCEPT ![i] = q[j], ![j] = q[i]]
  BY <1>1
<1> HIDE DEF q, swapped
<1>3. \A a, b \in 1..n : a # b => GetKey(q[a]) # GetKey(q[b])
  BY <1>1
<1>4. Exchanged(r, q, i, j)
  BY <1>2, TwoExchanged
<1>5. Within(r, q, n) /\ Within(q, r, n)
  BY <1>4 DEF Within, Exchanged
<1>6. r \in Lists(n)
  BY <1>4 DEF Exchanged, Lists
<1>7. \A a, b \in 1..n : a # b => GetKey(r[a]) # GetKey(r[b])
  <2> DEFINE w == [a \in 1..n |-> IF a = i THEN j ELSE IF a = j THEN i ELSE a]
  <2>1. w \in [1..n -> 1..n] /\ \A a \in 1..n : w[w[a]] = a
    OBVIOUS
  <2>2. w[i] = j /\ w[j] = i /\ \A a \in 1..n : a # i /\ a # j => w[a] = a
    OBVIOUS
  <2> HIDE DEF w
  <2>3. \A a \in 1..n : r[a] = q[w[a]]
    BY <1>4, <2>2, Zenon DEF Exchanged
  <2> SUFFICES ASSUME NEW a \in 1..n, NEW b \in 1..n, a # b
               PROVE  GetKey(r[a]) # GetKey(r[b])
    OBVIOUS
  <2> DEFINE c == w[a]
             d == w[b]
  <2>4. c # d /\ c \in 1..n /\ d \in 1..n /\ r[a] = q[c] /\ r[b] = q[d]
    BY <2>1, <2>3
  <2> HIDE DEF c, d
  <2> QED
    BY <1>3, <2>4
<1>8. /\ Ascends(SortQuery(q), n) /\ Within(SortQuery(q), q, n) /\ Within(q, SortQuery(q), n)
      /\ Ascends(SortQuery(r), n) /\ Within(SortQuery(r), r, n) /\ Within(r, SortQuery(r), n)
  BY <1>1, <1>3, <1>6, <1>7, DistinctAscend
<1>9. Within(SortQuery(r), SortQuery(q), n) /\ Within(SortQuery(q), SortQuery(r), n)
  <2>1. Within(SortQuery(r), q, n) /\ Within(SortQuery(q), r, n)
    BY <1>5, <1>8, WithinWithin
  <2> QED
    BY <1>8, <2>1, WithinWithin
<1> QED
  BY <1>1, <1>8, <1>9, SameList

\* Paths and Queries are the lists of at most as many segments or pairs.
LEMMA BoundedLists ==
  ASSUME NEW S, NEW k \in Nat
  PROVE  UNION {[1..n -> S] : n \in 0..k} = {s \in Seq(S) : Len(s) <= k}
<1>1. ASSUME NEW n \in 0..k, NEW s \in [1..n -> S] PROVE s \in Seq(S) /\ Len(s) <= k
  OBVIOUS
<1>2. ASSUME NEW s \in Seq(S), Len(s) <= k PROVE Len(s) \in 0..k /\ s \in [1..Len(s) -> S]
  BY <1>2
<1>3. ASSUME NEW s \in Seq(S), Len(s) <= k PROVE \E n \in 0..k : s \in [1..n -> S]
  BY <1>2, <1>3
<1> QED
  BY <1>1, <1>3

LEMMA PathsAndQueries ==
  /\ Paths = {p \in Seq(AnySegment) : Len(p) <= MaxSegments}
  /\ Queries = {q \in Seq(Pairs) : Len(q) <= MaxPairs}
<1>1. MaxSegments \in Nat /\ MaxPairs \in Nat
  BY NormalizeAssumption
<1>2. Paths = UNION {[1..n -> AnySegment] : n \in 0..MaxSegments}
  BY DEF Paths, AnySegment
<1>3. Queries = UNION {[1..n -> Pairs] : n \in 0..MaxPairs}
  BY DEF Queries, Pairs
<1> QED
  BY <1>1, <1>2, <1>3, BoundedLists

\* What is kept of a path is no longer than the path, and of ordinary segments.
LEMMA PathStaysShort ==
  ASSUME NEW p \in Paths
  PROVE  CleanPath(p) \in Paths
<1>1. p \in Seq(AnySegment) /\ Len(p) <= MaxSegments /\ MaxSegments \in Nat
  BY PathsAndQueries, NormalizeAssumption
<1>2. PICK m, idx : Kept(p, Len(p), CleanPath(p), m, idx)
  BY <1>1, PathKept
<1>3. CleanPath(p) \in Seq(Segments) /\ Len(CleanPath(p)) = m /\ m \in 0..Len(p)
  BY <1>2, Zenon DEF Kept
<1> DEFINE c == CleanPath(p)
           n == Len(p)
<1> HIDE DEF c, n
<1>4. c \in Seq(AnySegment)
  <2>1. Segments \subseteq AnySegment
    BY DEF AnySegment
  <2>2. c \in Seq(Segments)
    BY <1>3 DEF c
  <2> QED
    BY <2>1, <2>2
<1>5. n \in Nat /\ n <= MaxSegments
  BY <1>1 DEF n
<1>6. Len(c) \in 0..n
  BY <1>3 DEF c, n
<1>7. c \in {s \in Seq(AnySegment) : Len(s) <= MaxSegments}
  BY <1>1, <1>4, <1>5, <1>6
<1> QED
  BY <1>7, PathsAndQueries DEF c

LEMMA QueryStaysShort ==
  ASSUME NEW q \in Queries
  PROVE  SortQuery(q) \in Queries
<1>1. q \in Seq(Pairs) /\ Len(q) <= MaxPairs
  BY PathsAndQueries
<1>2. SortQuery(q) \in Seq(Pairs) /\ Len(SortQuery(q)) = Len(q)
  BY <1>1, QuerySorts
<1> QED
  BY <1>1, <1>2, PathsAndQueries

LEMMA NothingIsShort == << >> \in Paths /\ << >> \in Queries
<1>1. << >> \in Seq(AnySegment) /\ << >> \in Seq(Pairs) /\ Len(<< >>) = 0
  OBVIOUS
<1>2. 0 <= MaxSegments /\ 0 <= MaxPairs
  <2>1. MaxSegments \in Nat /\ MaxPairs \in Nat
    BY NormalizeAssumption
  <2> QED
    BY <2>1
<1> QED
  BY <1>1, <1>2, PathsAndQueries

LEMMA NormalizeInitOK == NormalizeInit => NormalizeTypeOK
BY NothingIsShort DEF NormalizeInit, NormalizeTypeOK

LEMMA NormalizeNextOK == NormalizeTypeOK /\ [NormalizeNext]_url => NormalizeTypeOK'
<1> SUFFICES ASSUME NormalizeTypeOK, [NormalizeNext]_url PROVE NormalizeTypeOK'
  OBVIOUS
<1>1. CASE TakePath
  BY <1>1, NothingIsShort DEF TakePath, NormalizeTypeOK
<1>2. CASE TakeQuery
  BY <1>2, NothingIsShort DEF TakeQuery, NormalizeTypeOK
<1>3. CASE url' = NormalURL(url)
  <2>1. url.path \in Paths /\ url.query \in Queries
    BY DEF NormalizeTypeOK
  <2>2. CleanPath(url.path) \in Paths /\ SortQuery(url.query) \in Queries
    BY <2>1, PathStaysShort, QueryStaysShort
  <2> QED
    BY <1>3, <2>2 DEF NormalURL, NormalizeTypeOK
<1>4. CASE UNCHANGED url
  BY <1>4 DEF NormalizeTypeOK
<1> QED
  BY <1>1, <1>2, <1>3, <1>4 DEF NormalizeNext

\* Whatever URL is normalized, its path and its query stay within the bounds of the model,
\* so that normalize.URL can be given what it returned.
THEOREM NormalTypeCorrect == NormalizeSpec => []NormalizeTypeOK
<1> QED
  BY NormalizeInitOK, NormalizeNextOK, PTL DEF NormalizeSpec

LEMMA TypedIsRight == NormalizeTypeOK => NormalFormIsRight
<1> SUFFICES ASSUME NormalizeTypeOK PROVE NormalFormIsRight
  OBVIOUS
<1>1. url.path \in Seq(AnySegment) /\ url.query \in Seq(Pairs)
  BY PathsAndQueries DEF NormalizeTypeOK
<1> QED
  BY <1>1, PathsAreResolved, QueriesAreSorted, QueriesHaveOneForm DEF NormalFormIsRight

\* Whatever the segments, keys and values, and however many a URL has, normalize.URL keeps
\* the promises of its comments: cleanPath leaves the segments that no later ".." takes
\* back, in their order, and sortQuery sorts the pairs, none lost or doubled, into a list
\* that is the same for the query with any two pairs exchanged, if no key comes twice.
THEOREM NormalFormKept == NormalizeSpec => []NormalFormIsRight
<1> QED
  BY NormalTypeCorrect, TypedIsRight, PTL
============================================================================
