-------------------------------- MODULE Hunt --------------------------------
(***************************************************************************)
(* The distributed hunt: the orchestrator loop of "scopepilot run"         *)
(* (cmd/pentest/orchestrator.go), the spawning of workers (runSpawn in     *)
(* cmd/pentest/main.go), the workers, which are external, and a user who   *)
(* runs "queue" commands. They share the queue file and the results        *)
(* directory.                                                              *)
(*                                                                         *)
(* The user's commands and runSpawn go through internal/queue: they take   *)
(* the lock file, and rename a new file over the old one. The orchestrator *)
(* itself reads and rewrites the file in place, without the lock, so its   *)
(* accesses are steps of their own. Stale locks are LockFile's subject.    *)
(*                                                                         *)
(* Every operation on a file may fail. What the loop does then, it does    *)
(* silently: it drops the error and goes on.                               *)
(***************************************************************************)
EXTENDS Integers, Sequences, FiniteSets

CONSTANTS
  Bases,        \* tasks users add; their identifiers are UUIDs
  Targets,      \* hosts or URLs that workers find
  PlainTargets, \* those made of letters, digits, '_' and '-' only
  Unsafe,       \* tasks and targets validateTaskTarget refuses
  OutOfScope,   \* targets the scope engine does not accept
  InitialTasks, \* the tasks in the file when the first orchestrator starts
  MaxFindings,  \* bound: findings in one report
  MaxCrashes,   \* bound: crashes of the orchestrator
  MaxCommands,  \* bound: commands of the user
  MaxFailures,  \* bound: operations on files that fail
  MaxStarts     \* bound: workers started for one task

\* The identifier of a task a user added is <<base>>; a finding's is that of
\* the task, extended with its target ("%s-%s").
Ids == {<<b>> : b \in Bases} \cup (Bases \X Targets)

IsBase(id) == Len(id) = 1

ASSUME HuntAssumption ==
  /\ PlainTargets \subseteq Targets /\ OutOfScope \subseteq Targets
  /\ InitialTasks \in Seq(Bases)
  /\ \A i, j \in DOMAIN InitialTasks : InitialTasks[i] = InitialTasks[j] => i = j
  /\ {MaxFindings, MaxCrashes, MaxCommands, MaxFailures, MaxStarts} \subseteq Nat

VARIABLES
  file,     \* the lines of the queue file, in order
  garbled,  \* which of "file" and "copy" has a line cut short, which is not JSON
  results,  \* the results directory: a report or NoReport for each identifier
  workers,  \* live workers of each task
  pc,       \* where the orchestrator is
  todo,     \* identifiers it still has to spawn in this tick
  entries,  \* identifiers of the result files it still has to look at
  cur,      \* the identifier of the result it is consuming
  report,   \* what it has read of that result
  copy,     \* what it has read of the queue file
  lock,     \* who holds the lock file: "free" or "user"
  loaded,   \* what the user's command has loaded
  unlinked, \* a command has renamed its file over the one os.WriteFile has open
  crashes, commands, failures,
  known,    \* history: identifiers that have ever been in the file
  starts,   \* history: workers started for each task
  asked,    \* history: how often each task was put up for work: added, or retried
  reported, \* history: what workers reported, as identifier and verdict
  doubled,  \* history: findings that were added when they were known already
  stale,    \* history: the orchestrator has written since the user's command loaded
  harmed,   \* history: the file was left cut short, or one process undid the other's work
  spoiled   \* history: consuming the current result failed in part, or was interfered with

orch     == <<pc, todo, entries, cur, report, copy>>
user     == <<lock, loaded, unlinked, stale>>
counters == <<crashes, commands, failures>>
deeds    == <<starts, asked, reported>>
mishaps  == <<doubled, harmed, spoiled>>
vars == <<file, garbled, results, workers, orch, user, counters, known, deeds, mishaps>>

Statuses == {"pending", "running", "done", "failed"}
Line == [id : Ids, status : Statuses]
Pending(id) == [id |-> id, status |-> "pending"]

\* What a report names, in its order and perhaps more than once.
Findings == UNION {[1..n -> Targets] : n \in 0..MaxFindings}

NoReport == [verdict |-> "none", found |-> << >>]
Reports == [verdict : {"done"}, found : Findings]
             \cup [verdict : {"failed"}, found : {<< >>}]

NoId == << >>

\* isValidID: letters, digits, '_' and '-'.
ValidId(id) == ~IsBase(id) => id[2] \in PlainTargets

\* The target of a task: the user's own, or the finding's.
Target(id) == id[Len(id)]

IdsIn(lines) == {lines[i].id : i \in DOMAIN lines}

First(lines, id) ==
  CHOOSE i \in DOMAIN lines :
    lines[i].id = id /\ \A j \in 1..(i - 1) : lines[j].id # id

\* Start, Fail and Retry of internal/queue update the first line of a task.
SetFirst(lines, id, status) == [lines EXCEPT ![First(lines, id)].status = status]

\* Mutant: only the first line of a task gets the verdict.
SetFirstFound(lines, id, verdict) ==
  IF id \in IdsIn(lines) THEN SetFirst(lines, id, verdict) ELSE lines

\* Mutant: the verdicts are swapped.
SetAllSwapped(lines, id, verdict) ==
  [i \in DOMAIN lines |->
     IF lines[i].id = id
       THEN [lines[i] EXCEPT !.status = IF verdict = "done" THEN "failed" ELSE "done"]
       ELSE lines[i]]

\* updateStatus rewrites every line of a task.
SetAll(lines, id, verdict) ==
  [i \in DOMAIN lines |->
     IF lines[i].id = id THEN [lines[i] EXCEPT !.status = verdict] ELSE lines[i]]

\* The loop of List over the lines.
PendingIds(lines) ==
  LET ids[i \in 0..Len(lines)] ==
        IF i = 0 THEN << >>
        ELSE IF lines[i].status = "pending" THEN Append(ids[i - 1], lines[i].id)
        ELSE ids[i - 1]
  IN  ids[Len(lines)]

Replace(lines) == file' = lines /\ known' = known \cup IdsIn(lines)

\* One of the operations that may fail does.
Fails == failures < MaxFailures /\ failures' = failures + 1
----------------------------------------------------------------------------
Init ==
  /\ file = [i \in DOMAIN InitialTasks |-> Pending(<<InitialTasks[i]>>)]
  /\ garbled = {}
  /\ results = [id \in Ids |-> NoReport]
  /\ workers = [id \in Ids |-> 0]
  /\ pc = "tick" /\ todo = << >> /\ entries = {} /\ cur = NoId
  /\ report = NoReport /\ copy = << >>
  /\ lock = "free" /\ loaded = << >> /\ unlinked = FALSE /\ stale = FALSE
  /\ crashes = 0 /\ commands = 0 /\ failures = 0
  /\ known = IdsIn(file)
  /\ starts = [id \in Ids |-> 0] /\ asked = [id \in Ids |-> 1]
  /\ reported = {}
  /\ doubled = {} /\ harmed = FALSE /\ spoiled = FALSE

Goto(place) == pc' = place

\* log.Fatalf, or the end of the process in any other way.
Exit ==
  /\ Goto("down")
  /\ todo' = << >> /\ entries' = {} /\ cur' = NoId
  /\ report' = NoReport /\ copy' = << >> /\ garbled' = garbled \ {"copy"}

\* The tick: List("pending") reads the file as it is, or the tick spawns nothing.
ListPending ==
  /\ pc = "tick"
  /\ \/ todo' = PendingIds(file) /\ UNCHANGED failures
     \/ Fails /\ UNCHANGED todo
  /\ Goto("spawn")
  /\ UNCHANGED <<file, garbled, results, workers, entries, cur, report, copy, user, crashes,
                 commands, known, deeds, mishaps>>

\* The queue package can work on a task: it gets the lock, every line is JSON
\* (loadTasks refuses a file with one that is not), and the task is there.
Workable(id) == lock = "free" /\ "file" \notin garbled /\ id \in IdsIn(file)

\* runSpawn up to the check of the target: an identifier isValidID refuses, or a
\* task that cannot be read, ends the whole process.
SpawnCheck ==
  /\ pc = "spawn" /\ todo # << >>
  /\ LET id == Head(todo)
     IN  \/ /\ ValidId(id) /\ Workable(id)
            /\ Goto(IF Target(id) \in Unsafe THEN "drop" ELSE "start")
            /\ UNCHANGED <<garbled, todo, entries, cur, report, copy, failures>>
         \/ /\ (~(ValidId(id) /\ Workable(id)) /\ UNCHANGED failures) \/ Fails
            /\ Exit
  /\ UNCHANGED <<file, results, workers, user, crashes, commands, known, deeds, mishaps>>

\* q.Fail, whose own failure is ignored.
FailIfWorkable(id) ==
  \/ Workable(id) /\ Replace(SetFirst(file, id, "failed")) /\ UNCHANGED failures
  \/ /\ (~Workable(id) /\ UNCHANGED failures) \/ Fails
     /\ UNCHANGED <<file, known>>

\* Mutant: the task is passed over without being marked.
SpawnDropUnmarked ==
  /\ pc = "drop"
  /\ todo' = Tail(todo)
  /\ Goto("spawn")
  /\ UNCHANGED <<file, garbled, results, workers, entries, cur, report, copy, user, counters,
                 known, deeds, mishaps>>

\* A task with an unsafe target is dropped.
SpawnDrop ==
  /\ pc = "drop"
  /\ FailIfWorkable(Head(todo))
  /\ todo' = Tail(todo)
  /\ Goto("spawn")
  /\ UNCHANGED <<garbled, results, workers, entries, cur, report, copy, user, crashes,
                 commands, deeds, mishaps>>

\* Mutant: the task is not marked as running.
SpawnStartUnmarked ==
  /\ pc = "start"
  /\ Goto("launch")
  /\ UNCHANGED <<file, garbled, results, workers, todo, entries, cur, report, copy, user,
                 counters, known, deeds, mishaps>>

\* q.Start.
SpawnStart ==
  /\ pc = "start"
  /\ LET id == Head(todo)
     IN  \/ /\ Workable(id)
            /\ Replace(SetFirst(file, id, "running"))
            /\ Goto("launch")
            /\ UNCHANGED <<garbled, todo, entries, cur, report, copy, failures>>
         \/ /\ (~Workable(id) /\ UNCHANGED failures) \/ Fails
            /\ Exit
            /\ UNCHANGED <<file, known>>
  /\ UNCHANGED <<results, workers, user, crashes, commands, deeds, mishaps>>

\* cmd.Start: a worker runs, or the task is marked failed and the process ends.
Launch ==
  /\ pc = "launch"
  /\ LET id == Head(todo)
     IN  \/ /\ starts[id] < MaxStarts
            /\ starts' = [starts EXCEPT ![id] = @ + 1]
            /\ workers' = [workers EXCEPT ![id] = @ + 1]
            /\ todo' = Tail(todo)
            /\ Goto("spawn")
            /\ UNCHANGED <<file, known, garbled, entries, cur, report, copy, failures>>
         \/ /\ FailIfWorkable(id)
            /\ Exit
            /\ UNCHANGED <<workers, starts>>
  /\ UNCHANGED <<results, user, crashes, commands, asked, reported, mishaps>>

\* ReadDir of the results directory, whose error is ignored.
ReadResults ==
  /\ pc = "spawn" /\ todo = << >>
  /\ \/ entries' = {id \in Ids : results[id] # NoReport} /\ UNCHANGED failures
     \/ Fails /\ UNCHANGED entries
  /\ Goto("consume")
  /\ UNCHANGED <<file, garbled, results, workers, todo, cur, report, copy, user, crashes,
                 commands, known, deeds, mishaps>>

\* One result file is read; what another process does to it later is not seen.
\* One that cannot be read or is not JSON is left for the next tick.
ReadReport(id) ==
  /\ pc = "consume" /\ id \in entries
  /\ \/ /\ cur' = id /\ report' = results[id]
        /\ spoiled' = FALSE
        /\ Goto("read")
        /\ UNCHANGED <<entries, failures>>
     \/ /\ Fails
        /\ entries' = entries \ {id}
        /\ UNCHANGED <<pc, cur, report, spoiled>>
  /\ UNCHANGED <<file, garbled, results, workers, todo, copy, user, crashes, commands, known,
                 deeds, doubled, harmed>>

TickDone ==
  /\ pc = "consume" /\ entries = {}
  /\ Goto("tick")
  /\ UNCHANGED <<file, garbled, results, workers, todo, entries, cur, report, copy, user,
                 counters, known, deeds, mishaps>>

\* The orchestrator writes the file without the lock.
Writes == stale' = (lock = "user")

\* updateStatus gives up; its caller goes on as if the verdict were recorded.
Unrecorded ==
  /\ Fails
  /\ spoiled' = TRUE
  /\ Goto("chain")
  /\ copy' = << >> /\ garbled' = garbled \ {"copy"}

\* updateStatus reads the queue file ...
ReadQueue ==
  /\ pc = "read"
  /\ \/ /\ copy' = file
        /\ garbled' = IF "file" \in garbled THEN {"file", "copy"} ELSE {}
        /\ Goto("truncate")
        /\ UNCHANGED <<failures, spoiled>>
     \/ Unrecorded
  /\ UNCHANGED <<file, results, workers, todo, entries, cur, report, user, crashes, commands,
                 known, deeds, doubled, harmed>>

\* ... and os.WriteFile truncates it ...
Truncate ==
  /\ pc = "truncate"
  /\ \/ /\ file' = << >> /\ garbled' = garbled \ {"file"}
        /\ unlinked' = FALSE
        /\ Writes
        /\ Goto("write")
        /\ UNCHANGED <<copy, failures, spoiled>>
     \/ Unrecorded /\ UNCHANGED <<file, unlinked, stale>>
  /\ UNCHANGED <<results, workers, todo, entries, cur, report, lock, loaded, crashes, commands,
                 known, deeds, doubled, harmed>>

\* ... and fills it again, unless nobody will see what it writes. A line that is
\* not JSON is written as it was read.
WriteAll ==
  /\ IF unlinked
       THEN UNCHANGED <<file, known>> /\ garbled' = garbled \ {"copy"}
       ELSE /\ Replace(SetAll(copy, cur, report.verdict))
            /\ garbled' = IF "copy" \in garbled THEN {"file"} ELSE {}
  /\ UNCHANGED <<failures, harmed, spoiled>>

\* The write fails: only some of the lines are there, the last perhaps cut short.
WriteSome ==
  /\ ~unlinked /\ Fails
  /\ \E n \in 0..(Len(copy) - 1) :
       Replace(SubSeq(SetAll(copy, cur, report.verdict), 1, n))
  /\ garbled' \in SUBSET {"file"}
  /\ harmed' = TRUE /\ spoiled' = TRUE

WriteVerdict ==
  /\ pc = "write"
  /\ WriteAll \/ WriteSome
  /\ copy' = << >>
  /\ Writes
  /\ Goto("chain")
  /\ UNCHANGED <<results, workers, todo, entries, cur, report, lock, loaded, unlinked, crashes,
                 commands, deeds, doubled>>

\* The line of a finding is appended, whether there is one or not.
AppendLine(id) ==
  /\ Replace(Append(file, Pending(id)))
  /\ doubled' = IF id \in known THEN doubled \cup {id} ELSE doubled
  /\ UNCHANGED <<garbled, failures, harmed, spoiled>>

\* Add fails, perhaps in the middle of the line; or the line comes right behind one
\* that was cut short, and is none.
LoseLine ==
  /\ Fails \/ ("file" \in garbled /\ UNCHANGED failures)
  /\ garbled' \in {garbled, garbled \cup {"file"}}
  /\ harmed' = (harmed \/ "file" \in garbled')
  /\ spoiled' = TRUE
  /\ UNCHANGED <<file, known, doubled>>

\* Auto-chaining takes the findings one after the other.
Chain ==
  /\ pc = "chain" /\ report.found # << >>
  /\ AppendLine(<<cur[1], Head(report.found)>>) \/ LoseLine
  /\ report' = [report EXCEPT !.found = Tail(@)]
  /\ Writes
  /\ UNCHANGED <<results, workers, pc, todo, entries, cur, copy, lock, loaded, unlinked,
                 crashes, commands, deeds>>

\* Mutant: the result goes before its findings are chained.
RemoveResultEarly ==
  /\ pc = "chain"
  /\ results' = [results EXCEPT ![cur] = NoReport]
  /\ entries' = entries \ {cur}
  /\ cur' = NoId
  /\ report' = NoReport
  /\ Goto("consume")
  /\ UNCHANGED <<file, garbled, workers, todo, copy, user, counters, known, deeds, mishaps>>

\* The consumed result file is removed, whatever it holds by now; if that fails, it
\* is consumed again.
RemoveResult ==
  /\ pc = "chain" /\ report.found = << >>
  /\ \/ results' = [results EXCEPT ![cur] = NoReport] /\ UNCHANGED failures
     \/ Fails /\ UNCHANGED results
  /\ entries' = entries \ {cur}
  /\ cur' = NoId
  /\ report' = NoReport
  /\ Goto("consume")
  /\ UNCHANGED <<file, garbled, workers, todo, copy, user, crashes, commands, known, deeds,
                 mishaps>>

\* The process dies, or is stopped with Ctrl+C; inside os.WriteFile the file stays
\* truncated.
Crash ==
  /\ crashes < MaxCrashes
  /\ pc # "down"
  /\ crashes' = crashes + 1
  /\ Exit
  /\ harmed' = (harmed \/ pc = "write")
  /\ UNCHANGED <<file, results, workers, user, commands, failures, known, deeds, doubled,
                 spoiled>>

\* The user starts it again.
Restart ==
  /\ pc = "down"
  /\ Goto("tick")
  /\ UNCHANGED <<file, garbled, results, workers, todo, entries, cur, report, copy, user,
                 counters, known, deeds, mishaps>>

\* A worker writes its result file and ends. Findings of findings are left out.
WorkerReports(id) ==
  /\ workers[id] > 0
  /\ \E r \in Reports :
       /\ r.found # << >> => IsBase(id)
       /\ results' = [results EXCEPT ![id] = r]
       /\ reported' = reported \cup {<<id, r.verdict>>}
  /\ workers' = [workers EXCEPT ![id] = @ - 1]
  /\ UNCHANGED <<file, garbled, orch, user, counters, known, starts, asked, mishaps>>

WorkerDies(id) ==
  /\ workers[id] > 0
  /\ workers' = [workers EXCEPT ![id] = @ - 1]
  /\ UNCHANGED <<file, garbled, results, orch, user, counters, known, deeds, mishaps>>

\* A queue command takes the lock and loads the file, which may be empty just then.
UserLoad ==
  /\ commands < MaxCommands
  /\ lock = "free" /\ "file" \notin garbled
  /\ lock' = "user"
  /\ loaded' = file
  /\ stale' = (pc = "write")
  /\ commands' = commands + 1
  /\ UNCHANGED <<unlinked, file, garbled, results, workers, orch, crashes, failures, known,
                 deeds, mishaps>>

\* It saves its update, "queue add" with a new UUID or "queue retry", and unlocks.
\* Harm is done if it has not seen the orchestrator's last writing, or if the
\* orchestrator is about to write what it read before this.
UserSave ==
  /\ lock = "user"
  /\ \/ /\ \E b \in Bases :
             <<b>> \notin known /\ Replace(Append(loaded, Pending(<<b>>)))
        /\ UNCHANGED asked
     \/ \E id \in IdsIn(loaded) :
          /\ Replace(SetFirst(loaded, id, "pending"))
          /\ asked' = [asked EXCEPT ![id] = @ + 1]
  /\ garbled' = garbled \ {"file"}
  /\ unlinked' = (pc = "write")
  /\ harmed' = (harmed \/ stale \/ pc \in {"truncate", "write"})
  /\ spoiled' = TRUE
  /\ lock' = "free" /\ loaded' = << >> /\ stale' = FALSE
  /\ UNCHANGED <<results, workers, orch, counters, starts, reported, doubled>>

\* It only lists, or fails, and unlocks.
UserReturn ==
  /\ lock = "user"
  /\ lock' = "free" /\ loaded' = << >> /\ stale' = FALSE
  /\ UNCHANGED <<unlinked, file, garbled, results, workers, orch, counters, known, deeds,
                 mishaps>>

Orchestrate ==
  \/ ListPending \/ SpawnCheck \/ SpawnDrop \/ SpawnStart \/ Launch \/ ReadResults
  \/ \E id \in Ids : ReadReport(id)
  \/ TickDone \/ ReadQueue \/ Truncate \/ WriteVerdict \/ Chain \/ RemoveResult

Next ==
  \/ Orchestrate \/ Crash \/ Restart
  \/ \E id \in Ids : WorkerReports(id) \/ WorkerDies(id)
  \/ UserLoad \/ UserSave \/ UserReturn

Spec == Init /\ [][Next]_vars

\* The loop ticks for ever and a user restarts it when it has ended; a command
\* that was started ends.
FairSpec ==
  /\ Spec
  /\ WF_vars(Orchestrate) /\ WF_vars(Restart)
  /\ WF_vars(UserSave \/ UserReturn)
----------------------------------------------------------------------------
Places == {"tick", "spawn", "drop", "start", "launch", "consume", "read", "truncate",
           "write", "chain", "down"}

\* Every variable has its type; in particular a task never gets a status other
\* than the four the queue knows.
TypeOK ==
  /\ file \in Seq(Line) /\ copy \in Seq(Line) /\ loaded \in Seq(Line)
  /\ garbled \subseteq {"file", "copy"}
  /\ results \in [Ids -> Reports \cup {NoReport}]
  /\ workers \in [Ids -> 0..MaxStarts]
  /\ pc \in Places
  /\ todo \in Seq(Ids) /\ entries \subseteq Ids /\ cur \in Ids \cup {NoId}
  /\ report \in Reports \cup {NoReport}
  /\ lock \in {"free", "user"} /\ {unlinked, stale, harmed, spoiled} \subseteq BOOLEAN
  /\ crashes \in 0..MaxCrashes /\ commands \in 0..MaxCommands /\ failures \in 0..MaxFailures
  /\ known \subseteq Ids /\ doubled \subseteq Ids
  /\ starts \in [Ids -> 0..MaxStarts] /\ asked \in [Ids -> Nat]
  /\ reported \subseteq Ids \X {"done", "failed"}

\* The tasks in the queue, together with those an orchestrator between the two
\* halves of os.WriteFile is about to write.
Queued == IdsIn(file) \cup (IF pc = "write" /\ ~unlinked THEN IdsIn(copy) ELSE {})

\* docs/distributed-hunt.md:279, "No data loss": a task that was ever in the queue file
\* stays there.
NoDataLoss == known \subseteq Queued

\* So it is until the file is left cut short, by a crash or a failure inside
\* os.WriteFile, or an orchestrator and a command undo each other's work.
NoTaskLost == harmed \/ NoDataLoss

\* A task is marked done only if a worker of it has reported success, whatever
\* was lost, duplicated or done twice on the way.
DoneWasReported ==
  \A i \in DOMAIN file : file[i].status = "done" => <<file[i].id, "done">> \in reported

\* A task gets a worker once for each time it was put up for work, so one if nobody
\* retries it, through crashes and failures at any point: until the file is harmed, and
\* but for the findings that have two lines.
StartedAsAsked == harmed \/ \A id \in Ids \ doubled : starts[id] <= asked[id]

\* A result file is removed only when its findings are in the queue and its
\* verdict is recorded, also after crashes at any point of its consumption
\* (at-least-once), unless the task has been started twice, a command has saved
\* the queue meanwhile, or an operation of the consumption itself has failed.
ResultsAreConsumed ==
  [][\A id \in Ids :
       /\ results[id] # NoReport /\ results'[id] = NoReport
       /\ starts[id] <= 1 /\ ~spoiled
       => /\ \A i \in DOMAIN results[id].found :
               <<id[1], results[id].found[i]>> \in IdsIn(file)
          /\ \A i \in DOMAIN file :
               file[i].id = id => file[i].status = results[id].verdict]_vars

\* Holds not: "Auto-chain: recon findings become scan tasks", then "Remove consumed result
\* file" (orchestrator.go:88, 106). The error of Add is dropped.
FindingsBecomeTasks ==
  [][\A id \in Ids :
       /\ results[id] # NoReport /\ results'[id] = NoReport
       /\ starts[id] <= 1
       => \A i \in DOMAIN results[id].found :
            <<id[1], results[id].found[i]>> \in IdsIn(file)]_vars

\* Holds not: no task has two lines ("Check for duplicate ID", queue.go:129). The
\* orchestrator's own Add does not check, and its findings have the identifiers their
\* targets give them.
TaskIdsAreUnique == \A i, j \in DOMAIN file : file[i].id = file[j].id => i = j

\* The board of the tasks: what is in the file, or about to be in it again.
TB == INSTANCE TaskBoard WITH
        board <- IF pc = "write" /\ ~unlinked THEN copy ELSE file,
        verdicts <- reported

\* docs/distributed-hunt.md:279, "No data loss", in full: every rewriting of the file is
\* one move of one task, whatever crashes, fails or runs beside it, until the file is
\* harmed.
MovesAreAtomic == TB!BoardInit /\ [][harmed' \/ TB!Move]_TB!boardVars

PendingTask(id) == \E i \in DOMAIN file : file[i].id = id /\ file[i].status = "pending"

\* orchestrator.go:31: the loop "spawns pending tasks", unless a task has two lines (then
\* the second stays pending for ever) or the file is harmed.
PendingIsSpawned ==
  \A id \in Ids : PendingTask(id) ~> ~PendingTask(id) \/ doubled # {} \/ harmed

\* Holds not: "Queue validates every task against the scope engine before accepting it"
\* (docs/distributed-hunt.md:56).
QueuedInScope == \A i \in DOMAIN file : Target(file[i].id) \notin OutOfScope
============================================================================
