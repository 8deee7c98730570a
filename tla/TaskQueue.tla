----------------------------- MODULE TaskQueue -----------------------------
(***************************************************************************)
(* The task queue (internal/queue/queue.go) as processes share it: every   *)
(* method takes the lock file, loads the whole JSON-lines file, changes    *)
(* the list it loaded, saves all of it and unlocks. Queue.mu only orders   *)
(* the goroutines of one process, so a process makes one call at a time.   *)
(*                                                                         *)
(* The file is replaced by a rename, so other processes see the old list   *)
(* or the new one; the lock is what keeps a list from changing between the *)
(* load and the save.                                                      *)
(***************************************************************************)
EXTENDS LockFile, QueueOps

VARIABLES
  file,   \* the tasks in the queue file, << >> when there is none
  stage,  \* what a holder of the lock does next: "load", "save", "return"
  snap    \* the tasks it has loaded, << >> outside "save"

queueVars == <<lock, doing, raced, file, stage, snap>>

InStage(p, from) == doing[p] = "held" /\ stage[p] = from

MoveTo(p, to) == stage' = [stage EXCEPT ![p] = to]

Forget(p) == snap' = [snap EXCEPT ![p] = << >>]

Init ==
  /\ LockInit
  /\ file = << >>
  /\ stage = [p \in Procs |-> "load"]
  /\ snap = [p \in Procs |-> << >>]

\* newLockFile, step by step.
Lock(p) == Acquire(p) /\ UNCHANGED <<file, stage, snap>>

\* Mutant: the lock goes as soon as the file is read.
LoadUnlocks(p) ==
  /\ InStage(p, "load")
  /\ snap' = [snap EXCEPT ![p] = file]
  /\ MoveTo(p, "save")
  /\ RemoveFile(p)
  /\ UNCHANGED <<doing, file>>

\* loadTasks. A call that Add's validation refuses, or whose load fails,
\* returns at once.
Load(p) ==
  /\ InStage(p, "load")
  /\ \/ /\ snap' = [snap EXCEPT ![p] = file]
        /\ MoveTo(p, "save")
     \/ /\ MoveTo(p, "return")
        /\ UNCHANGED snap
  /\ UNCHANGED <<lockVars, file>>

\* The call is applied to the tasks that were loaded, and saveTasks renames
\* its temporary file over the queue. Which call it is matters only now.
Save(p) ==
  /\ InStage(p, "save")
  /\ \E call \in Calls : Acceptable(call) /\ Updates(call, snap[p], file')
  /\ MoveTo(p, "return")
  /\ Forget(p)
  /\ UNCHANGED lockVars

\* The call changes nothing, or the temporary file cannot be written.
SaveNothing(p) ==
  /\ InStage(p, "save")
  /\ MoveTo(p, "return")
  /\ Forget(p)
  /\ UNCHANGED <<lockVars, file>>

Return(p) ==
  /\ InStage(p, "return")
  /\ Unlock(p)
  /\ MoveTo(p, "load")
  /\ UNCHANGED <<file, snap>>

\* What the process had loaded dies with it.
Die(p) ==
  /\ Crash(p)
  /\ MoveTo(p, "load")
  /\ Forget(p)
  /\ UNCHANGED file

Age == GrowStale /\ UNCHANGED <<file, stage, snap>>

Next ==
  \/ \E p \in Procs :
       Lock(p) \/ Load(p) \/ Save(p) \/ SaveNothing(p) \/ Return(p) \/ Die(p)
  \/ Age

Spec == Init /\ [][Next]_queueVars
----------------------------------------------------------------------------
SavedTask == {t \in Task : t.id \in ScopedIds}

\* Every variable has its type; in particular a saved task has a valid
\* priority and an accepted target, and the file is never a partial list.
TypeOK ==
  /\ LockTypeOK
  /\ file \in Seq(SavedTask)
  /\ stage \in [Procs -> {"load", "save", "return"}]
  /\ snap \in [Procs -> Seq(SavedTask)]

\* No identifier is ever in the file twice, not even when the lock has failed
\* and two calls overlap (Add's duplicate check, saveTasks' rename).
UniqueIds == \A i, j \in DOMAIN file : file[i].id = file[j].id => i = j

\* Next's one-pass scan finds what "highest priority, then earliest" means:
\* its choice is pending and no pending task comes before it.
ScanFindsBest ==
  LET n == NextIndex(file)
      waiting == {i \in DOMAIN file : file[i].status = "pending"}
  IN  /\ n = 0 <=> waiting = {}
      /\ n # 0 => n \in waiting /\ \A i \in waiting : ~Before(file[i], file[n])

AQ == INSTANCE AtomicQueue WITH tasks <- file

\* With the lock intact every change of the file is one atomic call on the
\* current list: no update made between a load and its save is overwritten,
\* whoever crashes, however the save fails.
AtomicUnlessRaced == [][raced' \/ AQ!Step]_file

\* Two processes whose calls last less than 30 s always have that.
Atomic == AQ!AtomicSpec
============================================================================
