------------------------------ MODULE LockFile ------------------------------
(***************************************************************************)
(* The advisory lock of the task queue (newLockFile and lock in            *)
(* internal/queue/queue.go): a file next to the queue, created with O_EXCL *)
(* and removed to unlock. A process that finds a lock file older than 30 s *)
(* takes it for the leftover of a crash, removes it and tries once more;   *)
(* a younger one makes the call fail at once.                              *)
(*                                                                         *)
(* Creating, asking the age, removing and creating again are four system   *)
(* calls; other processes run between them. The file holds nothing: its    *)
(* owner is known to the model only.                                       *)
(***************************************************************************)
EXTENDS Naturals

CONSTANTS
  Procs,       \* processes that use the queue (a Queue value has one lock attempt at a time)
  SlowHolders  \* whether a live holder may keep the lock for more than 30 s

ASSUME LockAssumption == SlowHolders \in BOOLEAN /\ "none" \notin Procs

VARIABLES
  lock,   \* the lock file: NoLock, or who created it and whether it is 30 s old
  doing,  \* where each process is in newLockFile
  raced   \* history: a takeover or an unlock removed a live holder's lock file

lockVars == <<lock, doing, raced>>

NoLock == [owner |-> "none", stale |-> FALSE]
LockedBy(p) == [owner |-> p, stale |-> FALSE]

LockPhases == {"idle", "stat", "remove", "recreate", "held", "dead"}

Holders == {p \in Procs : doing[p] = "held"}

Enter(p, phase) == doing' = [doing EXCEPT ![p] = phase]

LockInit ==
  /\ lock = NoLock
  /\ doing = [p \in Procs |-> "idle"]
  /\ raced = FALSE

\* The first O_CREATE|O_EXCL.
Create(p) ==
  /\ doing[p] = "idle"
  /\ \/ lock = NoLock /\ lock' = LockedBy(p) /\ Enter(p, "held")
     \/ lock # NoLock /\ Enter(p, "stat") /\ UNCHANGED lock
  /\ UNCHANGED raced

\* Mutant: a lock is never taken for stale.
StatNeverStale(p) ==
  /\ doing[p] = "stat"
  /\ Enter(p, "idle")
  /\ UNCHANGED <<lock, raced>>

\* os.Stat: only a stale file is taken over; a young or a vanished one is an error.
Stat(p) ==
  /\ doing[p] = "stat"
  /\ Enter(p, IF lock.stale THEN "remove" ELSE "idle")
  /\ UNCHANGED <<lock, raced>>

\* os.Remove of whatever file has that name, by a takeover or by an unlock.
RemoveFile(p) ==
  /\ lock' = NoLock
  /\ raced' = (raced \/ \E q \in Holders \ {p} : lock.owner = q)

RemoveOld(p) ==
  /\ doing[p] = "remove"
  /\ RemoveFile(p)
  /\ Enter(p, "recreate")

\* Mutant: the second attempt lacks O_EXCL.
RecreateShared(p) ==
  /\ doing[p] = "recreate"
  /\ lock' = LockedBy(p)
  /\ Enter(p, "held")
  /\ UNCHANGED raced

\* The second O_CREATE|O_EXCL, the last.
Recreate(p) ==
  /\ doing[p] = "recreate"
  /\ \/ lock = NoLock /\ lock' = LockedBy(p) /\ Enter(p, "held")
     \/ lock # NoLock /\ Enter(p, "idle") /\ UNCHANGED lock
  /\ UNCHANGED raced

\* The deferred unlock.
Unlock(p) ==
  /\ doing[p] = "held"
  /\ RemoveFile(p)
  /\ Enter(p, "idle")

\* Thirty seconds pass over the lock file.
GrowStale ==
  /\ lock # NoLock /\ ~lock.stale
  /\ SlowHolders \/ lock.owner \notin Holders
  /\ lock' = [lock EXCEPT !.stale = TRUE]
  /\ UNCHANGED <<doing, raced>>

\* The process dies in the middle of a call; its lock file stays.
Crash(p) ==
  /\ doing[p] \notin {"idle", "dead"}
  /\ Enter(p, "dead")
  /\ UNCHANGED <<lock, raced>>

Acquire(p) == Create(p) \/ Stat(p) \/ RemoveOld(p) \/ Recreate(p)

LockNext ==
  \/ \E p \in Procs : Acquire(p) \/ Unlock(p) \/ Crash(p)
  \/ GrowStale

LockSpec == LockInit /\ [][LockNext]_lockVars

\* Callers keep calling (the orchestrator every 5 s), calls run to their end
\* unless the process dies, and time passes.
LockFairSpec ==
  /\ LockSpec
  /\ \A p \in Procs : WF_lockVars(Acquire(p) \/ Unlock(p))
  /\ WF_lockVars(GrowStale)
----------------------------------------------------------------------------
\* Every variable of the lock has its type.
LockTypeOK ==
  /\ lock \in [owner : Procs, stale : BOOLEAN] \cup {NoLock}
  /\ doing \in [Procs -> LockPhases]
  /\ raced \in BOOLEAN

\* "lock acquires an exclusive advisory lock" (queue.go:458).
MutualExclusion == \A p, q \in Holders : p = q

\* The lock is exclusive as long as no os.RemoveOld, by a process that took the
\* file for stale or by one that unlocks, has hit a live holder's lock file:
\* crashes and takeovers alone do no harm.
ExclusiveUnlessRaced == ~raced => MutualExclusion

\* No lock file outlives the call that created it, except by a crash: even when
\* holders overlap, the last of them to unlock leaves none behind.
NoLeakedLock == lock # NoLock => doing[lock.owner] \in {"held", "dead"}

\* queue.go:17: a crash does not lock everybody out; while some process lives,
\* the lock a dead one left is removed.
LockoutEnds ==
  \A p \in Procs :
    doing[p] = "dead" /\ lock.owner = p
      ~> lock.owner # p \/ \A q \in Procs : doing[q] = "dead"
============================================================================
