-------------------------- MODULE TaskQueueProofs --------------------------
(***************************************************************************)
(* Proofs about the lock file and the task queue that processes share      *)
(* under it, for any processes, tasks, priorities and creation times: the  *)
(* lock is exclusive until a live holder's file has been removed, no       *)
(* identifier is ever twice in the queue whatever happens to the lock,     *)
(* until it fails every change of the file is one atomic call, and the     *)
(* scan of Next finds the task it should.                                  *)
(***************************************************************************)
EXTENDS TaskQueue, Recursion
----------------------------------------------------------------------------
(* The lock file.                                                          *)

\* Until then every holder owns the lock file, of which there is one.
HoldersOwnLock == ~raced => \A p \in Holders : lock.owner = p

LockInv == LockTypeOK /\ HoldersOwnLock /\ NoLeakedLock

\* A lock file on disk has an owner, and "no lock file" has none.
LEMMA NoLockFact ==
  /\ NoLock.owner = "none"
  /\ \A p \in Procs : LockedBy(p) \in [owner : Procs, stale : BOOLEAN]
                      /\ LockedBy(p).owner = p /\ LockedBy(p) # NoLock
BY LockAssumption DEF NoLock, LockedBy

\* At first nobody holds the lock.
LEMMA LockInitInv == LockInit => LockInv
BY DEF LockInit, LockInv, LockTypeOK, HoldersOwnLock, NoLeakedLock, Holders,
       LockPhases

\* Removing the file either takes it from its one holder, or is recorded.
LEMMA RemovalRecorded ==
  ASSUME LockInv, NEW p \in Procs, RemoveFile(p), ~raced'
  PROVE  ~raced /\ Holders \subseteq {p}
BY DEF LockInv, LockTypeOK, HoldersOwnLock, RemoveFile, Holders

\* Every system call of newLockFile and of unlock, every death, and time passing.
LEMMA LockStepInv == LockInv /\ [LockNext]_lockVars => LockInv'
<1> SUFFICES ASSUME LockInv, [LockNext]_lockVars PROVE LockInv'
  OBVIOUS
<1> USE LockAssumption, NoLockFact DEF LockInv, LockTypeOK, Enter
<1>1. ASSUME NEW p \in Procs, Create(p) PROVE LockInv'
  BY <1>1 DEF Create, HoldersOwnLock, NoLeakedLock, Holders, LockPhases
<1>2. ASSUME NEW p \in Procs, Stat(p) PROVE LockInv'
  BY <1>2 DEF Stat, HoldersOwnLock, NoLeakedLock, Holders, LockPhases
<1>3. ASSUME NEW p \in Procs, RemoveOld(p) PROVE LockInv'
  <2>1. LockTypeOK' /\ NoLeakedLock'
    BY <1>3 DEF RemoveOld, RemoveFile, NoLeakedLock, Holders, LockPhases
  <2>2. HoldersOwnLock'
    BY <1>3, RemovalRecorded DEF RemoveOld, HoldersOwnLock, Holders
  <2>3. QED
    BY <2>1, <2>2
<1>4. ASSUME NEW p \in Procs, Recreate(p) PROVE LockInv'
  BY <1>4 DEF Recreate, HoldersOwnLock, NoLeakedLock, Holders, LockPhases
<1>5. ASSUME NEW p \in Procs, Unlock(p) PROVE LockInv'
  <2>1. LockTypeOK' /\ NoLeakedLock'
    BY <1>5 DEF Unlock, RemoveFile, NoLeakedLock, Holders, LockPhases
  <2>2. HoldersOwnLock'
    BY <1>5, RemovalRecorded DEF Unlock, HoldersOwnLock, Holders
  <2>3. QED
    BY <2>1, <2>2
<1>6. ASSUME NEW p \in Procs, Crash(p) PROVE LockInv'
  BY <1>6 DEF Crash, HoldersOwnLock, NoLeakedLock, Holders, LockPhases
<1>7. CASE GrowStale
  BY <1>7 DEF GrowStale, HoldersOwnLock, NoLeakedLock, Holders, NoLock
<1>8. CASE UNCHANGED lockVars
  BY <1>8 DEF lockVars, HoldersOwnLock, NoLeakedLock, Holders
<1>9. QED
  BY <1>1, <1>2, <1>3, <1>4, <1>5, <1>6, <1>7, <1>8 DEF LockNext, Acquire

\* Two holders would both own the one file.
LEMMA LockInvExclusive == LockInv => ExclusiveUnlessRaced
BY DEF LockInv, HoldersOwnLock, ExclusiveUnlessRaced, MutualExclusion

\* The variables of the lock file keep their types (newLockFile).
THEOREM LockTypeCorrect == LockSpec => []LockTypeOK
<1>1. LockInv => LockTypeOK
  BY DEF LockInv
<1>2. QED
  BY <1>1, LockInitInv, LockStepInv, PTL DEF LockSpec

\* newLockFile is exclusive for any number of processes, crashes and takeovers,
\* as long as no live holder's lock file has been removed.
THEOREM LockExclusive == LockSpec => []ExclusiveUnlessRaced
BY LockInitInv, LockStepInv, LockInvExclusive, PTL DEF LockSpec

\* A lock file always belongs to a call in progress or to a process that died
\* in one: no return path, and no overlap of two holders, leaves one behind.
THEOREM LockNeverLeaked == LockSpec => []NoLeakedLock
<1>1. LockInv => NoLeakedLock
  BY DEF LockInv
<1>2. QED
  BY <1>1, LockInitInv, LockStepInv, PTL DEF LockSpec
----------------------------------------------------------------------------
(* The queue.                                                              *)

Unique(tasks) == \A i, j \in DOMAIN tasks : tasks[i].id = tasks[j].id => i = j

AllUnique == Unique(file) /\ \A p \in Procs : Unique(snap[p])

\* Until the lock fails, what a holder has loaded is what the file holds.
SnapsCurrent == ~raced => \A p \in Procs : InStage(p, "save") => snap[p] = file

\* A process that does not hold the lock starts its next call by loading.
Resting == \A p \in Procs : doing[p] # "held" => stage[p] = "load"

QueueInv == LockInv /\ TypeOK /\ AllUnique /\ Resting /\ SnapsCurrent

\* What one call makes of a well-typed list with unique identifiers is one too.
LEMMA UpdatesAdd ==
  ASSUME NEW tasks \in Seq(SavedTask), NEW call \in Calls, NEW new,
         Acceptable(call), Updates(call, tasks, new), call.name = "add"
  PROVE  new \in Seq(SavedTask) /\ (Unique(tasks) => Unique(new))
<1> DEFINE t == [id |-> call.id, prio |-> call.prio,
                 status |-> "pending", created |-> call.created]
<1>1. call \in [name : {"add"}, id : Ids, prio : Prios, created : Stamps]
  BY DEF Calls
<1>2. t \in SavedTask
  BY <1>1 DEF SavedTask, Task, Statuses, Acceptable
<1>3. new = Append(tasks, t) /\ t.id \notin IdsIn(tasks)
  BY DEF Updates, Added
<1> HIDE DEF t
<1>4. new \in Seq(SavedTask)
  BY <1>2, <1>3
<1>5. ASSUME Unique(tasks) PROVE Unique(new)
  BY <1>2, <1>3, <1>5 DEF Unique, IdsIn
<1>6. QED
  BY <1>4, <1>5

\* The same for the calls that set a status: they keep identifiers and length.
LEMMA UpdatesStatus ==
  ASSUME NEW tasks \in Seq(SavedTask), NEW call \in Calls, NEW new,
         Updates(call, tasks, new), call.name # "add"
  PROVE  new \in Seq(SavedTask) /\ (Unique(tasks) => Unique(new))
<1> DEFINE s == NewStatus(call.name)
<1>1. s \in Statuses
  BY DEF NewStatus, Statuses
<1>2. PICK i \in DOMAIN tasks : new = [tasks EXCEPT ![i].status = s]
  BY DEF Updates
<1> HIDE DEF s
<1>3. [tasks[i] EXCEPT !.status = s] \in SavedTask
  BY <1>1 DEF SavedTask, Task
<1>4. /\ new = [tasks EXCEPT ![i] = [tasks[i] EXCEPT !.status = s]]
      /\ [tasks[i] EXCEPT !.status = s].id = tasks[i].id
  BY <1>2 DEF SavedTask, Task
<1> DEFINE t == [tasks[i] EXCEPT !.status = s]
<1> HIDE DEF t
<1>5. new = [tasks EXCEPT ![i] = t] /\ t \in SavedTask /\ t.id = tasks[i].id
  BY <1>3, <1>4 DEF t
<1>6. new \in Seq(SavedTask) /\ (Unique(tasks) => Unique(new))
  BY <1>5 DEF Unique
<1>7. QED
  BY <1>6

\* At first the file is empty and no call is under way.
LEMMA QueueInitInv == Init => QueueInv
<1> SUFFICES ASSUME Init PROVE QueueInv
  OBVIOUS
<1>1. LockInv
  BY LockInitInv DEF Init
<1>2. TypeOK
  BY <1>1 DEF Init, TypeOK, LockInv
<1>3. AllUnique /\ Resting /\ SnapsCurrent
  BY DEF Init, LockInit, AllUnique, Unique, Resting, SnapsCurrent, InStage
<1>4. QED
  BY <1>1, <1>2, <1>3 DEF QueueInv

\* Seen from the lock file, every step of the queue is one of its steps.
LEMMA QueueStepIsLockStep == [Next]_queueVars => [LockNext]_lockVars
BY DEF Next, queueVars, LockNext, lockVars, Lock, Load, Save, SaveNothing,
       Return, Die, Age

\* Only one process can be about to save while the lock holds.
LEMMA OneSaver ==
  ASSUME LockInv, ~raced, NEW p \in Procs, NEW q \in Procs,
         doing[p] = "held", doing[q] = "held"
  PROVE  p = q
BY DEF LockInv, HoldersOwnLock, Holders

\* The two parts that hold whether the lock does or not.
LEMMA QueueStepTyped == QueueInv /\ [Next]_queueVars => TypeOK' /\ AllUnique'
<1> SUFFICES ASSUME QueueInv, [Next]_queueVars PROVE TypeOK' /\ AllUnique'
  OBVIOUS
<1>1. LockTypeOK'
  BY QueueStepIsLockStep, LockStepInv DEF QueueInv, LockInv
<1>2. << >> \in Seq(SavedTask) /\ Unique(<< >>)
  BY DEF Unique
<1> USE DEF QueueInv, TypeOK, AllUnique, MoveTo, Forget
<1>3. ASSUME NEW p \in Procs, Lock(p) PROVE TypeOK' /\ AllUnique'
  BY <1>1, <1>3 DEF Lock, Unique
<1>4. ASSUME NEW p \in Procs, Load(p) PROVE TypeOK' /\ AllUnique'
  <2>1. file' \in Seq(SavedTask) /\ snap' \in [Procs -> Seq(SavedTask)]
        /\ stage' \in [Procs -> {"load", "save", "return"}]
    BY <1>4 DEF Load
  <2>2. AllUnique'
    BY <1>4 DEF Load, Unique
  <2>3. QED
    BY <1>1, <2>1, <2>2
<1>5. ASSUME NEW p \in Procs, Save(p) PROVE TypeOK' /\ AllUnique'
  <2>1. PICK call \in Calls : Acceptable(call) /\ Updates(call, snap[p], file')
    BY <1>5 DEF Save
  <2>2. snap[p] \in Seq(SavedTask) /\ Unique(snap[p])
    OBVIOUS
  <2>3. file' \in Seq(SavedTask) /\ Unique(file')
    BY <2>1, <2>2, UpdatesAdd, UpdatesStatus
  <2>4. snap' \in [Procs -> Seq(SavedTask)] /\ \A q \in Procs : Unique(snap'[q])
    BY <1>2, <1>5 DEF Save
  <2>5. stage' \in [Procs -> {"load", "save", "return"}]
    BY <1>5 DEF Save
  <2>6. QED
    BY <1>1, <2>3, <2>4, <2>5 DEF Unique
<1>6. ASSUME NEW p \in Procs, SaveNothing(p) \/ Die(p)
      PROVE  TypeOK' /\ AllUnique'
  <2>1. snap' \in [Procs -> Seq(SavedTask)] /\ \A q \in Procs : Unique(snap'[q])
    BY <1>2, <1>6 DEF SaveNothing, Die
  <2>2. file' = file /\ stage' \in [Procs -> {"load", "save", "return"}]
    BY <1>6 DEF SaveNothing, Die
  <2>3. QED
    BY <1>1, <2>1, <2>2 DEF Unique
<1>7. ASSUME NEW p \in Procs, Return(p) PROVE TypeOK' /\ AllUnique'
  BY <1>1, <1>7 DEF Return, Unique
<1>8. CASE Age \/ UNCHANGED queueVars
  BY <1>1, <1>8 DEF Age, queueVars, Unique
<1>9. QED
  BY <1>3, <1>4, <1>5, <1>6, <1>7, <1>8 DEF Next

\* Taking or losing the lock leaves a process at the start of a call.
LEMMA QueueStepResting == QueueInv /\ [Next]_queueVars => Resting'
<1> SUFFICES ASSUME QueueInv, [Next]_queueVars,
                    NEW q \in Procs, doing'[q] # "held"
             PROVE  stage'[q] = "load"
  BY DEF Resting
<1> USE DEF QueueInv, Resting, TypeOK, LockTypeOK, InStage, MoveTo, Enter
<1>1. ASSUME NEW p \in Procs, Lock(p) PROVE stage'[q] = "load"
  BY <1>1 DEF Lock, Acquire, Create, Stat, RemoveOld, Recreate
<1>2. ASSUME NEW p \in Procs, Load(p) \/ Save(p) \/ SaveNothing(p)
      PROVE  stage'[q] = "load"
  BY <1>2 DEF Load, Save, SaveNothing, lockVars
<1>3. ASSUME NEW p \in Procs, Return(p) \/ Die(p) PROVE stage'[q] = "load"
  BY <1>3 DEF Return, Unlock, Die, Crash
<1>4. CASE Age \/ UNCHANGED queueVars
  BY <1>4 DEF Age, GrowStale, queueVars
<1>5. QED
  BY <1>1, <1>2, <1>3, <1>4 DEF Next

\* Whoever saves is the only holder, so no other copy becomes outdated.
LEMMA QueueStepCurrent == QueueInv /\ [Next]_queueVars => SnapsCurrent'
<1> SUFFICES ASSUME QueueInv, [Next]_queueVars, ~raced',
                    NEW q \in Procs, InStage(q, "save")'
             PROVE  snap'[q] = file'
  BY DEF SnapsCurrent
<1>1. LockInv' /\ ~raced
  <2>1. LockInv'
    BY QueueStepIsLockStep, LockStepInv DEF QueueInv
  <2>2. raced => raced'
    BY DEF Next, queueVars, Lock, Load, Save, SaveNothing, Return, Die, Age,
           Acquire, lockVars, Create, Stat, RemoveOld, Recreate, Unlock, RemoveFile,
           Crash, GrowStale
  <2>3. QED
    BY <2>1, <2>2
<1> USE DEF QueueInv, SnapsCurrent, TypeOK, LockTypeOK, InStage, MoveTo, Forget,
            Enter
<1>2. ASSUME NEW p \in Procs, Lock(p) PROVE snap'[q] = file'
  BY <1>1, <1>2 DEF Lock, Resting
<1>3. ASSUME NEW p \in Procs, Load(p) PROVE snap'[q] = file'
  BY <1>1, <1>3 DEF Load, lockVars
<1>4. ASSUME NEW p \in Procs, Save(p) PROVE snap'[q] = file'
  <2>1. doing[p] = "held" /\ doing[q] = "held" /\ stage'[p] = "return"
    BY <1>4 DEF Save, lockVars
  <2>2. p = q
    BY <1>1, <2>1, OneSaver
  <2>3. QED
    BY <2>1, <2>2
<1>5. ASSUME NEW p \in Procs, SaveNothing(p) PROVE snap'[q] = file'
  BY <1>1, <1>5 DEF SaveNothing, lockVars
<1>6. ASSUME NEW p \in Procs, Return(p) PROVE snap'[q] = file'
  BY <1>1, <1>6 DEF Return, Unlock
<1>7. ASSUME NEW p \in Procs, Die(p) PROVE snap'[q] = file'
  BY <1>1, <1>7 DEF Die, Crash
<1>8. CASE Age \/ UNCHANGED queueVars
  BY <1>1, <1>8 DEF Age, GrowStale, queueVars
<1>9. QED
  BY <1>2, <1>3, <1>4, <1>5, <1>6, <1>7, <1>8 DEF Next

\* The parts together.
LEMMA QueueStepInv == QueueInv /\ [Next]_queueVars => QueueInv'
<1> SUFFICES ASSUME QueueInv, [Next]_queueVars PROVE QueueInv'
  OBVIOUS
<1>1. LockInv'
  BY QueueStepIsLockStep, LockStepInv DEF QueueInv
<1>2. QED
  BY <1>1, QueueStepTyped, QueueStepResting, QueueStepCurrent DEF QueueInv

\* The abstract module's operators are the ones of QueueOps.
LEMMA SameOperators ==
  \A call \in Calls : Acceptable(call) /\ Updates(call, file, file') => AQ!Step
BY DEF AQ!Step, AQ!Calls, Calls, AQ!Acceptable, Acceptable, AQ!Updates, Updates,
       AQ!Added, Added, AQ!IdsIn, IdsIn, AQ!Selects, Selects, AQ!NextIndex,
       NextIndex, AQ!Before, Before, AQ!NewStatus, NewStatus

\* A step that changes the file while the lock holds is an atomic call.
LEMMA QueueStepAtomic ==
  QueueInv /\ [Next]_queueVars => [raced' \/ AQ!Step]_file
<1> SUFFICES ASSUME QueueInv, [Next]_queueVars, file' # file, ~raced'
             PROVE  AQ!Step
  OBVIOUS
<1>1. PICK p \in Procs : Save(p)
  BY DEF Next, queueVars, Lock, Load, SaveNothing, Return, Die, Age
<1>2. snap[p] = file
  BY <1>1 DEF QueueInv, SnapsCurrent, Save, InStage, lockVars
<1>3. QED
  BY <1>1, <1>2, SameOperators DEF Save

\* The queue file always holds well-formed, in-scope tasks with valid
\* priorities, for every way the calls interleave and fail (Add, saveTasks).
THEOREM QueueTypeCorrect == Spec => []TypeOK
<1>1. QueueInv => TypeOK
  BY DEF QueueInv
<1>2. QED
  BY <1>1, QueueInitInv, QueueStepInv, PTL DEF Spec

\* No identifier is ever in the queue file twice, even after the lock has
\* failed: a save writes one update of a list that was once in the file (Add).
THEOREM QueueIdsUnique == Spec => []UniqueIds
<1>1. QueueInv => UniqueIds
  BY DEF QueueInv, AllUnique, Unique, UniqueIds
<1>2. QED
  BY <1>1, QueueInitInv, QueueStepInv, PTL DEF Spec

\* Until a live holder's lock file is removed, every change of the queue file
\* is one atomic call on its current contents: no update is lost.
THEOREM QueueAtomicUnlessRaced == Spec => AtomicUnlessRaced
<1>1. QED
  BY QueueInitInv, QueueStepInv, QueueStepAtomic, PTL DEF Spec, AtomicUnlessRaced

\* In a behaviour in which the lock never fails, the queue implements the
\* atomic queue: load, save and rename under the lock file are invisible.
THEOREM QueueImplementsAtomic == Spec /\ []~raced => Atomic
<1>1. Init => AQ!AtomicInit
  BY DEF Init, AQ!AtomicInit
<1>2. QED
  BY <1>1, QueueInitInv, QueueStepInv, QueueStepAtomic, PTL
     DEF Spec, Atomic, AQ!AtomicSpec
----------------------------------------------------------------------------
(* The scan of Next.                                                       *)

\* Task i is chosen over the best so far, of which 0 stands for none.
Better(tasks, i, b) ==
  /\ tasks[i].status = "pending"
  /\ b = 0 \/ Before(tasks[i], tasks[b])

\* What the scan has found after each task.
Scan(tasks, best) ==
  best = [i \in 0..Len(tasks) |->
            IF i = 0 THEN 0
            ELSE IF Better(tasks, i, best[i - 1]) THEN i ELSE best[i - 1]]

\* There is such a function.
LEMMA ScanExists ==
  ASSUME NEW tasks \in Seq(SavedTask)
  PROVE  \E best : Scan(tasks, best)
<1> DEFINE n == Len(tasks)
           V == 0..n
           step == [i \in 1..n |-> [b \in V |-> IF Better(tasks, i, b) THEN i ELSE b]]
<1>1. n \in Nat /\ 0 \in V
  OBVIOUS
<1> HIDE DEF n
<1>2. step \in Steps(n, V)
  BY DEF Steps
<1> HIDE DEF step, V
<1>3. PICK f : Follows(f, n, V, 0, step)
  BY <1>1, <1>2, RecursionExists
<1>4. f \in [0..n -> V] /\ f[0] = 0 /\ \A i \in 1..n : f[i] = step[i][f[i - 1]]
  BY <1>3 DEF Follows
<1>5. \A i \in 1..n : f[i - 1] \in V
  BY <1>1, <1>4
<1>6. \A i \in 1..n : f[i] = IF Better(tasks, i, f[i - 1]) THEN i ELSE f[i - 1]
  BY <1>4, <1>5 DEF step
<1>7. \A i \in 0..n : f[i] = IF i = 0 THEN 0
                            ELSE IF Better(tasks, i, f[i - 1]) THEN i ELSE f[i - 1]
  BY <1>1, <1>4, <1>6
<1>8. f = [i \in 0..n |-> f[i]]
  BY <1>4
<1> QED
  BY <1>7, <1>8 DEF Scan, n

\* Its value at the end is what NextIndex gives.
LEMMA NextIndexScans ==
  ASSUME NEW tasks \in Seq(SavedTask)
  PROVE  \E best : Scan(tasks, best) /\ NextIndex(tasks) = best[Len(tasks)]
<1> DEFINE best == CHOOSE f : Scan(tasks, f)
<1>1. Scan(tasks, best)
  BY ScanExists
<1>2. NextIndex(tasks) = best[Len(tasks)]
  BY DEF NextIndex, Scan, Better
<1> QED
  BY <1>1, <1>2

\* "Higher priority, then earlier" orders the tasks.
LEMMA BeforeOrders ==
  ASSUME NEW t \in SavedTask, NEW u \in SavedTask, NEW v \in SavedTask
  PROVE  ~Before(t, t) /\ (Before(t, u) /\ Before(u, v) => Before(t, v))
<1>1. ASSUME NEW w \in SavedTask PROVE w.prio \in Int /\ w.created \in Int
  <2>1. w.prio \in 1..5 /\ w.created \in Stamps
    BY DEF SavedTask, Task
  <2>2. w.created \in Int
    BY <2>1, QueueAssumption, Zenon
  <2>3. \A n \in 1..5 : n \in Int
    OBVIOUS
  <2> QED
    BY <2>1, <2>2, <2>3, Zenon
<1>2. /\ t.prio \in Int /\ t.created \in Int /\ u.prio \in Int /\ u.created \in Int
      /\ v.prio \in Int /\ v.created \in Int
  BY <1>1
<1> QED
  BY <1>2 DEF Before

\* The best so far: none of those looked at is pending, or the best is, and none
\* of them comes before it.
Found(tasks, i, b) ==
  \/ /\ b = 0
     /\ \A j \in 1..i : tasks[j].status # "pending"
  \/ /\ b \in 1..i /\ tasks[b].status = "pending"
     /\ \A j \in 1..i : tasks[j].status = "pending" => ~Before(tasks[j], tasks[b])

\* One more task is looked at.
LEMMA FoundGoesOn ==
  ASSUME NEW tasks \in Seq(SavedTask), NEW i \in 1..Len(tasks), NEW b, Found(tasks, i - 1, b)
  PROVE  Found(tasks, i, IF Better(tasks, i, b) THEN i ELSE b)
<1>1. \A j \in 1..i : tasks[j] \in SavedTask /\ (j = i \/ j \in 1..(i - 1))
  OBVIOUS
<1>2. i \in 1..i /\ \A j \in 1..(i - 1) : j \in 1..i
  OBVIOUS
<1>3. CASE Better(tasks, i, b) /\ b = 0
  <2>1. ~Before(tasks[i], tasks[i])
    BY <1>1, <1>2, BeforeOrders
  <2>2. \A j \in 1..i : tasks[j].status = "pending" => j = i
    <3>1. \A j \in 1..(i - 1) : tasks[j].status # "pending"
      BY <1>3 DEF Found
    <3> QED
      BY <1>1, <3>1
  <2> QED
    BY <1>2, <1>3, <2>1, <2>2 DEF Found, Better
<1>4. CASE Better(tasks, i, b) /\ b # 0
  <2>1. /\ b \in 1..i
        /\ \A j \in 1..(i - 1) : tasks[j].status = "pending" => ~Before(tasks[j], tasks[b])
    BY <1>2, <1>4 DEF Found
  <2>2. Before(tasks[i], tasks[b]) /\ tasks[i].status = "pending"
    BY <1>4 DEF Better
  <2>3. ASSUME NEW j \in 1..i, tasks[j].status = "pending"
        PROVE  ~Before(tasks[j], tasks[i])
    <3>1. tasks[j] \in SavedTask /\ tasks[i] \in SavedTask /\ tasks[b] \in SavedTask
      BY <1>1, <1>2, <2>1
    <3>2. CASE j = i
      BY <3>1, <3>2, BeforeOrders
    <3>3. CASE j # i
      <4>1. ~Before(tasks[j], tasks[b])
        BY <1>1, <2>1, <2>3, <3>3
      <4> QED
        BY <2>2, <3>1, <4>1, BeforeOrders
    <3> QED
      BY <3>2, <3>3
  <2> QED
    BY <1>2, <1>4, <2>2, <2>3 DEF Found
<1>5. CASE ~Better(tasks, i, b)
  BY <1>1, <1>2, <1>5 DEF Found, Better
<1> QED
  BY <1>3, <1>4, <1>5

\* What the scan has found at the end.
LEMMA ScanFinds ==
  ASSUME NEW tasks \in Seq(SavedTask)
  PROVE  Found(tasks, Len(tasks), NextIndex(tasks))
<1> DEFINE n == Len(tasks)
<1>1. n \in Nat /\ 0 \in 0..n /\ n \in 0..n
  OBVIOUS
<1>2. PICK best : Scan(tasks, best) /\ NextIndex(tasks) = best[n]
  BY NextIndexScans
<1> DEFINE S == {i \in 0..n : Found(tasks, i, best[i])}
<1>3. /\ best[0] = 0
      /\ \A i \in 1..n : best[i] = IF Better(tasks, i, best[i - 1]) THEN i ELSE best[i - 1]
  <2>1. \A i \in 0..n : best[i] = IF i = 0 THEN 0
                            ELSE IF Better(tasks, i, best[i - 1]) THEN i ELSE best[i - 1]
    BY <1>2 DEF Scan
  <2> QED
    BY <1>1, <2>1
<1>4. 0 \in S
  BY <1>1, <1>3 DEF Found
<1>5. ASSUME NEW i \in 1..n, i - 1 \in S PROVE i \in S
  <2>1. Found(tasks, i, best[i])
    BY <1>3, <1>5, FoundGoesOn
  <2> QED
    BY <1>1, <2>1
<1> HIDE DEF S, n
<1>6. \A i \in 0..n : i \in S
  BY <1>1, <1>4, <1>5, Interval, Zenon
<1>7. Found(tasks, n, best[n])
  BY <1>1, <1>6 DEF S
<1> QED
  BY <1>2, <1>7 DEF n

\* The one-pass scan of Next chooses a pending task that no pending task comes
\* before, and chooses none only when none is pending, however long the queue is
\* and whatever priorities and creation times its tasks have.
THEOREM QueueScanFindsBest == Spec => []ScanFindsBest
<1>1. QueueInv => ScanFindsBest
  <2> SUFFICES ASSUME QueueInv PROVE ScanFindsBest
    OBVIOUS
  <2>1. file \in Seq(SavedTask) /\ DOMAIN file = 1..Len(file)
    BY DEF QueueInv, TypeOK
  <2>2. Found(file, Len(file), NextIndex(file))
    BY <2>1, ScanFinds
  <2>3. 0 \notin 1..Len(file)
    BY <2>1
  <2> QED
    BY <2>1, <2>2, <2>3 DEF Found, ScanFindsBest
<1>2. QED
  BY <1>1, QueueInitInv, QueueStepInv, PTL DEF Spec
============================================================================
