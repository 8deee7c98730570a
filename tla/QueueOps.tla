------------------------------ MODULE QueueOps ------------------------------
(***************************************************************************)
(* What one call of a Queue method does to the list of tasks it has loaded *)
(* (Add, Next, Start, Complete, Fail and Retry in internal/queue/queue.go),*)
(* apart from locking, loading and saving.                                 *)
(*                                                                         *)
(* A task keeps its identifier, priority, status and creation time. Its    *)
(* type is validated like its priority and is left out, and so are the     *)
(* error text and the time of the last update, which nothing reads.        *)
(***************************************************************************)
EXTENDS Integers, Sequences

CONSTANTS
  Ids,        \* task identifiers
  ScopedIds,  \* those whose target the scope validator accepts
  Prios,      \* priorities callers ask for, valid or not
  Stamps      \* creation times: wall-clock readings, in no particular order

ASSUME QueueAssumption ==
  ScopedIds \subseteq Ids /\ Prios \subseteq Int /\ Stamps \subseteq Int

Statuses == {"pending", "running", "done", "failed"}

Task == [id : Ids, prio : 1..5, status : Statuses, created : Stamps]

\* The calls that may change the file; Get and List only load it.
Calls ==
  [name : {"add"}, id : Ids, prio : Prios, created : Stamps]
    \cup [name : {"start", "complete", "fail", "retry"}, id : Ids]
    \cup [name : {"next"}]

IdsIn(tasks) == {tasks[i].id : i \in DOMAIN tasks}

\* Add's validation of the target and of the priority.
Acceptable(call) ==
  call.name = "add" => call.id \in ScopedIds /\ call.prio \in 1..5

Before(t, u) ==
  t.prio > u.prio \/ (t.prio = u.prio /\ t.created < u.created)

\* Mutant: the tie-break is lost.
NextIndexUntied(tasks) ==
  LET best[i \in 0..Len(tasks)] ==
        IF i = 0 THEN 0
        ELSE IF /\ tasks[i].status = "pending"
                /\ best[i - 1] = 0 \/ tasks[i].prio > tasks[best[i - 1]].prio
          THEN i
          ELSE best[i - 1]
  IN  best[Len(tasks)]

\* The scan of Next: the index of its choice, 0 if nothing is pending.
NextIndex(tasks) ==
  LET best[i \in 0..Len(tasks)] ==
        IF i = 0 THEN 0
        ELSE IF /\ tasks[i].status = "pending"
                /\ best[i - 1] = 0 \/ Before(tasks[i], tasks[best[i - 1]])
          THEN i
          ELSE best[i - 1]
  IN  best[Len(tasks)]

NewStatus(name) ==
  CASE name = "complete" -> "done"
    [] name = "fail"     -> "failed"
    [] name = "retry"    -> "pending"
    [] OTHER             -> "running"     \* start, next

\* The task a call other than Add updates: Next's choice, or the first that
\* has the identifier.
Selects(tasks, call, i) ==
  IF call.name = "next"
    THEN i = NextIndex(tasks)
    ELSE /\ tasks[i].id = call.id
         /\ \A j \in DOMAIN tasks : j < i => tasks[j].id # call.id

Added(tasks, call) ==
  Append(tasks, [id |-> call.id, prio |-> call.prio,
                 status |-> "pending", created |-> call.created])

\* Mutant: Add does not look for the identifier.
UpdatesAnyId(call, tasks, new) ==
  \/ call.name = "add" /\ new = Added(tasks, call)
  \/ /\ call.name # "add"
     /\ \E i \in DOMAIN tasks :
          /\ Selects(tasks, call, i)
          /\ new = [tasks EXCEPT ![i].status = NewStatus(call.name)]

\* The call turns the loaded tasks into the new ones. It is false of a call
\* that changes nothing and saves nothing: Add of an identifier that exists,
\* an unknown identifier, Next with nothing pending.
Updates(call, tasks, new) ==
  \/ /\ call.name = "add"
     /\ call.id \notin IdsIn(tasks)
     /\ new = Added(tasks, call)
  \/ /\ call.name # "add"
     /\ \E i \in DOMAIN tasks :
          /\ Selects(tasks, call, i)
          /\ new = [tasks EXCEPT ![i].status = NewStatus(call.name)]
============================================================================
