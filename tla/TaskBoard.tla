------------------------------ MODULE TaskBoard ------------------------------
(***************************************************************************)
(* What the queue file is to those who share it in a hunt: a board of      *)
(* tasks, in the order they were added, which the user, the orchestrator   *)
(* and its workers move along one at a time. There is no file to rewrite,  *)
(* no lock and no crash to see; a task may be moved again after a retry.   *)
(***************************************************************************)
EXTENDS Naturals, Sequences

CONSTANTS
  Bases,   \* tasks users add
  Targets  \* what workers find

\* A finding's task is named after the task that found it.
Ids == {<<b>> : b \in Bases} \cup (Bases \X Targets)

VARIABLES
  board,    \* the tasks, each with its status; a finding may be there twice
  verdicts  \* what workers have reported, as identifier and verdict

boardVars == <<board, verdicts>>

Places(id) == {i \in DOMAIN board : board[i].id = id}

\* The task has a place with one of these statuses.
Has(id, statuses) == \E i \in Places(id) : board[i].status \in statuses

Put(id) == board' = Append(board, [id |-> id, status |-> "pending"])

Mark(places, status) ==
  board' = [i \in DOMAIN board |->
              IF i \in places THEN [board[i] EXCEPT !.status = status] ELSE board[i]]

MarkOne(id, status) == \E i \in Places(id) : Mark({i}, status)
----------------------------------------------------------------------------
BoardInit == verdicts = {} /\ \A i \in DOMAIN board : board[i].status = "pending"

\* A user adds a task, ...
Add(b) == Places(<<b>>) = {} /\ Put(<<b>>) /\ UNCHANGED verdicts

\* ... or has one tried again.
Retry(id) == MarkOne(id, "pending") /\ UNCHANGED verdicts

\* A pending task gets a worker, ...
Spawn(id) == Has(id, {"pending"}) /\ MarkOne(id, "running") /\ UNCHANGED verdicts

\* ... or is given up, as one whose worker does not start.
GiveUp(id) == Has(id, {"pending", "running"}) /\ MarkOne(id, "failed") /\ UNCHANGED verdicts

\* A worker of a task on the board reports.
Report(id, verdict) ==
  /\ Places(id) # {}
  /\ verdicts' = verdicts \cup {<<id, verdict>>}
  /\ UNCHANGED board

\* A verdict is recorded only if it was reported.
Settle(id, verdict) ==
  <<id, verdict>> \in verdicts /\ Mark(Places(id), verdict) /\ UNCHANGED verdicts

\* A finding is added only when the task that made it is reported as done.
AddFinding(b, t) ==
  /\ <<<<b>>, "done">> \in verdicts
  /\ Put(<<b, t>>)
  /\ UNCHANGED verdicts

Move ==
  \/ \E b \in Bases : Add(b) \/ \E t \in Targets : AddFinding(b, t)
  \/ \E id \in Ids :
       \/ Retry(id) \/ Spawn(id) \/ GiveUp(id)
       \/ \E verdict \in {"done", "failed"} : Report(id, verdict) \/ Settle(id, verdict)

BoardSpec == BoardInit /\ [][Move]_boardVars
============================================================================
