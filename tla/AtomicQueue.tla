---------------------------- MODULE AtomicQueue ----------------------------
(***************************************************************************)
(* What the Queue promises its callers: one list of tasks on which every   *)
(* call that succeeds takes effect at once, whichever process makes it.    *)
(* There is no lock, no file and no failure to see.                        *)
(***************************************************************************)
EXTENDS QueueOps

VARIABLE tasks

AtomicInit == tasks = << >>

Step == \E call \in Calls : Acceptable(call) /\ Updates(call, tasks, tasks')

AtomicSpec == AtomicInit /\ [][Step]_tasks
============================================================================
