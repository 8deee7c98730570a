---------------------------- MODULE MCTaskQueue ----------------------------
(***************************************************************************)
(* Instances of TaskQueue: two tasks in scope and one outside, priorities  *)
(* below, within and above the valid range.                                *)
(***************************************************************************)
EXTENDS TaskQueue, TLC

Symmetry == Permutations(Procs)
============================================================================
