-------------------------- MODULE MCEngagementMemory --------------------------
(***************************************************************************)
(* Instances of EngagementMemory: two hosts and one source, so that calls  *)
(* repeat hosts within a call and between calls.                           *)
(***************************************************************************)
EXTENDS EngagementMemory, TLC

Symmetry == Permutations(Callers)
============================================================================
