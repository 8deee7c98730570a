---------------------------- MODULE MCAuditTrail ----------------------------
(***************************************************************************)
(* Instances of AuditTrail: the ring is as small as it can be with order   *)
(* in it, so that a few entries evict, trim and survive a restart.         *)
(***************************************************************************)
EXTENDS AuditTrail, TLC

Symmetry == Permutations(Callers \ LogOnly)
============================================================================
