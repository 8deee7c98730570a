--------------------------- MODULE MCSpecialists ---------------------------
(***************************************************************************)
(* Instances of Specialists: two permitted targets and one that is not, so *)
(* that the filters have something to keep, to drop and to lose.           *)
(***************************************************************************)
EXTENDS Specialists
============================================================================
