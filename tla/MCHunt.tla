------------------------------- MODULE MCHunt -------------------------------
(***************************************************************************)
(* Instances of Hunt: one or two tasks of the user, and workers that find  *)
(* plain targets, safe or not, or one with a dot in it.                    *)
(***************************************************************************)
EXTENDS Hunt

OneTask  == <<"a">>
TwoTasks == <<"a", "b">>
============================================================================
