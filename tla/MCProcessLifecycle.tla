------------------------- MODULE MCProcessLifecycle -------------------------
(***************************************************************************)
(* Instances of ProcessLifecycle for model checking.                       *)
(***************************************************************************)
EXTENDS ProcessLifecycle

CONSTANTS o1, a, b
=============================================================================
