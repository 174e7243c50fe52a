----------------------- MODULE MCExceptionBreakpoints -----------------------
(***************************************************************************)
(* Instances of ExceptionBreakpoints for model checking.                   *)
(***************************************************************************)
EXTENDS ExceptionBreakpoints

CONSTANTS app, sys
=============================================================================
