------------------------------ MODULE CorDebug ------------------------------
(***************************************************************************)
(* The part of the ICorDebug runtime that netcoredbg's execution control   *)
(* relies on.  It is not under src/: everything here is read off the way   *)
(* manageddebugger.cpp and valuewalk.cpp use the interfaces, and off the   *)
(* comment in ManagedDebugger::Pause: each Stop and each dispatched        *)
(* callback increments a stop counter, each Continue decrements it, and    *)
(* the process runs while it is zero.                                      *)
(***************************************************************************)
EXTENDS Integers, Sequences

CONSTANTS
  Threads,     \* managed threads of the debuggee
  Kinds,       \* the callbacks this instance lets the debuggee raise
  Faults,      \* the failures this instance injects, a subset of AllFaults
  MaxNested    \* bound: evaluations set up at once on one thread

NoOne == "none"      \* no thread, no owner (a thread id 0, an empty optional)

AllKinds == {"Breakpoint", "StepComplete", "EvalComplete", "EvalException",
             "Exception", "LoadModule", "CreateThread", "ExitThread", "ExitProcess"}

AllFaults == {"exceptionInfo",   \* reading the exception in the callback fails
              "evalThreadExit"}  \* a thread exits while it runs an evaluation

ASSUME CorDebugAssumption ==
  /\ NoOne \notin Threads
  /\ Kinds \subseteq AllKinds
  /\ Faults \subseteq AllFaults
  /\ MaxNested \in Nat \ {0}

VARIABLES
  alive,     \* the process exists
  stop,      \* the controller's stop counter
  live,      \* threads that have started and not exited
  dbgState,  \* thread -> "run" | "suspend" (SetDebugState)
  evals,     \* thread -> who set up the evaluations on it that have not
             \* ended, the innermost first: it is the one that ends next
  steppers,  \* threads with an active ICorDebugStepper
  pending    \* events raised and not yet dispatched

corVars == <<alive, stop, live, dbgState, evals, steppers, pending>>

Events == [kind : Kinds, thread : Threads]

CorTypeOK ==
  /\ alive \in BOOLEAN
  /\ stop \in Nat
  /\ live \in SUBSET Threads
  /\ dbgState \in [Threads -> {"run", "suspend"}]
  /\ steppers \in SUBSET Threads
  /\ pending \in SUBSET Events

CorInit ==
  /\ alive = TRUE
  /\ stop = 0
  /\ live \in {L \in SUBSET Threads : L # {}}
  /\ dbgState = [t \in Threads |-> "run"]
  /\ evals = [t \in Threads |-> <<>>]
  /\ steppers = {}
  /\ pending = {}

Synchronized == alive /\ stop > 0
Running == alive /\ stop = 0

(* ICorDebugController::Continue, its result dropped by the caller.        *)
DoContinue == stop' = IF Synchronized THEN stop - 1 ELSE stop

(* SetAllThreadsDebugState and SetDebugState need a synchronized process.  *)
SetStates(f) == dbgState' = IF Synchronized THEN f ELSE dbgState
AllRun == [t \in Threads |-> "run"]
OnlyRuns(u) == [t \in Threads |-> IF t = u THEN "run" ELSE "suspend"]

Runnable(t) == t \in live /\ dbgState[t] = "run"

(* CreateEval and Call succeed only on a live thread of a synchronized     *)
(* process; a thread that has queued the end of an evaluation, or its own, *)
(* is at no place where another evaluation can be set up.                  *)
CanEval(t) ==
  /\ Synchronized
  /\ t \in live
  /\ Len(evals[t]) < MaxNested
  /\ \A e \in pending : ~(e.kind \in {"EvalComplete", "EvalException"} /\ e.thread = t)
  /\ "evalThreadExit" \notin Faults =>
        \A e \in pending : ~(e.kind = "ExitThread" /\ e.thread = t)

CanRaise(e) ==
  CASE e.kind = "CreateThread" -> e.thread \notin live
    [] e.kind = "StepComplete" -> Runnable(e.thread) /\ e.thread \in steppers
                                                     /\ evals[e.thread] = <<>>
    [] e.kind \in {"EvalComplete", "EvalException"} ->
                                  Runnable(e.thread) /\ evals[e.thread] # <<>>
    [] e.kind = "ExitThread"   -> Runnable(e.thread) /\ (\/ evals[e.thread] = <<>>
                                                         \/ "evalThreadExit" \in Faults)
    [] OTHER                   -> Runnable(e.thread)

(* While the process runs, one thread reaches an event, or two do before   *)
(* either is dispatched: the comment in Exception speaks of exceptions     *)
(* thrown "in the same time from some threads", delivered one by one.      *)
Raise ==
  /\ Running
  /\ pending = {}
  /\ \E e, f \in Events :
       /\ CanRaise(e) /\ CanRaise(f)
       /\ e = f \/ e.thread # f.thread
       /\ pending' = {e, f}
  /\ UNCHANGED <<alive, stop, live, dbgState, evals, steppers>>

(* The effects of dispatching e: the stop counter goes up, an evaluation   *)
(* or a stepper that reports is finished, a thread or the process is gone. *)
DispatchEffects(e) ==
  /\ Running
  /\ e \in pending
  /\ pending' = pending \ {e}
  /\ stop' = stop + 1
  /\ alive' = (e.kind # "ExitProcess")
  /\ live' = CASE e.kind = "CreateThread" -> live \cup {e.thread}
               [] e.kind = "ExitThread"   -> live \ {e.thread}
               [] OTHER                   -> live
  /\ dbgState' = IF e.kind = "CreateThread"
                 THEN [dbgState EXCEPT ![e.thread] = "run"] ELSE dbgState
  /\ evals' = CASE e.kind \in {"EvalComplete", "EvalException"} /\ evals[e.thread] # <<>>
                                -> [evals EXCEPT ![e.thread] = Tail(@)]
                [] e.kind = "ExitThread" -> [evals EXCEPT ![e.thread] = <<>>]
                [] OTHER       -> evals
  /\ steppers' = IF e.kind \in {"StepComplete", "ExitThread"}
                 THEN steppers \ {e.thread} ELSE steppers

(* Whose evaluation the event e ends.                                      *)
Ended(e) ==
  IF e.kind \in {"EvalComplete", "EvalException"} /\ evals[e.thread] # <<>>
  THEN Head(evals[e.thread]) ELSE NoOne
=============================================================================
