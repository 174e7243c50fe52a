--------------------------- MODULE ManagedDebugger ---------------------------
(***************************************************************************)
(* Execution control of netcoredbg: the Evaluator's promises and eval      *)
(* queue (valuewalk.cpp), the callbacks of ManagedCallback and the         *)
(* commands Continue, StepCommand, Pause, Evaluate and exceptionInfo       *)
(* (manageddebugger.cpp), and Breakpoints::HitBreakpoint, which evaluates  *)
(* a condition with m_breakpointsMutex held (breakpoints.cpp).             *)
(*                                                                         *)
(* Three kinds of threads of the debugger interleave with the debuggee:    *)
(* the protocol thread Cmd, the runtime's callback thread (cbpc), and one  *)
(* detached worker per Breakpoint callback.  One action is the code        *)
(* between two points where another of them can act.                       *)
(***************************************************************************)
EXTENDS CorDebug

CONSTANTS
  Cmd,            \* the protocol thread
  Workers,        \* slots for the threads the Breakpoint callback detaches
  Commands,       \* the requests this instance lets the client send
  MaxEvals,       \* bound: function evaluations one request makes
  ConditionEvals, \* bound: function evaluations one condition makes
  MaxQueue,       \* bound: length of m_evalQueue
  MaxDrift        \* bound: how far below zero m_stopCounter may go

Requesters == {Cmd} \cup Workers

ASSUME ManagedDebuggerAssumption ==
  /\ Cmd \notin Workers
  /\ NoOne \notin Requesters
  /\ Commands \subseteq {"continue", "step", "pause", "evaluate",
                         "exceptionInfo", "setBreakpoints"}
  /\ MaxEvals \in Nat /\ ConditionEvals \in Nat
  /\ MaxQueue \in Nat /\ MaxDrift \in Nat

VARIABLES
  evalQueue,    \* m_evalQueue
  evalResults,  \* m_evalResults: thread -> who waits for its promise, or NoOne
  stopCounter,  \* m_stopCounter
  lock,         \* owner of m_breakpointsMutex across steps
  pc,           \* where each requester is
  tid,          \* the thread each requester works on
  left,         \* evaluations each requester may still make
  fut,          \* its future: "none", "pending", "ready" or "broken"
  popLast,      \* Cmd pops the queue when it is done (exceptionInfo)
  cbpc,         \* where the callback thread is
  cbthread,     \* the thread its callback is about
  cbeval,       \* whose evaluation EvalComplete or EvalException ends
  cbnext,       \* evalThreadId read back from the queue by EvalComplete
  stops         \* stopped events sent since the last continued, up to 2

evalVars == <<evalQueue, evalResults>>
reqVars == <<pc, tid, left, fut, popLast>>
cbVars == <<cbpc, cbthread, cbeval, cbnext>>
vars == <<corVars, evalVars, stopCounter, lock, reqVars, cbVars, stops>>

-----------------------------------------------------------------------------
CallbackPCs == AllKinds \cup
  {"idle", "EvalQueue", "EvalRunAll", "EvalFront", "EvalPop", "EvalNext", "EvalSuspend",
   "EvalResume", "ExitDrain", "LoadModuleResolve",
   "ExceptionFilter", "ExceptionStop", "StopCheck", "StopDec", "StopStore", "StopEmit"}

RequesterPCs == {"idle", "hit", "evaluating", "runeval", "continueeval", "await", "continue",
                 "report", "resume", "emit", "dec", "stopping", "pausing", "breakmode", "setbp"}

EvalsOK == evals \in [Threads -> Seq(Requesters)]

TypeOK ==
  /\ CorTypeOK /\ EvalsOK
  /\ evalQueue \in Seq(Threads)
  /\ evalResults \in [Threads -> Requesters \cup {NoOne}]
  /\ stopCounter \in Int
  /\ lock \in Workers \cup {NoOne}
  /\ pc \in [Requesters -> RequesterPCs]
  /\ tid \in [Requesters -> Threads \cup {NoOne}]
  /\ left \in [Requesters -> Nat]
  /\ fut \in [Requesters -> {"none", "pending", "ready", "broken"}]
  /\ popLast \in BOOLEAN
  /\ cbpc \in CallbackPCs
  /\ cbthread \in Threads \cup {NoOne}
  /\ cbeval \in Requesters \cup {NoOne}
  /\ cbnext \in Threads \cup {NoOne}
  /\ stops \in 0..2

Init ==
  /\ CorInit
  /\ evalQueue = <<>>
  /\ evalResults = [t \in Threads |-> NoOne]
  /\ stopCounter = 0
  /\ lock = NoOne
  /\ pc = [r \in Requesters |-> "idle"]
  /\ tid = [r \in Requesters |-> NoOne]
  /\ left = [r \in Requesters |-> 0]
  /\ fut = [r \in Requesters |-> "none"]
  /\ popLast = FALSE
  /\ cbpc = "idle" /\ cbthread = NoOne /\ cbeval = NoOne /\ cbnext = NoOne
  /\ stops = 0

-----------------------------------------------------------------------------
(* Helpers of the Evaluator and of the protocol.                           *)

IsEvalRunning == \E t \in Threads : evalResults[t] # NoOne

(* RunEval keeps m_evalMutex from entering its promise to its Continue, so *)
(* IsEvalRunning and NotifyEvalComplete wait for it there.                 *)
EvalMutexFree == \A r \in Requesters : pc[r] # "continueeval"

Front(q) == IF q = <<>> THEN NoOne ELSE Head(q)
Popped(q) == IF q = <<>> THEN q ELSE Tail(q)

(* NotifyEvalComplete for thread t: the promise is fulfilled and erased.   *)
NotifyEvalComplete(t) ==
  /\ EvalMutexFree
  /\ fut' = [r \in Requesters |-> IF evalResults[t] = r THEN "ready" ELSE fut[r]]
  /\ evalResults' = [evalResults EXCEPT ![t] = NoOne]

EmitStoppedEvent == stops' = IF stops = 2 THEN 2 ELSE stops + 1
EmitContinuedEvent == stops' = 0

Goto(r, from, to) == pc[r] = from /\ pc' = [pc EXCEPT ![r] = to]
CbGoto(from, to) ==
  /\ cbpc = from /\ cbpc' = to
  /\ cbthread' = IF to = "idle" THEN NoOne ELSE cbthread
Finished(r) ==
  /\ tid' = [tid EXCEPT ![r] = NoOne]
  /\ left' = [left EXCEPT ![r] = 0]

-----------------------------------------------------------------------------
(* Evaluations, made by the protocol thread for a request or by a worker   *)
(* for a condition.                                                        *)

(* EvalFunction up to push_eval_queue: the call is set up, then queued.    *)
EvalFunction(r) ==
  /\ Goto(r, "evaluating", "runeval")
  /\ left[r] > 0
  /\ Len(evalQueue) < MaxQueue
  /\ CanEval(tid[r])
  /\ evals' = [evals EXCEPT ![tid[r]] = <<r>> \o @]
  /\ evalQueue' = Append(evalQueue, tid[r])
  /\ left' = [left EXCEPT ![r] = @ - 1]
  /\ UNCHANGED <<alive, stop, live, dbgState, steppers, pending, evalResults,
                 stopCounter, lock, tid, fut, popLast, cbVars, stops>>

(* EvalObjectNoConstructor: the same without an entry in the queue.  Only  *)
(* expressions and class constructors need it, exceptionInfo does not.     *)
EvalObjectNoConstructor(r) ==
  /\ ~(r = Cmd /\ popLast)
  /\ Goto(r, "evaluating", "runeval")
  /\ left[r] > 0
  /\ CanEval(tid[r])
  /\ evals' = [evals EXCEPT ![tid[r]] = <<r>> \o @]
  /\ left' = [left EXCEPT ![r] = @ - 1]
  /\ UNCHANGED <<alive, stop, live, dbgState, steppers, pending, evalVars,
                 stopCounter, lock, tid, fut, popLast, cbVars, stops>>

\* Mutation of RunEval: the map entry is assigned instead of inserted.
RunEval_Overwrites(r) ==
  /\ EvalMutexFree
  /\ Goto(r, "runeval", "continueeval")
  /\ SetStates(OnlyRuns(tid[r]))
  /\ evalResults' = [evalResults EXCEPT ![tid[r]] = r]
  /\ fut' = [fut EXCEPT ![r] = "pending"]
  /\ UNCHANGED <<alive, stop, live, evals, steppers, pending, evalQueue, stopCounter,
                 lock, tid, left, popLast, cbVars, stops>>

(* RunEval, which locks m_evalMutex.  A second evaluation of a thread gets *)
(* a broken promise and nothing runs; otherwise the promise is entered and *)
(* every other thread suspended ...                                        *)
RunEval(r) ==
  /\ EvalMutexFree
  /\ \/ /\ Goto(r, "runeval", "continueeval")
        /\ evalResults[tid[r]] = NoOne
        /\ SetStates(OnlyRuns(tid[r]))
        /\ evalResults' = [evalResults EXCEPT ![tid[r]] = r]
        /\ fut' = [fut EXCEPT ![r] = "pending"]
     \/ /\ Goto(r, "runeval", "await")
        /\ evalResults[tid[r]] # NoOne
        /\ fut' = [fut EXCEPT ![r] = "broken"]
        /\ UNCHANGED <<dbgState, evalResults>>
  /\ UNCHANGED <<alive, stop, live, evals, steppers, pending, evalQueue, stopCounter,
                 lock, tid, left, popLast, cbVars, stops>>

(* ... and the process continued; a failing Continue breaks the promise.   *)
(* The mutex does not keep the tail of EvalComplete from setting thread    *)
(* states in between.                                                      *)
RunEvalContinue(r) ==
  /\ Goto(r, "continueeval", "await")
  /\ DoContinue
  /\ IF Synchronized
     THEN UNCHANGED <<evalResults, fut>>
     ELSE /\ evalResults' = [evalResults EXCEPT ![tid[r]] = NoOne]
          /\ fut' = [fut EXCEPT ![r] = "broken"]
  /\ UNCHANGED <<alive, live, dbgState, evals, steppers, pending, evalQueue, stopCounter,
                 lock, tid, left, popLast, cbVars, stops>>

(* WaitEvalResult: f.get() returns, or throws when the promise is broken.  *)
WaitEvalResult(r) ==
  /\ Goto(r, "await", "evaluating")
  /\ fut[r] \in {"ready", "broken"}
  /\ fut' = [fut EXCEPT ![r] = "none"]
  /\ UNCHANGED <<corVars, evalVars, stopCounter, lock, tid, left, popLast, cbVars, stops>>

-----------------------------------------------------------------------------
(* The detached worker of a Breakpoint callback.                           *)

(* HitBreakpoint takes m_breakpointsMutex and may evaluate a condition.    *)
HitBreakpoint(w) ==
  /\ Goto(w, "hit", "evaluating")
  /\ lock = NoOne
  /\ lock' = w
  /\ left' = [left EXCEPT ![w] = ConditionEvals]
  /\ UNCHANGED <<corVars, evalVars, stopCounter, tid, fut, popLast, cbVars, stops>>

(* It returns: a hit is reported, a miss or a failure continues.           *)
HitBreakpointReturns(w) ==
  /\ \E to \in {"report", "continue"} : Goto(w, "evaluating", to)
  /\ lock' = NoOne
  /\ Finished(w)
  /\ UNCHANGED <<corVars, evalVars, stopCounter, fut, popLast, cbVars, stops>>

WorkerContinue(w) ==
  /\ Goto(w, "continue", "idle")
  /\ DoContinue
  /\ UNCHANGED <<alive, live, dbgState, evals, steppers, pending, evalVars, stopCounter,
                 lock, tid, left, fut, popLast, cbVars, stops>>

WorkerReport(w) ==
  /\ Goto(w, "report", "idle")
  /\ EmitStoppedEvent
  /\ UNCHANGED <<corVars, evalVars, stopCounter, lock, tid, left, fut, popLast, cbVars>>

-----------------------------------------------------------------------------
(* Commands.  The client asks for what needs a stopped process only when   *)
(* the last event it saw says stopped; it may ask for a pause at any time. *)

Request(c) == c \in Commands /\ pc[Cmd] = "idle"

(* Continue: all threads run again, unless an evaluation is running or the *)
(* queue is not empty.                                                     *)
Continue ==
  /\ Request("continue") /\ stops > 0
  /\ stopCounter > -MaxDrift
  /\ EvalMutexFree
  /\ Goto(Cmd, "idle", "resume")
  /\ IF ~IsEvalRunning /\ evalQueue = <<>> THEN SetStates(AllRun) ELSE UNCHANGED dbgState
  /\ UNCHANGED <<alive, stop, live, evals, steppers, pending, evalVars, stopCounter,
                 lock, tid, left, fut, popLast, cbVars, stops>>

(* StepCommand: the other steppers go, one is set on t, or that fails and  *)
(* the command with it.  The thread states are left as they are.           *)
StepCommand(t) ==
  /\ Request("step") /\ stops > 0
  /\ stopCounter > -MaxDrift
  /\ Synchronized /\ t \in live
  /\ \/ Goto(Cmd, "idle", "resume") /\ steppers' = {t}
     \/ UNCHANGED pc /\ steppers' = {}
  /\ UNCHANGED <<alive, stop, live, dbgState, evals, pending, evalVars, stopCounter,
                 lock, tid, left, fut, popLast, cbVars, stops>>

(* The tail both share: Continue(0), and on success the continued event    *)
(* and then the decrement of m_stopCounter.                                *)
Resume ==
  /\ Goto(Cmd, "resume", IF Synchronized THEN "emit" ELSE "idle")
  /\ DoContinue
  /\ UNCHANGED <<alive, live, dbgState, evals, steppers, pending, evalVars, stopCounter,
                 lock, tid, left, fut, popLast, cbVars, stops>>

ResumeEmit ==
  /\ Goto(Cmd, "emit", "dec")
  /\ EmitContinuedEvent
  /\ UNCHANGED <<corVars, evalVars, stopCounter, lock, tid, left, fut, popLast, cbVars>>

ResumeDec ==
  /\ Goto(Cmd, "dec", "idle")
  /\ stopCounter' = stopCounter - 1
  /\ UNCHANGED <<corVars, evalVars, lock, tid, left, fut, popLast, cbVars, stops>>

(* Pause: nothing if the process is not running, else Stop(0), then the    *)
(* stopped event once the stack traces have been read.                     *)
Pause ==
  /\ Request("pause")
  /\ Goto(Cmd, "idle", IF Running THEN "stopping" ELSE "idle")
  /\ UNCHANGED <<corVars, evalVars, stopCounter, lock, tid, left, fut, popLast, cbVars, stops>>

PauseStop ==
  /\ Goto(Cmd, "stopping", IF alive THEN "pausing" ELSE "idle")
  /\ stop' = IF alive THEN stop + 1 ELSE stop
  /\ UNCHANGED <<alive, live, dbgState, evals, steppers, pending, evalVars, stopCounter,
                 lock, tid, left, fut, popLast, cbVars, stops>>

PauseReport ==
  /\ Goto(Cmd, "pausing", "idle")
  /\ EmitStoppedEvent
  /\ UNCHANGED <<corVars, evalVars, stopCounter, lock, tid, left, fut, popLast, cbVars>>

(* variables and evaluate requests: Debugger::Evaluate and GetVariables    *)
(* call any number of functions on thread t.                               *)
Evaluate(t) ==
  /\ Request("evaluate") /\ stops > 0
  /\ Goto(Cmd, "idle", "evaluating")
  /\ tid' = [tid EXCEPT ![Cmd] = t]
  /\ left' = [left EXCEPT ![Cmd] = MaxEvals]
  /\ popLast' = FALSE
  /\ UNCHANGED <<corVars, evalVars, stopCounter, lock, fut, cbVars, stops>>

\* Mutation of GetExceptionInfoResponse: the id pushed is not yet set.
GetExceptionInfoResponse_Unset(t) ==
  /\ Request("exceptionInfo") /\ stops > 0
  /\ Len(evalQueue) < MaxQueue
  /\ \E to \in {"breakmode", "evaluating"} : Goto(Cmd, "idle", to)
  /\ evalQueue' = Append(evalQueue, tid[Cmd])
  /\ tid' = [tid EXCEPT ![Cmd] = t]
  /\ left' = [left EXCEPT ![Cmd] = MaxEvals]
  /\ popLast' = TRUE
  /\ UNCHANGED <<corVars, evalResults, stopCounter, lock, fut, cbVars, stops>>

(* GetExceptionInfoResponse pushes the thread first and pops one entry     *)
(* when it is done; only for a thread not recorded as unhandled does it    *)
(* ask for the break mode, under m_breakpointsMutex.                       *)
GetExceptionInfoResponse(t) ==
  /\ Request("exceptionInfo") /\ stops > 0
  /\ Len(evalQueue) < MaxQueue
  /\ \E to \in {"breakmode", "evaluating"} : Goto(Cmd, "idle", to)
  /\ evalQueue' = Append(evalQueue, t)
  /\ tid' = [tid EXCEPT ![Cmd] = t]
  /\ left' = [left EXCEPT ![Cmd] = MaxEvals]
  /\ popLast' = TRUE
  /\ UNCHANGED <<corVars, evalResults, stopCounter, lock, fut, cbVars, stops>>

ReadBreakMode ==
  /\ Goto(Cmd, "breakmode", "evaluating")
  /\ lock = NoOne
  /\ UNCHANGED <<corVars, evalVars, stopCounter, lock, tid, left, fut, popLast, cbVars, stops>>

(* The request is answered; an error may end it before all evaluations.    *)
RequestDone ==
  /\ Goto(Cmd, "evaluating", "idle")
  /\ evalQueue' = IF popLast THEN Popped(evalQueue) ELSE evalQueue
  /\ popLast' = FALSE
  /\ Finished(Cmd)
  /\ UNCHANGED <<corVars, evalResults, stopCounter, lock, fut, cbVars, stops>>

(* setBreakpoints and its siblings need m_breakpointsMutex for their work. *)
SetBreakpoints ==
  /\ Request("setBreakpoints")
  /\ Goto(Cmd, "idle", "setbp")
  /\ UNCHANGED <<corVars, evalVars, stopCounter, lock, tid, left, fut, popLast, cbVars, stops>>

SetBreakpointsLocked ==
  /\ Goto(Cmd, "setbp", "idle")
  /\ lock = NoOne
  /\ UNCHANGED <<corVars, evalVars, stopCounter, lock, tid, left, fut, popLast, cbVars, stops>>

-----------------------------------------------------------------------------
(* The callback thread: one callback at a time, dispatched while the       *)
(* process runs.                                                           *)

Dispatch ==
  /\ cbpc = "idle"
  /\ \E e \in pending :
       DispatchEffects(e) /\ cbpc' = e.kind /\ cbthread' = e.thread /\ cbeval' = Ended(e)
  /\ UNCHANGED <<evalVars, stopCounter, lock, reqVars, cbnext, stops>>

DebuggeeStep ==
  Raise /\ UNCHANGED <<evalVars, stopCounter, lock, reqVars, cbVars, stops>>

(* Breakpoint: continued at once while an evaluation runs, else left       *)
(* stopped for a detached worker.                                          *)
BreakpointDuringEval ==
  /\ CbGoto("Breakpoint", "idle")
  /\ EvalMutexFree /\ IsEvalRunning
  /\ DoContinue
  /\ UNCHANGED <<alive, live, dbgState, evals, steppers, pending, evalVars, stopCounter,
                 lock, reqVars, cbeval, cbnext, stops>>

\* Mutation of BreakpointCallback: it does not look for a running evaluation.
BreakpointCallback_Always ==
  /\ CbGoto("Breakpoint", "idle")
  /\ \E w \in Workers :
       Goto(w, "idle", "hit") /\ tid' = [tid EXCEPT ![w] = cbthread]
  /\ UNCHANGED <<corVars, evalVars, stopCounter, lock, left, fut, popLast, cbeval, cbnext, stops>>

BreakpointCallback ==
  /\ CbGoto("Breakpoint", "idle")
  /\ EvalMutexFree /\ ~IsEvalRunning
  /\ \E w \in Workers :
       Goto(w, "idle", "hit") /\ tid' = [tid EXCEPT ![w] = cbthread]
  /\ UNCHANGED <<corVars, evalVars, stopCounter, lock, left, fut, popLast,
                 cbeval, cbnext, stops>>

\* Mutation of StepComplete: the stop in code without sources is reported too.
StepComplete_Both ==
  /\ CbGoto("StepComplete", "idle")
  /\ EmitStoppedEvent
  /\ \/ DoContinue /\ steppers' \in {steppers, steppers \cup {cbthread}}
     \/ UNCHANGED <<stop, steppers>>
  /\ UNCHANGED <<alive, live, dbgState, evals, pending, evalVars, stopCounter, lock,
                 reqVars, cbeval, cbnext>>

(* StepComplete: in code without sources another step is set up (it may    *)
(* fail) and the process continued, else the stop is reported.             *)
StepComplete ==
  /\ CbGoto("StepComplete", "idle")
  /\ \/ DoContinue /\ steppers' \in {steppers, steppers \cup {cbthread}} /\ UNCHANGED stops
     \/ EmitStoppedEvent /\ UNCHANGED <<stop, steppers>>
  /\ UNCHANGED <<alive, live, dbgState, evals, pending, evalVars, stopCounter, lock,
                 reqVars, cbeval, cbnext>>

\* Mutation of EvalComplete: it continues like the other callbacks.
EvalComplete_Continues ==
  /\ CbGoto("EvalComplete", "EvalQueue")
  /\ NotifyEvalComplete(cbthread)
  /\ DoContinue
  /\ cbeval' = NoOne
  /\ UNCHANGED <<alive, live, dbgState, evals, steppers, pending, evalQueue, stopCounter,
                 lock, pc, tid, left, popLast, cbnext, stops>>

(* EvalComplete: first the waiting requester gets its result, and goes on  *)
(* while the rest of the callback runs ...                                 *)
EvalComplete ==
  /\ CbGoto("EvalComplete", "EvalQueue")
  /\ NotifyEvalComplete(cbthread)
  /\ cbeval' = NoOne
  /\ UNCHANGED <<corVars, evalQueue, stopCounter, lock, pc, tid, left, popLast,
                 cbnext, stops>>

(* ... then the queue is looked at, with a lock for each call only: empty, *)
(* headed by this thread, or by another one, which is logged as an error.  *)
EvalQueue ==
  /\ \/ evalQueue = <<>> /\ CbGoto("EvalQueue", "EvalRunAll")
     \/ evalQueue # <<>> /\ CbGoto("EvalQueue", "EvalFront")
     \/ Front(evalQueue) = cbthread /\ CbGoto("EvalFront", "EvalPop")
     \/ Front(evalQueue) # cbthread /\ CbGoto("EvalFront", "idle")
  /\ UNCHANGED <<corVars, evalVars, stopCounter, lock, reqVars, cbeval, cbnext, stops>>

EvalRunAll ==
  /\ CbGoto("EvalRunAll", "idle")
  /\ SetStates(AllRun)
  /\ UNCHANGED <<alive, stop, live, evals, steppers, pending, evalVars, stopCounter, lock,
                 reqVars, cbeval, cbnext, stops>>

EvalPop ==
  /\ CbGoto("EvalPop", "EvalNext")
  /\ evalQueue' = Popped(evalQueue)
  /\ UNCHANGED <<corVars, evalResults, stopCounter, lock, reqVars, cbeval, cbnext, stops>>

(* GetThread(0), after the last entry was popped, fails: the states stay.  *)
EvalNext ==
  /\ \/ /\ Front(evalQueue) \in live
        /\ CbGoto("EvalNext", "EvalSuspend")
        /\ cbnext' = Front(evalQueue)
     \/ /\ Front(evalQueue) \notin live
        /\ CbGoto("EvalNext", "idle")
        /\ UNCHANGED cbnext
  /\ UNCHANGED <<corVars, evalVars, stopCounter, lock, reqVars, cbeval, stops>>

(* All threads are suspended and the one at the head of the queue set      *)
(* running again, without m_evalMutex: the requester that got its result   *)
(* may be starting its next evaluation.                                    *)
EvalSuspend ==
  /\ \/ Synchronized /\ CbGoto("EvalSuspend", "EvalResume") /\ UNCHANGED cbnext
     \/ ~Synchronized /\ CbGoto("EvalSuspend", "idle") /\ cbnext' = NoOne
  /\ SetStates([t \in Threads |-> "suspend"])
  /\ UNCHANGED <<alive, stop, live, evals, steppers, pending, evalVars, stopCounter, lock,
                 reqVars, cbeval, stops>>

EvalResume ==
  /\ CbGoto("EvalResume", "idle")
  /\ SetStates([dbgState EXCEPT ![cbnext] = "run"])
  /\ cbnext' = NoOne
  /\ UNCHANGED <<alive, stop, live, evals, steppers, pending, evalVars, stopCounter, lock,
                 reqVars, cbeval, stops>>

\* Mutation of EvalException: it continues like the other callbacks.
EvalException_Continues ==
  /\ CbGoto("EvalException", "idle")
  /\ NotifyEvalComplete(cbthread)
  /\ DoContinue
  /\ cbeval' = NoOne
  /\ UNCHANGED <<alive, live, dbgState, evals, steppers, pending, evalQueue, stopCounter,
                 lock, pc, tid, left, popLast, cbnext, stops>>

(* EvalException: the requester gets its result, the queue is not touched. *)
EvalException ==
  /\ CbGoto("EvalException", "idle")
  /\ NotifyEvalComplete(cbthread)
  /\ cbeval' = NoOne
  /\ UNCHANGED <<corVars, evalQueue, stopCounter, lock, pc, tid, left, popLast,
                 cbnext, stops>>

\* Mutation of ExitProcess: the promises are kept.
ExitProcess_Keeps ==
  /\ CbGoto("ExitProcess", "ExitDrain")
  /\ UNCHANGED <<corVars, evalVars, stopCounter, lock, reqVars, cbeval, cbnext, stops>>

(* ExitProcess: every promise is dropped, the queue drained, and the       *)
(* exited and terminated events sent; nothing is continued.                *)
ExitProcess ==
  /\ EvalMutexFree
  /\ CbGoto("ExitProcess", "ExitDrain")
  /\ evalResults' = [t \in Threads |-> NoOne]
  /\ fut' = [r \in Requesters |-> IF fut[r] = "pending" THEN "broken" ELSE fut[r]]
  /\ UNCHANGED <<corVars, evalQueue, stopCounter, lock, pc, tid, left, popLast,
                 cbeval, cbnext, stops>>

ExitDrain ==
  /\ CbGoto("ExitDrain", "idle")
  /\ evalQueue' = <<>>
  /\ stops' = 0
  /\ UNCHANGED <<corVars, evalResults, stopCounter, lock, reqVars, cbeval, cbnext>>

CreateThread ==
  /\ CbGoto("CreateThread", "idle")
  /\ DoContinue
  /\ UNCHANGED <<alive, live, dbgState, evals, steppers, pending, evalVars, stopCounter,
                 lock, reqVars, cbeval, cbnext, stops>>

ExitThread ==
  /\ CbGoto("ExitThread", "idle")
  /\ NotifyEvalComplete(cbthread)
  /\ DoContinue
  /\ UNCHANGED <<alive, live, dbgState, evals, steppers, pending, evalQueue, stopCounter,
                 lock, pc, tid, left, popLast, cbeval, cbnext, stops>>

(* LoadModule: with symbols the breakpoints are resolved under             *)
(* m_breakpointsMutex before the process continues.                        *)
LoadModule ==
  /\ \/ CbGoto("LoadModule", "LoadModuleResolve") /\ UNCHANGED stop
     \/ CbGoto("LoadModule", "idle") /\ DoContinue
     \/ CbGoto("LoadModuleResolve", "idle") /\ lock = NoOne /\ DoContinue
  /\ UNCHANGED <<alive, live, dbgState, evals, steppers, pending, evalVars, stopCounter,
                 lock, reqVars, cbeval, cbnext, stops>>

(* Exception: if the exception cannot be read the callback returns, with   *)
(* neither a Continue nor an event.                                        *)
Exception ==
  /\ \/ CbGoto("Exception", "ExceptionFilter")
     \/ CbGoto("Exception", "idle") /\ "exceptionInfo" \in Faults
  /\ UNCHANGED <<corVars, evalVars, stopCounter, lock, reqVars, cbeval, cbnext, stops>>

(* GetExceptionBreakMode and Match take m_breakpointsMutex; an exception   *)
(* nothing asks for is continued, one whose message cannot be read is      *)
(* dropped like above.                                                     *)
ExceptionFilter ==
  /\ lock = NoOne
  /\ \/ CbGoto("ExceptionFilter", "idle") /\ DoContinue
     \/ CbGoto("ExceptionFilter", "ExceptionStop") /\ UNCHANGED stop
     \/ CbGoto("ExceptionFilter", "idle") /\ "exceptionInfo" \in Faults /\ UNCHANGED stop
  /\ UNCHANGED <<alive, live, dbgState, evals, steppers, pending, evalVars, stopCounter,
                 lock, reqVars, cbeval, cbnext, stops>>

(* A matched exception during an evaluation is intercepted and only the    *)
(* thread at the head of the queue runs on; if that thread is gone the     *)
(* callback fails there.  Otherwise Stop() reports it.                     *)
ExceptionDuringEval ==
  /\ CbGoto("ExceptionStop", "idle")
  /\ EvalMutexFree /\ IsEvalRunning /\ evalQueue # <<>>
  /\ IF Synchronized /\ Head(evalQueue) \in live
     THEN SetStates(OnlyRuns(Head(evalQueue))) /\ DoContinue
     ELSE UNCHANGED <<dbgState, stop>>
  /\ UNCHANGED <<alive, live, evals, steppers, pending, evalVars, stopCounter,
                 lock, reqVars, cbeval, cbnext, stops>>

ExceptionToStop ==
  /\ CbGoto("ExceptionStop", "StopCheck")
  /\ EvalMutexFree /\ ~(IsEvalRunning /\ evalQueue # <<>>)
  /\ UNCHANGED <<corVars, evalVars, stopCounter, lock, reqVars, cbeval, cbnext, stops>>

(* ManagedDebugger::Stop, whose every access to the atomic m_stopCounter   *)
(* may interleave with the decrement of the protocol thread.               *)
StopCheck ==
  /\ \/ CbGoto("StopCheck", "StopDec") /\ stopCounter > 0 /\ EmitContinuedEvent
     \/ CbGoto("StopCheck", "StopStore") /\ stopCounter <= 0 /\ UNCHANGED stops
  /\ UNCHANGED <<corVars, evalVars, stopCounter, lock, reqVars, cbeval, cbnext>>

StopDec ==
  /\ CbGoto("StopDec", "StopCheck")
  /\ stopCounter' = stopCounter - 1
  /\ UNCHANGED <<corVars, evalVars, lock, reqVars, cbeval, cbnext, stops>>

StopStore ==
  /\ CbGoto("StopStore", "StopEmit")
  /\ stopCounter' = 1
  /\ UNCHANGED <<corVars, evalVars, lock, reqVars, cbeval, cbnext, stops>>

StopEmit ==
  /\ CbGoto("StopEmit", "idle")
  /\ EmitStoppedEvent
  /\ UNCHANGED <<corVars, evalVars, stopCounter, lock, reqVars, cbeval, cbnext>>

-----------------------------------------------------------------------------
EvalStep(r) ==
  \/ EvalFunction(r) \/ EvalObjectNoConstructor(r) \/ RunEval(r)
  \/ RunEvalContinue(r) \/ WaitEvalResult(r)

WorkerStep(w) ==
  \/ HitBreakpoint(w) \/ HitBreakpointReturns(w) \/ WorkerContinue(w) \/ WorkerReport(w)

Client ==
  \/ Continue \/ Pause \/ SetBreakpoints
  \/ \E t \in Threads : StepCommand(t) \/ Evaluate(t) \/ GetExceptionInfoResponse(t)

CommandStep ==
  \/ Resume \/ ResumeEmit \/ ResumeDec \/ PauseStop \/ PauseReport
  \/ ReadBreakMode \/ RequestDone \/ SetBreakpointsLocked

CallbackStep ==
  \/ BreakpointDuringEval \/ BreakpointCallback \/ StepComplete
  \/ EvalComplete \/ EvalQueue \/ EvalRunAll \/ EvalPop \/ EvalNext
  \/ EvalSuspend \/ EvalResume \/ EvalException
  \/ ExitProcess \/ ExitDrain \/ CreateThread \/ ExitThread \/ LoadModule
  \/ Exception \/ ExceptionFilter \/ ExceptionDuringEval \/ ExceptionToStop
  \/ StopCheck \/ StopDec \/ StopStore \/ StopEmit

Next ==
  \/ DebuggeeStep \/ Dispatch \/ CallbackStep \/ Client \/ CommandStep
  \/ \E r \in Requesters : EvalStep(r)
  \/ \E w \in Workers : WorkerStep(w)

Spec == Init /\ [][Next]_vars

(* The debugger's own threads are never starved; a function being          *)
(* evaluated on t returns if t is let run again and again.  The client and *)
(* the rest of the debuggee owe nothing.                                   *)
EvalReturns(t) ==
  DebuggeeStep /\ \E e \in pending' :
    e.kind \in {"EvalComplete", "EvalException"} /\ e.thread = t

Fairness ==
  /\ WF_vars(Dispatch) /\ WF_vars(CallbackStep) /\ WF_vars(CommandStep)
  /\ \A r \in Requesters : WF_vars(EvalStep(r))
  /\ \A w \in Workers : WF_vars(WorkerStep(w))
  /\ \A t \in Threads : SF_vars(EvalReturns(t))

FairSpec == Spec /\ Fairness

-----------------------------------------------------------------------------
(* Properties.                                                             *)

(* Who owes the process a Continue.  A callback owes one from its dispatch *)
(* until it continues, reports a stop or hands over to a requester; a      *)
(* worker until it continues or reports, except while its evaluation runs; *)
(* the client while it shows a stop, or one of its commands relies on it.  *)
CallbackHolds ==
  cbpc \notin {"idle", "EvalQueue", "EvalRunAll", "EvalFront", "EvalPop", "EvalNext",
               "EvalSuspend", "EvalResume", "ExitDrain"}

Waits(r) == pc[r] = "await" /\ fut[r] = "pending"

WorkerHolds(w) == pc[w] # "idle" /\ ~Waits(w)

ClientHolds ==
  \/ pc[Cmd] \in {"resume", "pausing", "evaluating", "runeval", "continueeval", "breakmode"}
  \/ pc[Cmd] = "await" /\ fut[Cmd] # "pending"
  \/ pc[Cmd] \in {"idle", "setbp", "dec", "stopping"} /\ stops > 0

Held == CallbackHolds \/ \E w \in Workers : WorkerHolds(w)

(* The stop counter covers what is owed: while a callback, a worker or the *)
(* client counts on a stopped process it is stopped, and while the client  *)
(* and one of the others do, one Continue does not set it running.         *)
StopsCovered ==
  alive => /\ Held \/ ClientHolds => stop >= 1
           /\ Held /\ ClientHolds => stop >= 2

(* Whenever the client shows a stop and no command is under way, the       *)
(* process is stopped: no callback, worker or late Continue of the         *)
(* debugger sets it running behind the client's back.                      *)
ClientStoppedIsStopped ==
  alive /\ stops > 0 /\ pc[Cmd] = "idle" => stop > 0

(* The Breakpoint callback never detaches a second worker while one is     *)
(* still deciding about, or evaluating the condition of, its breakpoint.   *)
AtMostOneWorker ==
  \A v, w \in Workers : pc[v] # "idle" /\ pc[w] # "idle" => v = w

(* A promise in m_evalResults is the one of the requester entered with it, *)
(* which waits for it or still has to continue the process; and a requester*)
(* whose future is pending has its promise there: no wait can be forgotten *)
(* by the callbacks of its thread, and none of them sets the promise of a  *)
(* requester that went on.                                                 *)
PromisesMatchWaits ==
  /\ \A t \in Threads : evalResults[t] # NoOne =>
        fut[evalResults[t]] = "pending" /\ tid[evalResults[t]] = t
  /\ \A r \in Requesters : fut[r] = "pending" => evalResults[tid[r]] = r

(* Nothing interrupts an evaluation but breakpoints, module loads and      *)
(* threads that start or exit beside it: no pause, no step that completes, *)
(* no exception that stops the process and no exit of its own thread lets  *)
(* another requester evaluate before it has ended.                         *)
Undisturbed ==
  /\ "pause" \notin Commands
  /\ {"StepComplete", "Exception"} \cap Kinds = {}
  /\ "evalThreadExit" \notin Faults

(* A requester waits until its own evaluation has completed or thrown, or  *)
(* the process has exited, and then stops waiting: the promises are found  *)
(* by thread only, so it is for BreakpointCallback and the stop counter to *)
(* see that nobody else's evaluation ends there first.  When an evaluation *)
(* is disturbed this fails: one that a second requester set up on the same *)
(* thread, and that RunEval refused to start, ends first and gives its     *)
(* result to the first.                                                    *)
OwnEvalEnds(r) ==
  /\ cbpc' # cbpc
  /\ \/ cbpc = "ExitProcess"
     \/ cbpc \in {"EvalComplete", "EvalException"} /\ cbeval = r

WaitsEndWithOwnEvaluation ==
  [][\A r \in Requesters : Waits(r) => (Waits(r)' <=> ~OwnEvalEnds(r))]_vars

(* No evaluation is started on a thread that has exited since it was set   *)
(* up, and none outlives its thread, unless threads exit while they        *)
(* evaluate.                                                               *)
NoPromiseOfDeadThread ==
  alive /\ cbpc = "idle" => \A t \in Threads \ live : evalResults[t] = NoOne

(* The inductive invariant behind the three.  First: who waits, and on     *)
(* which thread.                                                           *)
WaitInv ==
  /\ TypeOK
  /\ PromisesMatchWaits
  /\ \A r \in Requesters :
       /\ fut[r] = "pending" => pc[r] \in {"continueeval", "await"}
       /\ pc[r] = "continueeval" => fut[r] = "pending"
       /\ pc[r] \in {"hit", "evaluating", "runeval", "continueeval", "await", "breakmode"} =>
            tid[r] \in Threads
  /\ cbpc # "idle" => cbthread \in Threads

(* Second: a callback and the workers never owe a Continue together, and   *)
(* what waits for an evaluation has one set up on a thread that is there,  *)
(* so that only the callback that ends it can end the wait.                *)
HoldInv ==
  /\ StopsCovered
  /\ AtMostOneWorker
  /\ ~alive => cbpc \in {"idle", "ExitProcess", "ExitDrain"}
  /\ cbpc \in {"ExitProcess", "ExitDrain"} => ~alive
  /\ CallbackHolds => \A w \in Workers : ~WorkerHolds(w) \/ ~alive
  /\ \A r \in Requesters : alive /\ pc[r] \in {"runeval", "continueeval"} => evals[tid[r]] # <<>>
  /\ \A t \in Threads : alive /\ evalResults[t] # NoOne =>
        evals[t] # <<>> \/ (cbpc \in {"EvalComplete", "EvalException"} /\ cbthread = t)
  /\ \A t \in Threads : alive /\ evals[t] # <<>> => t \in live
  /\ \A e \in pending : alive /\ e.kind = "ExitThread" => evals[e.thread] = <<>>
  /\ cbpc = "ExitThread" => evals[cbthread] = <<>> /\ cbthread \notin live

IInv == WaitInv /\ HoldInv

(* What holds in addition while evaluations are undisturbed.  Two of them  *)
(* are never under way at once: a thread has an evaluation set up exactly  *)
(* while one requester starts it or waits for it, and the callback that    *)
(* reports its end finds that requester waiting.                           *)
Evaluates(r) == pc[r] \in {"runeval", "continueeval"} \/ Waits(r)

Ending == cbpc \in {"EvalComplete", "EvalException"}

OwnInv ==
  /\ pc[Cmd] \notin {"stopping", "pausing"}
  /\ cbpc \notin {"StepComplete", "Exception", "ExceptionFilter", "ExceptionStop",
                  "StopCheck", "StopDec", "StopStore", "StopEmit"}
  /\ alive => stop <= 1
  /\ \A w \in Workers : alive /\ pc[w] # "idle" => ~ClientHolds /\ ~Waits(Cmd)
  /\ \A r \in Requesters : alive /\ Evaluates(r) /\ ~Ending => evals[tid[r]] = <<r>>
  /\ \A t \in Threads : alive /\ evals[t] # <<>> =>
       ~Ending /\ \E r \in Requesters : Evaluates(r) /\ tid[r] = t
  /\ alive /\ Ending => \E r \in Requesters : cbeval = r /\ Waits(r) /\ tid[r] = cbthread
  /\ \A e \in pending : e.kind \in {"EvalComplete", "EvalException"} /\ alive =>
       evals[e.thread] # <<>>
  /\ \A e, f \in pending : e.thread = f.thread => e = f

(* Exception: "Current implementation stops all threads while EvalComplete *)
(* waiting": a running process has a suspended thread only while an        *)
(* evaluation runs.                                                        *)
SuspendedOnlyDuringEval ==
  Running /\ ~IsEvalRunning /\ cbpc = "idle" => \A t \in live : dbgState[t] = "run"

(* Every evaluation somebody waits for ends: f.get() in WaitEvalResult     *)
(* returns, whatever other events the debuggee raises meanwhile ...        *)
EvalsEnd == \A r \in Requesters : pc[r] = "await" ~> pc[r] # "await"

(* ... unless the tail of the EvalComplete before it has suspended its     *)
(* thread after RunEval had set it running.                                *)
EvalsEndOrFreeze ==
  \A r \in Requesters :
    pc[r] = "await" ~> pc[r] # "await" \/ dbgState[tid[r]] = "suspend"

(* Every dispatched callback returns, so that events keep being delivered: *)
(* Exception says of simultaneous exceptions that "all next events one by  *)
(* one will transport each exception".                                     *)
CallbacksReturn == cbpc # "idle" ~> cbpc = "idle"
=============================================================================
