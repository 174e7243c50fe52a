------------------------ MODULE ManagedDebugger_proof ------------------------
(***************************************************************************)
(* Proofs about ManagedDebugger for every set of threads and workers, every*)
(* choice of callbacks, commands and bounds.                               *)
(***************************************************************************)
EXTENDS ManagedDebugger, SequenceTheorems, TLAPS

(***************************************************************************)
(* First part: who waits for which promise.                                *)
(***************************************************************************)

(* The promises and the requesters agree at the start: there are none.     *)
LEMMA WaitInit == Init => WaitInv
<1> SUFFICES ASSUME Init PROVE WaitInv
  OBVIOUS
<1>1. CorTypeOK
  BY DEF Init, CorInit, CorTypeOK
<1>2. popLast \in BOOLEAN
  BY DEF Init
<1>3. cbpc \in CallbackPCs
  BY DEF Init, CallbackPCs
<1>6. EvalsOK
  BY DEF Init, CorInit, EvalsOK
<1>4. TypeOK
  BY <1>1, <1>2, <1>3, <1>6 DEF Init, TypeOK, Requesters, RequesterPCs
<1>5. PromisesMatchWaits
  BY DEF Init, PromisesMatchWaits
<1> QED
  BY <1>4, <1>5 DEF Init, WaitInv

(* What front_eval_queue and pop_eval_queue return.                        *)
LEMMA QueueOperators ==
  ASSUME NEW q \in Seq(Threads)
  PROVE  Front(q) \in Threads \cup {NoOne} /\ Popped(q) \in Seq(Threads)
<1>1. CASE q = <<>>
  BY <1>1 DEF Front, Popped
<1>2. CASE q # <<>>
  <2>1. Head(q) \in Threads /\ Tail(q) \in Seq(Threads)
    BY <1>2, HeadTailProperties
  <2> QED
    BY <1>2, <2>1 DEF Front, Popped
<1> QED
  BY <1>1, <1>2

(* What setting up an evaluation and ending one do to those of a thread.   *)
LEMMA EvalOperators ==
  ASSUME NEW q \in Seq(Requesters), NEW r \in Requesters
  PROVE  /\ <<r>> \o q \in Seq(Requesters) /\ <<r>> \o q # <<>>
         /\ q = <<>> => <<r>> \o q = <<r>>
<1>1. <<r>> \in Seq(Requesters) /\ Len(<<r>>) = 1
  OBVIOUS
<1>2. <<r>> \o q \in Seq(Requesters) /\ Len(<<r>> \o q) = 1 + Len(q)
  BY <1>1, ConcatProperties
<1>3. <<r>> \o q # <<>>
  BY <1>2, LenProperties, EmptySeq
<1>4. q = <<>> => <<r>> \o q = <<r>>
  BY <1>1, ConcatEmptySeq
<1> QED
  BY <1>2, <1>3, <1>4

(* The evaluations a dispatched event leaves are still requesters'.        *)
LEMMA DispatchTypes ==
  ASSUME TypeOK, NEW e \in Events, DispatchEffects(e)
  PROVE  EvalsOK' /\ Ended(e) \in Requesters \cup {NoOne}
<1> USE DEF TypeOK, EvalsOK, CorTypeOK, Events, DispatchEffects
<1>1. CASE e.kind \in {"EvalComplete", "EvalException"} /\ evals[e.thread] # <<>>
  <2>1. evals' = [evals EXCEPT ![e.thread] = Tail(evals[e.thread])]
    BY <1>1
  <2>2. /\ evals[e.thread] \in Seq(Requesters)
        /\ Tail(evals[e.thread]) \in Seq(Requesters)
        /\ Head(evals[e.thread]) \in Requesters
    BY <1>1, HeadTailProperties
  <2> QED
    BY <1>1, <2>1, <2>2 DEF Ended
<1>2. CASE e.kind = "ExitThread"
  BY <1>2 DEF Ended
<1>3. CASE e.kind \notin {"EvalComplete", "EvalException", "ExitThread"}
  BY <1>3 DEF Ended
<1>4. CASE e.kind \in {"EvalComplete", "EvalException"} /\ evals[e.thread] = <<>>
  BY <1>4 DEF Ended
<1> QED
  BY <1>1, <1>2, <1>3, <1>4

(* RunEval is the one step that enters a promise, and it does so only for  *)
(* a thread without one: no requester can lose its promise to another.     *)
LEMMA RunEvalEnters ==
  ASSUME WaitInv, NEW r \in Requesters, RunEval(r), evalResults[tid[r]] = NoOne
  PROVE  PromisesMatchWaits'
<1> USE DEF WaitInv, TypeOK, PromisesMatchWaits
<1>1. /\ pc' = [pc EXCEPT ![r] = "continueeval"] /\ pc[r] = "runeval"
      /\ fut' = [fut EXCEPT ![r] = "pending"]
      /\ evalResults' = [evalResults EXCEPT ![tid[r]] = r]
      /\ tid' = tid /\ tid[r] \in Threads
  BY DEF RunEval, Goto
<1>2. ASSUME NEW t \in Threads, evalResults'[t] # NoOne
      PROVE  fut'[evalResults'[t]] = "pending" /\ tid'[evalResults'[t]] = t
  BY <1>1, <1>2
<1>3. ASSUME NEW q \in Requesters, fut'[q] = "pending"
      PROVE  evalResults'[tid'[q]] = q
  <2>1. CASE q = r
    BY <1>1, <2>1
  <2>2. CASE q # r
    BY <1>1, <1>3, <2>2, ManagedDebuggerAssumption
  <2> QED
    BY <2>1, <2>2
<1> QED
  BY <1>2, <1>3

(* A requester sets up an evaluation: it is the innermost of its thread.   *)
LEMMA EvalSetUp ==
  ASSUME WaitInv, NEW r \in Requesters, EvalFunction(r) \/ EvalObjectNoConstructor(r)
  PROVE  /\ tid[r] \in Threads
         /\ evals' = [evals EXCEPT ![tid[r]] = <<r>> \o evals[tid[r]]]
         /\ EvalsOK' /\ evals'[tid[r]] # <<>>
         /\ evals[tid[r]] = <<>> => evals'[tid[r]] = <<r>>
         /\ \A t \in Threads : t # tid[r] => evals'[t] = evals[t]
<1>1. /\ tid[r] \in Threads
      /\ evals' = [evals EXCEPT ![tid[r]] = <<r>> \o evals[tid[r]]]
  BY DEF WaitInv, EvalFunction, EvalObjectNoConstructor, Goto
<1>2. evals \in [Threads -> Seq(Requesters)]
  BY DEF WaitInv, TypeOK, EvalsOK
<1>3. /\ <<r>> \o evals[tid[r]] \in Seq(Requesters)
      /\ <<r>> \o evals[tid[r]] # <<>>
      /\ evals[tid[r]] = <<>> => <<r>> \o evals[tid[r]] = <<r>>
  BY <1>1, <1>2, EvalOperators
<1> QED
  BY <1>1, <1>2, <1>3 DEF EvalsOK

(* Only the set-up of an evaluation and the dispatch of an event touch     *)
(* them.                                                                   *)
LEMMA EvalsKept ==
  ASSUME WaitInv, [Next]_vars PROVE EvalsOK'
<1> USE DEF WaitInv, TypeOK, corVars
<1>1. ASSUME NEW r \in Requesters, EvalStep(r) PROVE EvalsOK'
  <2>1. CASE EvalFunction(r) \/ EvalObjectNoConstructor(r)
    BY <2>1, EvalSetUp
  <2>2. CASE RunEval(r) \/ RunEvalContinue(r) \/ WaitEvalResult(r)
    BY <2>2 DEF RunEval, RunEvalContinue, WaitEvalResult, EvalsOK
  <2> QED
    BY <1>1, <2>1, <2>2 DEF EvalStep
<1>2. ASSUME NEW w \in Workers, WorkerStep(w) PROVE EvalsOK'
  BY <1>2 DEF WorkerStep, HitBreakpoint, HitBreakpointReturns, WorkerContinue, WorkerReport, EvalsOK
<1>3. CASE Client
  BY <1>3 DEF Client, Continue, Pause, SetBreakpoints, StepCommand, Evaluate,
              GetExceptionInfoResponse, EvalsOK
<1>4. CASE CommandStep
  BY <1>4 DEF CommandStep, Resume, ResumeEmit, ResumeDec, PauseStop, PauseReport, ReadBreakMode,
              RequestDone, SetBreakpointsLocked, EvalsOK
<1>5. CASE CallbackStep
  BY <1>5 DEF CallbackStep, BreakpointDuringEval, BreakpointCallback, StepComplete, EvalComplete,
              EvalQueue, EvalRunAll, EvalPop, EvalNext, EvalSuspend, EvalResume, EvalException,
              ExitProcess, ExitDrain, CreateThread, ExitThread, LoadModule, Exception,
              ExceptionFilter, ExceptionDuringEval, ExceptionToStop, StopCheck, StopDec,
              StopStore, StopEmit, EvalsOK
<1>6. CASE DebuggeeStep \/ UNCHANGED vars
  BY <1>6 DEF DebuggeeStep, Raise, vars, EvalsOK
<1>7. CASE Dispatch
  BY <1>7, DispatchTypes DEF Dispatch, CorTypeOK
<1> QED
  BY <1>1, <1>2, <1>3, <1>4, <1>5, <1>6, <1>7 DEF Next

(* Every step keeps the promises and the waits matched.                    *)
LEMMA WaitNext == WaitInv /\ [Next]_vars => WaitInv'
<1> SUFFICES ASSUME WaitInv, [Next]_vars PROVE WaitInv'
  OBVIOUS
<1>0. EvalsOK'
  BY EvalsKept
<1> USE <1>0, CorDebugAssumption, ManagedDebuggerAssumption
        DEF WaitInv, TypeOK, CorTypeOK, PromisesMatchWaits, Requesters,
            RequesterPCs, CallbackPCs, AllKinds, Events, corVars, evalVars, reqVars, cbVars,
            Goto, CbGoto, DoContinue, SetStates, AllRun, OnlyRuns, Synchronized, Running
<1>1. ASSUME NEW r \in Requesters, EvalFunction(r) PROVE WaitInv'
  BY <1>1, SMTT(30) DEF EvalFunction, CanEval
<1>2. ASSUME NEW r \in Requesters, EvalObjectNoConstructor(r) PROVE WaitInv'
  BY <1>2 DEF EvalObjectNoConstructor, CanEval
<1>3. ASSUME NEW r \in Requesters, RunEval(r) PROVE WaitInv'
  <2>1. CASE evalResults[tid[r]] = NoOne
    <3>1. PromisesMatchWaits'
      BY <1>3, <2>1, RunEvalEnters
    <3>2. evalResults' \in [Threads -> Requesters \cup {NoOne}]
      BY <1>3, <2>1 DEF RunEval
    <3>3. pc' \in [Requesters -> RequesterPCs]
      BY <1>3, <2>1 DEF RunEval
    <3>5. fut' \in [Requesters -> {"none", "pending", "ready", "broken"}]
      BY <1>3, <2>1 DEF RunEval
    <3>4. CorTypeOK'
      BY <1>3, <2>1 DEF RunEval
    <3> QED
      BY <1>3, <2>1, <3>1, <3>2, <3>3, <3>4, <3>5 DEF RunEval
  <2>2. CASE evalResults[tid[r]] # NoOne
    BY <1>3, <2>2 DEF RunEval
  <2> QED
    BY <2>1, <2>2
<1>47. ASSUME NEW r \in Requesters, RunEvalContinue(r) PROVE WaitInv'
  <2>1. CASE Synchronized
    BY <1>47, <2>1 DEF RunEvalContinue
  <2>2. CASE ~Synchronized
    <3>1. evalResults' = [evalResults EXCEPT ![tid[r]] = NoOne] /\ tid' = tid
          /\ fut' = [fut EXCEPT ![r] = "broken"] /\ pc' = [pc EXCEPT ![r] = "await"]
          /\ evalResults[tid[r]] = r /\ tid[r] \in Threads
      BY <1>47, <2>2 DEF RunEvalContinue
    <3>2. PromisesMatchWaits'
      BY <3>1
    <3> QED
      BY <1>47, <2>2, <3>1, <3>2 DEF RunEvalContinue
  <2> QED
    BY <2>1, <2>2
<1>4. ASSUME NEW r \in Requesters, WaitEvalResult(r) PROVE WaitInv'
  BY <1>4 DEF WaitEvalResult
<1>5. ASSUME NEW w \in Workers, HitBreakpoint(w) PROVE WaitInv'
  BY <1>5 DEF HitBreakpoint
<1>6. ASSUME NEW w \in Workers, HitBreakpointReturns(w) PROVE WaitInv'
  BY <1>6 DEF HitBreakpointReturns, Finished
<1>7. ASSUME NEW w \in Workers, WorkerContinue(w) PROVE WaitInv'
  BY <1>7 DEF WorkerContinue
<1>8. ASSUME NEW w \in Workers, WorkerReport(w) PROVE WaitInv'
  BY <1>8 DEF WorkerReport, EmitStoppedEvent
<1>9. ASSUME Continue PROVE WaitInv'
  BY <1>9 DEF Continue, Request
<1>10. ASSUME Pause PROVE WaitInv'
  BY <1>10 DEF Pause, Request
<1>11. ASSUME SetBreakpoints PROVE WaitInv'
  BY <1>11 DEF SetBreakpoints, Request
<1>12. ASSUME NEW t \in Threads, StepCommand(t) PROVE WaitInv'
  BY <1>12 DEF StepCommand, Request
<1>13. ASSUME NEW t \in Threads, Evaluate(t) PROVE WaitInv'
  <2>1. popLast' \in BOOLEAN
    BY <1>13 DEF Evaluate
  <2> QED
    BY <1>13, <2>1 DEF Evaluate, Request
<1>14. ASSUME NEW t \in Threads, GetExceptionInfoResponse(t) PROVE WaitInv'
  BY <1>14 DEF GetExceptionInfoResponse, Request
<1>15. ASSUME Resume PROVE WaitInv'
  BY <1>15 DEF Resume
<1>16. ASSUME ResumeEmit PROVE WaitInv'
  BY <1>16 DEF ResumeEmit, EmitContinuedEvent
<1>17. ASSUME ResumeDec PROVE WaitInv'
  BY <1>17 DEF ResumeDec
<1>18. ASSUME PauseStop PROVE WaitInv'
  BY <1>18 DEF PauseStop
<1>19. ASSUME PauseReport PROVE WaitInv'
  BY <1>19 DEF PauseReport, EmitStoppedEvent
<1>20. ASSUME ReadBreakMode PROVE WaitInv'
  BY <1>20 DEF ReadBreakMode
<1>21. ASSUME RequestDone PROVE WaitInv'
  <2>1. popLast' \in BOOLEAN
    BY <1>21 DEF RequestDone
  <2>2. evalQueue' \in Seq(Threads)
    BY <1>21, QueueOperators DEF RequestDone
  <2> QED
    BY <1>21, <2>1, <2>2 DEF RequestDone, Finished
<1>22. ASSUME SetBreakpointsLocked PROVE WaitInv'
  BY <1>22 DEF SetBreakpointsLocked
<1>23. ASSUME BreakpointDuringEval PROVE WaitInv'
  BY <1>23 DEF BreakpointDuringEval
<1>24. ASSUME BreakpointCallback PROVE WaitInv'
  BY <1>24 DEF BreakpointCallback
<1>25. ASSUME StepComplete PROVE WaitInv'
  BY <1>25 DEF StepComplete, EmitStoppedEvent
<1>26. ASSUME EvalComplete PROVE WaitInv'
  BY <1>26 DEF EvalComplete, NotifyEvalComplete, EvalMutexFree
<1>27. ASSUME EvalQueue PROVE WaitInv'
  BY <1>27 DEF EvalQueue
<1>28. ASSUME EvalRunAll PROVE WaitInv'
  BY <1>28 DEF EvalRunAll
<1>29. ASSUME EvalPop PROVE WaitInv'
  <2>1. evalQueue' \in Seq(Threads)
    BY <1>29, QueueOperators DEF EvalPop
  <2> QED
    BY <1>29, <2>1 DEF EvalPop
<1>48. ASSUME EvalNext PROVE WaitInv'
  <2>1. cbnext' \in Threads \cup {NoOne}
    BY <1>48, QueueOperators DEF EvalNext
  <2> QED
    BY <1>48, <2>1 DEF EvalNext
<1>49. ASSUME EvalSuspend PROVE WaitInv'
  BY <1>49 DEF EvalSuspend
<1>50. ASSUME EvalResume PROVE WaitInv'
  <2>1. dbgState' \in [Threads -> {"run", "suspend"}]
    BY <1>50 DEF EvalResume
  <2> QED
    BY <1>50, <2>1 DEF EvalResume
<1>30. ASSUME EvalException PROVE WaitInv'
  BY <1>30 DEF EvalException, NotifyEvalComplete, EvalMutexFree
<1>31. ASSUME ExitProcess PROVE WaitInv'
  BY <1>31 DEF ExitProcess, EvalMutexFree
<1>32. ASSUME ExitDrain PROVE WaitInv'
  BY <1>32 DEF ExitDrain
<1>33. ASSUME CreateThread PROVE WaitInv'
  BY <1>33 DEF CreateThread
<1>34. ASSUME ExitThread PROVE WaitInv'
  BY <1>34 DEF ExitThread, NotifyEvalComplete, EvalMutexFree
<1>35. ASSUME LoadModule PROVE WaitInv'
  BY <1>35 DEF LoadModule
<1>36. ASSUME Exception PROVE WaitInv'
  BY <1>36 DEF Exception
<1>37. ASSUME ExceptionFilter PROVE WaitInv'
  BY <1>37 DEF ExceptionFilter
<1>38. ASSUME ExceptionDuringEval PROVE WaitInv'
  BY <1>38 DEF ExceptionDuringEval
<1>39. ASSUME ExceptionToStop PROVE WaitInv'
  BY <1>39 DEF ExceptionToStop
<1>40. ASSUME StopCheck PROVE WaitInv'
  BY <1>40 DEF StopCheck, EmitContinuedEvent
<1>41. ASSUME StopDec PROVE WaitInv'
  BY <1>41 DEF StopDec
<1>42. ASSUME StopStore PROVE WaitInv'
  BY <1>42 DEF StopStore
<1>43. ASSUME StopEmit PROVE WaitInv'
  BY <1>43 DEF StopEmit, EmitStoppedEvent
<1>44. ASSUME DebuggeeStep PROVE WaitInv'
  BY <1>44 DEF DebuggeeStep, Raise
<1>45. ASSUME Dispatch PROVE WaitInv'
  <2>1. PICK e \in pending :
          DispatchEffects(e) /\ cbpc' = e.kind /\ cbthread' = e.thread /\ cbeval' = Ended(e)
    BY <1>45 DEF Dispatch
  <2>2. e \in Events
    OBVIOUS
  <2>3. cbeval' \in Requesters \cup {NoOne}
    BY <2>1, <2>2, DispatchTypes
  <2>4. UNCHANGED <<evalVars, stopCounter, lock, reqVars, cbnext, stops>>
    BY <1>45 DEF Dispatch
  <2> QED
    BY <2>1, <2>2, <2>3, <2>4, SMTT(30) DEF DispatchEffects
<1>46. CASE UNCHANGED vars
  BY <1>46 DEF vars
<1> QED
  BY <1>1, <1>2, <1>3, <1>4, <1>5, <1>6, <1>7, <1>8, <1>9, <1>10, <1>11, <1>12,
     <1>13, <1>14, <1>15, <1>16, <1>17, <1>18, <1>19, <1>20, <1>21, <1>22,
     <1>23, <1>24, <1>25, <1>26, <1>27, <1>28, <1>29, <1>30, <1>31, <1>32,
     <1>33, <1>34, <1>35, <1>36, <1>37, <1>38, <1>39, <1>40, <1>41, <1>42,
     <1>43, <1>44, <1>45, <1>46, <1>47, <1>48, <1>49, <1>50
  DEF Next, EvalStep, WorkerStep, Client, CommandStep, CallbackStep

(* The state is well typed and the promises in m_evalResults are exactly   *)
(* those of the requesters that wait, whatever interleaving of callbacks,  *)
(* workers, commands and debuggee.                                         *)
THEOREM WaitInvariant == Spec => []WaitInv
<1>1. Init => WaitInv
  BY WaitInit
<1>2. WaitInv /\ [Next]_vars => WaitInv'
  BY WaitNext
<1> QED
  BY <1>1, <1>2, PTL DEF Spec

(* Type correctness of the control state of ManagedDebugger, Evaluator and *)
(* the callback thread.                                                    *)
THEOREM TypeCorrect == Spec => []TypeOK
<1>1. WaitInv => TypeOK
  BY DEF WaitInv
<1> QED
  BY <1>1, WaitInvariant, PTL

(* RunEval and the callbacks never lose or overwrite the promise           *)
(* of an evaluation.                                                       *)
THEOREM PromisesMatch == Spec => []PromisesMatchWaits
<1>1. WaitInv => PromisesMatchWaits
  BY DEF WaitInv
<1> QED
  BY <1>1, WaitInvariant, PTL

(* By the map of promises, a wait ends with a callback of its thread.      *)
Ends(r) ==
  /\ cbpc' # cbpc
  /\ \/ cbpc = "ExitProcess"
     \/ cbpc \in {"EvalComplete", "EvalException", "ExitThread"} /\ cbthread = tid[r]

(* A step ends the waits it should and no other: the map of promises is    *)
(* what tells the callbacks whom to wake.                                  *)
LEMMA EndsOwnWaits ==
  ASSUME WaitInv, [Next]_vars, NEW r \in Requesters, Waits(r)
  PROVE  Waits(r)' <=> ~Ends(r)
<1> USE DEF Requesters, Waits, Goto, CbGoto, reqVars, cbVars
<1>0. /\ TypeOK /\ Cmd \in Requesters /\ Workers \subseteq Requesters
      /\ evalResults[tid[r]] = r /\ pc[r] = "await" /\ fut[r] = "pending"
      /\ tid[r] \in Threads
      /\ \A t \in Threads : evalResults[t] = r => t = tid[r]
  BY ManagedDebuggerAssumption DEF WaitInv, PromisesMatchWaits
<1> USE <1>0 DEF TypeOK
<1>1. ASSUME NEW q \in Requesters, EvalStep(q) PROVE Waits(r)' <=> ~Ends(r)
  <2>1. UNCHANGED cbpc /\ \/ q # r
                           \/ pc[q] # "await"
                           \/ fut[q] # "pending"
    BY <1>1 DEF EvalStep, EvalFunction, EvalObjectNoConstructor, RunEval, RunEvalContinue,
                     WaitEvalResult
  <2>2. pc'[r] = pc[r] /\ fut'[r] = fut[r]
    BY <1>1, <2>1 DEF EvalStep, EvalFunction, EvalObjectNoConstructor, RunEval,
                          RunEvalContinue, WaitEvalResult
  <2> QED
    BY <2>1, <2>2 DEF Ends
<1>2. ASSUME NEW w \in Workers, WorkerStep(w) PROVE Waits(r)' <=> ~Ends(r)
  BY <1>2 DEF WorkerStep, HitBreakpoint, HitBreakpointReturns, WorkerContinue, WorkerReport, Ends
<1>3. CASE Client
  BY <1>3 DEF Client, Continue, Pause, SetBreakpoints, StepCommand, Evaluate,
              GetExceptionInfoResponse, Request, Ends
<1>4. CASE CommandStep
  BY <1>4 DEF CommandStep, Resume, ResumeEmit, ResumeDec, PauseStop, PauseReport, ReadBreakMode,
              RequestDone, SetBreakpointsLocked, Ends
<1>5. CASE DebuggeeStep \/ Dispatch \/ UNCHANGED vars
  BY <1>5 DEF DebuggeeStep, Dispatch, vars, Ends
<1>6. CASE BreakpointDuringEval \/ BreakpointCallback
  BY <1>6 DEF BreakpointDuringEval, BreakpointCallback, Ends
<1>7. CASE EvalComplete \/ EvalException \/ ExitThread
  <2>1. /\ cbpc \in {"EvalComplete", "EvalException", "ExitThread"} /\ cbpc' # cbpc
        /\ NotifyEvalComplete(cbthread) /\ UNCHANGED pc /\ cbthread \in Threads
    BY <1>7 DEF EvalComplete, EvalException, ExitThread, WaitInv
  <2>2. fut'[r] = IF evalResults[cbthread] = r THEN "ready" ELSE fut[r]
    BY <2>1 DEF NotifyEvalComplete
  <2> QED
    BY <2>1, <2>2 DEF Ends
<1>8. CASE ExitProcess
  BY <1>8 DEF ExitProcess, Ends
<1>9. CASE \/ StepComplete \/ EvalQueue \/ EvalRunAll \/ EvalPop \/ EvalNext \/ EvalSuspend
           \/ EvalResume \/ ExitDrain \/ CreateThread \/ LoadModule \/ Exception \/ ExceptionFilter \/ ExceptionDuringEval
           \/ ExceptionToStop \/ StopCheck \/ StopDec \/ StopStore \/ StopEmit
  <2>1. /\ UNCHANGED <<pc, fut>>
        /\ cbpc \notin {"EvalComplete", "EvalException", "ExitThread", "ExitProcess"}
    BY <1>9 DEF StepComplete, EvalQueue, EvalRunAll, EvalPop, EvalNext, EvalSuspend, EvalResume,
                ExitDrain, CreateThread, LoadModule, Exception, ExceptionFilter, ExceptionDuringEval, ExceptionToStop, StopCheck,
                StopDec, StopStore, StopEmit
  <2> QED
    BY <2>1 DEF Ends
<1> QED
  BY <1>1, <1>2, <1>3, <1>4, <1>5, <1>6, <1>7, <1>8, <1>9 DEF Next, CallbackStep

(***************************************************************************)
(* Second part: who counts on a stopped process.  The stop counter is      *)
(* shared by the callback, the workers and the client, and no assertion in *)
(* the code relates it to any of them.                                     *)
(***************************************************************************)

(* Nobody holds the process at the start.                                  *)
LEMMA HoldInit == Init => HoldInv
  BY DEF Init, CorInit, HoldInv, StopsCovered, AtMostOneWorker, CallbackHolds, WorkerHolds,
         ClientHolds, Held, Waits, Requesters

(* A callback that gives its one Continue and returns, as Breakpoint during*)
(* an evaluation, CreateThread, LoadModule and Exception do, leaves every  *)
(* other claim on the stopped process covered.                             *)
LEMMA CallbackContinues ==
  ASSUME IInv, CallbackHolds, cbpc \notin {"EvalComplete", "EvalException"},
         cbpc' = "idle", DoContinue,
         UNCHANGED <<alive, live, evals, pending, evalResults, pc, tid, fut, stops>>
  PROVE  HoldInv'
<1> USE DEF IInv, HoldInv, WaitInv, TypeOK, CorTypeOK, StopsCovered, AtMostOneWorker,
            CallbackHolds, WorkerHolds, ClientHolds, Held, Waits, DoContinue, Synchronized
<1>1. alive => ~(\E w \in Workers : WorkerHolds(w))
  OBVIOUS
<1>2. StopsCovered'
  BY <1>1
<1>3. /\ ~CallbackHolds'
      /\ AtMostOneWorker'
      /\ (~alive => cbpc \in {"idle", "ExitProcess", "ExitDrain"})'
  OBVIOUS
<1>4. (\A r \in Requesters : alive /\ pc[r] \in {"runeval", "continueeval"} =>
        evals[tid[r]] # <<>>)'
  OBVIOUS
<1>5. (\A t \in Threads : alive /\ evalResults[t] # NoOne =>
        evals[t] # <<>> \/ (cbpc \in {"EvalComplete", "EvalException"} /\ cbthread = t))'
  OBVIOUS
<1> QED
  BY <1>2, <1>3, <1>4, <1>5

(* Every step keeps the claims covered: a step that takes one finds or adds*)
(* a stop for it, a step that continues gives up the one it had.           *)
LEMMA HoldNext ==
  ASSUME "evalThreadExit" \notin Faults, IInv, [Next]_vars
  PROVE  HoldInv'
<1> USE CorDebugAssumption, ManagedDebuggerAssumption
        DEF IInv, HoldInv, WaitInv, TypeOK, CorTypeOK, PromisesMatchWaits, Waits, Requesters,
            Events, corVars, evalVars, reqVars, cbVars, StopsCovered,
            AtMostOneWorker, CallbackHolds, WorkerHolds, ClientHolds, Held,
            Goto, CbGoto, DoContinue, SetStates, Synchronized, Running
<1>1. ASSUME NEW r \in Requesters, EvalFunction(r) PROVE HoldInv'
  <2>1. /\ evals'[tid[r]] # <<>> /\ tid[r] \in Threads
        /\ \A t \in Threads : t # tid[r] => evals'[t] = evals[t]
    <3> HIDE DEF WaitInv
    <3> QED
      BY <1>1, EvalSetUp DEF WaitInv
  <2>2. tid[r] \in live /\ Synchronized
        /\ \A e \in pending : ~(e.kind = "ExitThread" /\ e.thread = tid[r])
    BY <1>1 DEF EvalFunction, CanEval
  <2>3. /\ pc[r] = "evaluating" /\ pc' = [pc EXCEPT ![r] = "runeval"]
        /\ UNCHANGED <<alive, stop, live, dbgState, steppers, pending, evalResults,
                       tid, fut, cbVars, stops>>
    BY <1>1 DEF EvalFunction
  <2> QED
    BY <2>1, <2>2, <2>3, SMTT(30)
<1>2. ASSUME NEW r \in Requesters, EvalObjectNoConstructor(r) PROVE HoldInv'
  <2>1. /\ evals'[tid[r]] # <<>> /\ tid[r] \in Threads
        /\ \A t \in Threads : t # tid[r] => evals'[t] = evals[t]
    <3> HIDE DEF WaitInv
    <3> QED
      BY <1>2, EvalSetUp DEF WaitInv
  <2>2. tid[r] \in live /\ Synchronized
        /\ \A e \in pending : ~(e.kind = "ExitThread" /\ e.thread = tid[r])
    BY <1>2 DEF EvalObjectNoConstructor, CanEval
  <2>3. /\ pc[r] = "evaluating" /\ pc' = [pc EXCEPT ![r] = "runeval"]
        /\ UNCHANGED <<alive, stop, live, dbgState, steppers, pending, evalResults,
                       tid, fut, cbVars, stops>>
    BY <1>2 DEF EvalObjectNoConstructor
  <2> QED
    BY <2>1, <2>2, <2>3, SMTT(30)
<1>3. ASSUME NEW r \in Requesters, RunEval(r) PROVE HoldInv'
  <2>1. /\ pc[r] = "runeval" /\ tid[r] \in Threads
        /\ UNCHANGED <<alive, stop, live, evals, pending, tid, cbVars, stops>>
    BY <1>3 DEF RunEval
  <2>2. CASE evalResults[tid[r]] = NoOne
    <3>1. /\ pc' = [pc EXCEPT ![r] = "continueeval"]
          /\ evalResults' = [evalResults EXCEPT ![tid[r]] = r]
          /\ fut' = [fut EXCEPT ![r] = "pending"]
      BY <1>3, <2>2 DEF RunEval
    <3> QED
      BY <2>1, <3>1
  <2>3. CASE evalResults[tid[r]] # NoOne
    <3>1. /\ pc' = [pc EXCEPT ![r] = "await"] /\ evalResults' = evalResults
          /\ fut' = [fut EXCEPT ![r] = "broken"]
      BY <1>3, <2>3 DEF RunEval
    <3> QED
      BY <2>1, <3>1
  <2> QED
    BY <2>2, <2>3
<1>47. ASSUME NEW r \in Requesters, RunEvalContinue(r) PROVE HoldInv'
  BY <1>47 DEF RunEvalContinue
<1>4. ASSUME NEW r \in Requesters, WaitEvalResult(r) PROVE HoldInv'
  BY <1>4 DEF WaitEvalResult
<1>5. ASSUME NEW w \in Workers, HitBreakpoint(w) PROVE HoldInv'
  BY <1>5 DEF HitBreakpoint
<1>6. ASSUME NEW w \in Workers, HitBreakpointReturns(w) PROVE HoldInv'
  BY <1>6 DEF HitBreakpointReturns, Finished
<1>7. ASSUME NEW w \in Workers, WorkerContinue(w) PROVE HoldInv'
  BY <1>7 DEF WorkerContinue
<1>8. ASSUME NEW w \in Workers, WorkerReport(w) PROVE HoldInv'
  BY <1>8 DEF WorkerReport, EmitStoppedEvent
<1>9. ASSUME Continue PROVE HoldInv'
  BY <1>9 DEF Continue, Request
<1>10. ASSUME Pause PROVE HoldInv'
  BY <1>10 DEF Pause, Request
<1>11. ASSUME SetBreakpoints PROVE HoldInv'
  BY <1>11 DEF SetBreakpoints, Request
<1>12. ASSUME NEW t \in Threads, StepCommand(t) PROVE HoldInv'
  <2>1. /\ pc[Cmd] = "idle" /\ stops > 0
        /\ pc' = [pc EXCEPT ![Cmd] = "resume"] \/ UNCHANGED pc
        /\ UNCHANGED <<alive, stop, live, evals, pending, evalResults, tid, fut, cbVars, stops>>
    BY <1>12 DEF StepCommand, Request
  <2>2. CASE UNCHANGED pc
    BY <2>1, <2>2
  <2>3. CASE pc' = [pc EXCEPT ![Cmd] = "resume"]
    BY <2>1, <2>3
  <2> QED
    BY <2>1, <2>2, <2>3
<1>13. ASSUME NEW t \in Threads, Evaluate(t) PROVE HoldInv'
  BY <1>13 DEF Evaluate, Request
<1>14. ASSUME NEW t \in Threads, GetExceptionInfoResponse(t) PROVE HoldInv'
  BY <1>14 DEF GetExceptionInfoResponse, Request
<1>15. ASSUME Resume PROVE HoldInv'
  BY <1>15 DEF Resume
<1>16. ASSUME ResumeEmit PROVE HoldInv'
  BY <1>16 DEF ResumeEmit, EmitContinuedEvent
<1>17. ASSUME ResumeDec PROVE HoldInv'
  BY <1>17 DEF ResumeDec
<1>18. ASSUME PauseStop PROVE HoldInv'
  BY <1>18 DEF PauseStop
<1>19. ASSUME PauseReport PROVE HoldInv'
  BY <1>19 DEF PauseReport, EmitStoppedEvent
<1>20. ASSUME ReadBreakMode PROVE HoldInv'
  BY <1>20 DEF ReadBreakMode
<1>21. ASSUME RequestDone PROVE HoldInv'
  BY <1>21 DEF RequestDone, Finished
<1>22. ASSUME SetBreakpointsLocked PROVE HoldInv'
  BY <1>22 DEF SetBreakpointsLocked
<1>23. ASSUME BreakpointDuringEval PROVE HoldInv'
  BY <1>23 DEF BreakpointDuringEval
<1>24. ASSUME BreakpointCallback PROVE HoldInv'
  BY <1>24 DEF BreakpointCallback, IsEvalRunning
<1>25. ASSUME StepComplete PROVE HoldInv'
  BY <1>25 DEF StepComplete, EmitStoppedEvent
<1>26. ASSUME EvalComplete PROVE HoldInv'
  BY <1>26 DEF EvalComplete, NotifyEvalComplete
<1>27. ASSUME EvalQueue PROVE HoldInv'
  BY <1>27 DEF EvalQueue
<1>28. ASSUME EvalRunAll PROVE HoldInv'
  BY <1>28 DEF EvalRunAll
<1>29. ASSUME EvalPop PROVE HoldInv'
  BY <1>29 DEF EvalPop
<1>48. ASSUME EvalNext PROVE HoldInv'
  BY <1>48 DEF EvalNext
<1>49. ASSUME EvalSuspend PROVE HoldInv'
  BY <1>49 DEF EvalSuspend
<1>50. ASSUME EvalResume PROVE HoldInv'
  BY <1>50 DEF EvalResume
<1>30. ASSUME EvalException PROVE HoldInv'
  BY <1>30 DEF EvalException, NotifyEvalComplete, EvalMutexFree
<1>31. ASSUME ExitProcess PROVE HoldInv'
  BY <1>31 DEF ExitProcess, EvalMutexFree
<1>32. ASSUME ExitDrain PROVE HoldInv'
  BY <1>32 DEF ExitDrain
<1>33. ASSUME CreateThread PROVE HoldInv'
  BY <1>33 DEF CreateThread
<1>34. ASSUME ExitThread PROVE HoldInv'
  BY <1>34 DEF ExitThread, NotifyEvalComplete, EvalMutexFree
<1>35. ASSUME LoadModule PROVE HoldInv'
  <2>1. CASE cbpc' = "LoadModuleResolve"
    BY <1>35, <2>1 DEF LoadModule
  <2>2. CASE cbpc' = "idle"
    BY <1>35, <2>2, CallbackContinues DEF LoadModule
  <2> QED
    BY <1>35, <2>1, <2>2 DEF LoadModule
<1>36. ASSUME Exception PROVE HoldInv'
  BY <1>36 DEF Exception
<1>37. ASSUME ExceptionFilter PROVE HoldInv'
  <2>1. CASE cbpc' = "ExceptionStop"
    BY <1>37, <2>1 DEF ExceptionFilter
  <2>2. CASE cbpc' = "idle" /\ DoContinue
    BY <1>37, <2>2, CallbackContinues DEF ExceptionFilter
  <2>3. CASE cbpc' = "idle" /\ UNCHANGED stop
    BY <1>37, <2>3 DEF ExceptionFilter
  <2> QED
    BY <1>37, <2>1, <2>2, <2>3 DEF ExceptionFilter
<1>38. ASSUME ExceptionDuringEval PROVE HoldInv'
  BY <1>38 DEF ExceptionDuringEval
<1>39. ASSUME ExceptionToStop PROVE HoldInv'
  BY <1>39 DEF ExceptionToStop
<1>40. ASSUME StopCheck PROVE HoldInv'
  <2>1. CASE cbpc' = "StopDec"
    BY <1>40, <2>1 DEF StopCheck, EmitContinuedEvent
  <2>2. CASE cbpc' = "StopStore"
    BY <1>40, <2>2 DEF StopCheck
  <2> QED
    BY <1>40, <2>1, <2>2 DEF StopCheck
<1>41. ASSUME StopDec PROVE HoldInv'
  BY <1>41 DEF StopDec
<1>42. ASSUME StopStore PROVE HoldInv'
  BY <1>42 DEF StopStore
<1>43. ASSUME StopEmit PROVE HoldInv'
  BY <1>43 DEF StopEmit, EmitStoppedEvent
<1>44. ASSUME DebuggeeStep PROVE HoldInv'
  BY <1>44 DEF DebuggeeStep, Raise, CanRaise
<1>45. ASSUME Dispatch PROVE HoldInv'
  <2> PICK e \in pending :
        DispatchEffects(e) /\ cbpc' = e.kind /\ cbthread' = e.thread /\ cbeval' = Ended(e)
    BY <1>45 DEF Dispatch
  <2> USE DEF DispatchEffects
  <2>0. /\ e \in Events /\ cbpc = "idle"
        /\ UNCHANGED <<evalVars, stopCounter, lock, reqVars, cbnext, stops>>
    BY <1>45 DEF Dispatch
  <2>1. StopsCovered'
    BY <2>0, <1>45
  <2>2. AtMostOneWorker'
    BY <2>0, <1>45
  <2>3. /\ (~alive => cbpc \in {"idle", "ExitProcess", "ExitDrain"})'
        /\ (cbpc \in {"ExitProcess", "ExitDrain"} => ~alive)'
    BY <2>0, <1>45 DEF AllKinds
  <2>4. (CallbackHolds => \A w \in Workers : ~WorkerHolds(w) \/ ~alive)'
    BY <2>0, <1>45
  <2>a. e.thread \in Threads /\ e.kind \in AllKinds
    BY <2>0
  <2>b. \A t \in Threads : evals'[t] = evals[t] \/ t = e.thread
    BY <2>0
  <2>c. e.kind \notin {"EvalComplete", "EvalException"} =>
          \A t \in Threads : evals'[t] = evals[t]
    <3>1. CASE e.kind = "ExitThread"
      <4>1. evals[e.thread] = <<>> /\ evals' = [evals EXCEPT ![e.thread] = <<>>]
        BY <2>0, <1>45, <3>1
      <4> QED
        BY <4>1, <2>a
    <3>2. CASE e.kind \notin {"EvalComplete", "EvalException", "ExitThread"}
      <4>1. evals' = evals
        BY <3>2
      <4> QED
        BY <4>1
    <3> QED
      BY <3>1, <3>2
  <2>5. (\A r \in Requesters : alive /\ pc[r] \in {"runeval", "continueeval"} =>
          evals[tid[r]] # <<>>)'
    <3>0. alive /\ stop = 0 /\ ~Held /\ ~ClientHolds
      BY <2>0
    <3>1. \A r \in Requesters : pc[r] \notin {"runeval", "continueeval"}
      BY <3>0
    <3> QED
      BY <3>1, <2>0
  <2>6. (\A t \in Threads : alive /\ evalResults[t] # NoOne =>
        evals[t] # <<>> \/ (cbpc \in {"EvalComplete", "EvalException"} /\ cbthread = t))'
    BY <2>0, <2>b, <2>c
  <2>d. (\A t \in Threads : alive /\ evals[t] # <<>> => t \in live)'
    <3>1. \A t \in Threads : evals'[t] # <<>> => evals[t] # <<>>
      BY <2>0, SMTT(30)
    <3>2. e.kind = "ExitThread" => evals[e.thread] = <<>>
      BY <2>0, <1>45
    <3>3. \A t \in Threads : t \in live => t \in live' \/ (e.kind = "ExitThread" /\ t = e.thread)
      <4>1. CASE e.kind = "ExitThread"
        BY <4>1
      <4>2. CASE e.kind = "CreateThread"
        BY <4>2
      <4>3. CASE e.kind \notin {"CreateThread", "ExitThread"}
        BY <4>3
      <4> QED
        BY <4>1, <4>2, <4>3
    <3>4. e.kind = "ExitThread" => \A t \in Threads : evals'[t] # <<>> => t # e.thread
      BY <2>0, <2>a
    <3> QED
      BY <3>1, <3>2, <3>3, <3>4, <2>0
  <2>7. (\A x \in pending : alive /\ x.kind = "ExitThread" => evals[x.thread] = <<>>)'
    BY <2>0, <1>45
  <2>8. (cbpc = "ExitThread" => evals[cbthread] = <<>> /\ cbthread \notin live)'
    <3>1. CASE e.kind = "ExitThread"
      <4>1. evals' = [evals EXCEPT ![e.thread] = <<>>] /\ live' = live \ {e.thread}
        BY <3>1
      <4>2. evals'[e.thread] = <<>>
        BY <4>1, <2>a DEF EvalsOK
      <4> QED
        BY <4>1, <4>2
    <3>2. CASE e.kind # "ExitThread"
      BY <3>2
    <3> QED
      BY <3>1, <3>2
  <2> QED
    BY <2>1, <2>2, <2>3, <2>4, <2>5, <2>6, <2>d, <2>7, <2>8
<1>46. CASE UNCHANGED vars
  BY <1>46 DEF vars
<1>51. ASSUME NEW r \in Requesters, EvalStep(r) PROVE HoldInv'
  BY <1>51, <1>1, <1>2, <1>3, <1>4, <1>47, Zenon DEF EvalStep
<1>52. ASSUME NEW w \in Workers, WorkerStep(w) PROVE HoldInv'
  BY <1>52, <1>5, <1>6, <1>7, <1>8, Zenon DEF WorkerStep
<1>53. CASE Client
  BY <1>53, <1>9, <1>10, <1>11, <1>12, <1>13, <1>14, Zenon DEF Client
<1>54. CASE CommandStep
  BY <1>54, <1>15, <1>16, <1>17, <1>18, <1>19, <1>20, <1>21, <1>22, Zenon DEF CommandStep
<1>55. CASE CallbackStep
  BY <1>55, <1>23, <1>24, <1>25, <1>26, <1>27, <1>28, <1>29, <1>30, <1>31, <1>32, <1>33, <1>34,
     <1>35, <1>36, <1>37, <1>38, <1>39, <1>40, <1>41, <1>42, <1>43, <1>48, <1>49, <1>50, Zenon
  DEF CallbackStep
<1> QED
  BY <1>44, <1>45, <1>46, <1>51, <1>52, <1>53, <1>54, <1>55, Zenon DEF Next

(* The inductive invariant of the execution control.  A thread that exits  *)
(* while it evaluates is excluded: its ExitThread both continues and wakes *)
(* the requester, who then counts on a stopped process that runs.          *)
THEOREM HoldInvariant ==
  ASSUME "evalThreadExit" \notin Faults
  PROVE  Spec => []IInv
<1>1. Init => IInv
  BY WaitInit, HoldInit DEF IInv
<1>2. IInv /\ [Next]_vars => IInv'
  BY WaitNext, HoldNext DEF IInv
<1> QED
  BY <1>1, <1>2, PTL DEF Spec

(* While the client shows a stop and no command is under way, the process  *)
(* is stopped: no Continue of a callback or worker is ever one too many.   *)
THEOREM ClientStopped ==
  ASSUME "evalThreadExit" \notin Faults
  PROVE  Spec => []ClientStoppedIsStopped
<1>1. IInv => ClientStoppedIsStopped
  BY DEF IInv, HoldInv, WaitInv, TypeOK, CorTypeOK, StopsCovered, ClientStoppedIsStopped,
         ClientHolds
<1> QED
  BY <1>1, HoldInvariant, PTL

(* The Breakpoint callback never runs two workers at once, so that none of *)
(* them needs to be told which stop is its own.                            *)
THEOREM OneWorker ==
  ASSUME "evalThreadExit" \notin Faults
  PROVE  Spec => []AtMostOneWorker
<1>1. IInv => AtMostOneWorker
  BY DEF IInv, HoldInv
<1> QED
  BY <1>1, HoldInvariant, PTL

(* While no thread exits in the middle of an evaluation, none is started on*)
(* a thread that is gone, although the requester lets go of the thread     *)
(* between the set-up and the start.                                       *)
THEOREM NoPromiseLeft ==
  ASSUME "evalThreadExit" \notin Faults
  PROVE  Spec => []NoPromiseOfDeadThread
<1>1. IInv => NoPromiseOfDeadThread
  <2> SUFFICES ASSUME IInv PROVE NoPromiseOfDeadThread
    OBVIOUS
  <2>1. \A t \in Threads : alive /\ cbpc = "idle" /\ evalResults[t] # NoOne => evals[t] # <<>>
    BY DEF IInv, HoldInv
  <2>2. \A t \in Threads : alive /\ evals[t] # <<>> => t \in live
    BY DEF IInv, HoldInv
  <2> QED
    BY <2>1, <2>2, Zenon DEF NoPromiseOfDeadThread
<1> QED
  BY <1>1, HoldInvariant, PTL

(***************************************************************************)
(* Third part: whose evaluation ends a wait.                               *)
(***************************************************************************)

(* Of two requesters only one evaluates, or is about to.                   *)
Busy(r) == pc[r] \in {"evaluating", "runeval", "continueeval", "await"}

LEMMA OneEvaluates ==
  ASSUME IInv, OwnInv, alive, NEW q \in Requesters, NEW r \in Requesters, Busy(q), Busy(r)
  PROVE  q = r
<1> USE ManagedDebuggerAssumption DEF Requesters, Busy, IInv, HoldInv, WaitInv, TypeOK
<1>1. ASSUME NEW w \in Workers, Busy(w), Busy(Cmd) PROVE FALSE
  <2>1. ~ClientHolds /\ ~Waits(Cmd)
    BY <1>1 DEF OwnInv
  <2> QED
    BY <1>1, <2>1 DEF ClientHolds, Waits
<1>2. CASE q \in Workers /\ r \in Workers
  BY <1>2 DEF AtMostOneWorker
<1> QED
  BY <1>1, <1>2

(* While the process runs, who evaluates is one that waits.                *)
LEMMA RunningWaits ==
  ASSUME IInv, Running, NEW r \in Requesters, Evaluates(r)
  PROVE  Waits(r)
  BY DEF IInv, HoldInv, StopsCovered, Held, WorkerHolds, ClientHolds, Waits, Running, Evaluates,
         Requesters

(* Nobody evaluates at the start.                                          *)
LEMMA OwnInit == Init => OwnInv
  BY DEF Init, CorInit, OwnInv, Evaluates, Ending, Waits, ClientHolds, Requesters

(* A requester that makes an evaluation is alone with it.                  *)
LEMMA OwnSetUp ==
  ASSUME Undisturbed, IInv, OwnInv, NEW r \in Requesters,
         EvalFunction(r) \/ EvalObjectNoConstructor(r)
  PROVE  OwnInv'
<1> USE ManagedDebuggerAssumption
        DEF IInv, WaitInv, TypeOK, CorTypeOK, Requesters, Evaluates, Ending, Waits
<1>1. /\ pc[r] = "evaluating" /\ pc' = [pc EXCEPT ![r] = "runeval"]
      /\ alive /\ stop > 0
      /\ UNCHANGED <<alive, stop, live, pending, tid, fut, cbVars, stops>>
  BY DEF EvalFunction, EvalObjectNoConstructor, Goto, CanEval, Synchronized
<1>2. \A q \in Requesters : ~Evaluates(q)
  BY <1>1, OneEvaluates DEF Busy
<1>3. ~Ending /\ \A t \in Threads : evals[t] = <<>>
  BY <1>1, <1>2 DEF OwnInv
<1>4. /\ tid[r] \in Threads /\ evals'[tid[r]] = <<r>>
      /\ \A t \in Threads : t # tid[r] => evals'[t] = <<>>
  <2>1. EvalFunction(r) \/ EvalObjectNoConstructor(r)
    OBVIOUS
  <2> HIDE DEF WaitInv, Requesters
  <2> QED
    BY <2>1, <1>3, EvalSetUp
<1>5. \A e \in pending : e.kind \notin {"EvalComplete", "EvalException"} \/ evals[e.thread] # <<>>
  BY <1>1 DEF OwnInv
<1>6. \A e \in pending' : e.thread \in Threads /\ e.kind \notin {"EvalComplete", "EvalException"}
  BY <1>1, <1>3, <1>5 DEF Events
<1>7. \A w \in Workers : pc'[w] # "idle" => ~ClientHolds' /\ ~Waits(Cmd)'
  BY <1>1 DEF OwnInv, ClientHolds
<1>8. \A q \in Requesters : Evaluates(q)' <=> q = r
  BY <1>1, <1>2
<1>9. /\ pc'[Cmd] \notin {"stopping", "pausing"} /\ cbpc' = cbpc /\ ~Ending'
      /\ alive => stop' <= 1
      /\ \A e, f \in pending' : e.thread = f.thread => e = f
      /\ cbpc \notin {"StepComplete", "Exception", "ExceptionFilter", "ExceptionStop",
                      "StopCheck", "StopDec", "StopStore", "StopEmit"}
  BY <1>1, <1>3 DEF OwnInv, cbVars
<1>10. \A q \in Requesters : Evaluates(q)' => evals'[tid'[q]] = <<q>>
  BY <1>1, <1>4, <1>8
<1>11. \A t \in Threads : evals'[t] # <<>> => \E q \in Requesters : Evaluates(q)' /\ tid'[q] = t
  BY <1>1, <1>4, <1>8
<1>12. \A e \in pending' : e.kind \in {"EvalComplete", "EvalException"} => evals'[e.thread] # <<>>
  BY <1>6
<1> HIDE DEF Evaluates, Ending, Waits, TypeOK, WaitInv, IInv
<1>13. (\A w \in Workers : alive /\ pc[w] # "idle" => ~ClientHolds /\ ~Waits(Cmd))'
  BY <1>7
<1>14. (\A q \in Requesters : alive /\ Evaluates(q) /\ ~Ending => evals[tid[q]] = <<q>>)'
  BY <1>10
<1>15. (\A t \in Threads : alive /\ evals[t] # <<>> =>
         ~Ending /\ \E q \in Requesters : Evaluates(q) /\ tid[q] = t)'
  BY <1>9, <1>11
<1>16. (\A e \in pending : e.kind \in {"EvalComplete", "EvalException"} /\ alive =>
         evals[e.thread] # <<>>)'
  BY <1>12
<1>17. /\ pc'[Cmd] \notin {"stopping", "pausing"}
       /\ cbpc' \notin {"StepComplete", "Exception", "ExceptionFilter", "ExceptionStop",
                         "StopCheck", "StopDec", "StopStore", "StopEmit"}
       /\ (alive => stop <= 1)' /\ ~Ending'
       /\ (\A e, f \in pending : e.thread = f.thread => e = f)'
  BY <1>1, <1>9
<1> QED
  BY <1>13, <1>14, <1>15, <1>16, <1>17 DEF OwnInv

(* A step that neither sets up nor ends an evaluation, nor makes the client*)
(* or a worker count on the process anew, keeps all of it.                 *)
LEMMA OwnKept ==
  ASSUME IInv, OwnInv,
         alive' => alive /\ stop' <= 1,
         alive' => \A t \in Threads : evals'[t] = evals[t],
         pending' \subseteq pending,
         Ending' <=> Ending,
         Ending => UNCHANGED <<cbeval, cbthread>>,
         pc'[Cmd] \notin {"stopping", "pausing"},
         cbpc' \notin {"StepComplete", "Exception", "ExceptionFilter", "ExceptionStop",
                       "StopCheck", "StopDec", "StopStore", "StopEmit"},
         \A r \in Requesters : alive' =>
           /\ Evaluates(r)' <=> Evaluates(r)
           /\ Evaluates(r) => tid'[r] = tid[r]
           /\ Waits(r) => Waits(r)',
         \A w \in Workers : alive' /\ pc'[w] # "idle" => ~ClientHolds' /\ ~Waits(Cmd)'
  PROVE  OwnInv'
<1>1. \A e \in pending : e.thread \in Threads
  BY DEF IInv, WaitInv, TypeOK, CorTypeOK, Events
<1>2. \A r \in Requesters : Waits(r) => Evaluates(r)
  BY DEF Evaluates
<1>3. \A r \in Requesters : Evaluates(r) => tid[r] \in Threads
  BY DEF Evaluates, Waits, IInv, WaitInv
<1>4. (\A r \in Requesters : alive /\ Evaluates(r) /\ ~Ending => evals[tid[r]] = <<r>>)'
  BY <1>3 DEF OwnInv
<1>5. (\A t \in Threads : alive /\ evals[t] # <<>> =>
        ~Ending /\ \E r \in Requesters : Evaluates(r) /\ tid[r] = t)'
  BY DEF OwnInv
<1>6. (alive /\ Ending => \E r \in Requesters : cbeval = r /\ Waits(r) /\ tid[r] = cbthread)'
  BY <1>2 DEF OwnInv
<1>7. /\ (\A e \in pending : e.kind \in {"EvalComplete", "EvalException"} /\ alive =>
            evals[e.thread] # <<>>)'
      /\ (\A e, f \in pending : e.thread = f.thread => e = f)'
  BY <1>1 DEF OwnInv
<1> QED
  BY <1>4, <1>5, <1>6, <1>7 DEF OwnInv

(* The end of an evaluation is told to the one requester that evaluates.   *)
LEMMA OwnEnds ==
  ASSUME IInv, OwnInv, EvalComplete \/ EvalException
  PROVE  OwnInv'
<1>1. /\ Ending /\ ~Ending' /\ NotifyEvalComplete(cbthread) /\ cbthread \in Threads
      /\ cbpc' \in {"EvalQueue", "idle"}
      /\ UNCHANGED <<alive, stop, evals, pending, pc, tid, stops>>
  BY DEF EvalComplete, EvalException, CbGoto, Ending, IInv, WaitInv, corVars
<1>2. alive
  BY <1>1 DEF Ending, IInv, HoldInv
<1>3. PICK r \in Requesters : Waits(r) /\ tid[r] = cbthread
  BY <1>1, <1>2 DEF OwnInv
<1>4. evalResults[cbthread] = r /\ fut' = [fut EXCEPT ![r] = "ready"]
  <2>1. evalResults[cbthread] = r
    BY <1>3 DEF Waits, IInv, WaitInv, PromisesMatchWaits
  <2>2. /\ fut \in [Requesters -> {"none", "pending", "ready", "broken"}]
        /\ \A q \in Requesters : fut'[q] = IF q = r THEN "ready" ELSE fut[q]
        /\ fut' = [q \in Requesters |-> IF q = r THEN "ready" ELSE fut[q]]
    BY <1>1, <2>1 DEF NotifyEvalComplete, IInv, WaitInv, TypeOK
  <2> QED
    BY <2>1, <2>2
<1>5. \A q \in Requesters : ~Evaluates(q)'
  <2>1. \A q \in Requesters : Evaluates(q) => q = r
    BY <1>2, <1>3, OneEvaluates DEF Evaluates, Waits, Busy
  <2>2. \A q \in Requesters : Evaluates(q)' => Evaluates(q) /\ q # r
    BY <1>1, <1>3, <1>4 DEF Evaluates, Waits, IInv, WaitInv, TypeOK
  <2> QED
    BY <2>1, <2>2
<1>6. \A t \in Threads : evals'[t] = <<>>
  BY <1>1, <1>2 DEF OwnInv
<1>7. \A w \in Workers : pc'[w] # "idle" => ~ClientHolds' /\ ~Waits(Cmd)'
  <2> SUFFICES ASSUME NEW w \in Workers, pc[w] # "idle" PROVE ~ClientHolds' /\ ~Waits(Cmd)'
    BY <1>1
  <2>1. ~ClientHolds /\ ~Waits(Cmd)
    BY <1>2 DEF OwnInv
  <2>2. r # Cmd /\ Cmd \in Requesters
    BY <2>1, <1>3 DEF Requesters
  <2>3. fut'[Cmd] = fut[Cmd]
    BY <2>2, <1>4 DEF IInv, WaitInv, TypeOK
  <2> QED
    BY <2>1, <2>3, <1>1 DEF ClientHolds, Waits
<1> QED
  BY <1>1, <1>2, <1>5, <1>6, <1>7 DEF OwnInv

(* A dispatched event ends the evaluation of the requester that waits, or  *)
(* none.                                                                   *)
LEMMA OwnDispatch ==
  ASSUME Undisturbed, IInv, OwnInv, Dispatch
  PROVE  OwnInv'
<1>1. PICK e \in pending :
        DispatchEffects(e) /\ cbpc' = e.kind /\ cbthread' = e.thread /\ cbeval' = Ended(e)
  BY DEF Dispatch
<1>2. /\ e \in Events /\ e.kind \in AllKinds \ {"StepComplete", "Exception"}
      /\ e.thread \in Threads
  BY CorDebugAssumption DEF IInv, WaitInv, TypeOK, CorTypeOK, Events, Undisturbed
<1>3. /\ cbpc = "idle" /\ Running /\ alive /\ stop' = 1 /\ pending' = pending \ {e}
      /\ UNCHANGED <<pc, tid, fut, stops>>
  BY <1>1 DEF Dispatch, DispatchEffects, Running, reqVars
<1>4. /\ cbpc' \notin {"StepComplete", "Exception", "ExceptionFilter", "ExceptionStop",
                       "StopCheck", "StopDec", "StopStore", "StopEmit"}
      /\ pc'[Cmd] \notin {"stopping", "pausing"}
      /\ \A w \in Workers : pc'[w] # "idle" => ~ClientHolds' /\ ~Waits(Cmd)'
  BY <1>1, <1>2, <1>3 DEF AllKinds, OwnInv, ClientHolds, Waits
<1>5. CASE e.kind \in {"EvalComplete", "EvalException"}
  <2>1. evals[e.thread] # <<>> /\ ~Ending
    BY <1>3, <1>5 DEF OwnInv, Ending
  <2>2. PICK r \in Requesters : Evaluates(r) /\ tid[r] = e.thread
    BY <2>1, <1>2, <1>3 DEF OwnInv
  <2>3. Waits(r)
    BY <1>3, <2>2, RunningWaits
  <2>4. evals[e.thread] = <<r>>
    BY <1>3, <2>1, <2>2 DEF OwnInv
  <2>5. \A t \in Threads : evals[t] # <<>> => t = e.thread
    <3> SUFFICES ASSUME NEW t \in Threads, evals[t] # <<>> PROVE t = e.thread
      OBVIOUS
    <3>1. PICK q \in Requesters : Evaluates(q) /\ tid[q] = t
      BY <1>3 DEF OwnInv
    <3>2. q = r
      BY <1>3, <2>2, <3>1, OneEvaluates DEF Evaluates, Waits, Busy
    <3> QED
      BY <2>2, <3>1, <3>2
  <2>6. evals' = [evals EXCEPT ![e.thread] = Tail(<<r>>)] /\ Tail(<<r>>) = <<>>
    BY <1>1, <1>5, <2>4 DEF DispatchEffects
  <2>7. \A t \in Threads : evals'[t] = <<>>
    BY <2>5, <2>6, <1>2 DEF IInv, WaitInv, TypeOK, EvalsOK
  <2>8. cbeval' = r
    BY <1>1, <1>5, <2>4 DEF Ended
  <2>9. Ending' /\ Waits(r)' /\ tid'[r] = cbthread'
    BY <1>1, <1>3, <1>5, <2>2, <2>3 DEF Ending, Waits
  <2>10. \A f \in pending' : f.kind \notin {"EvalComplete", "EvalException"}
    <3> SUFFICES ASSUME NEW f \in pending, f # e, f.kind \in {"EvalComplete", "EvalException"}
                 PROVE FALSE
      BY <1>3
    <3>1. evals[f.thread] # <<>> /\ f.thread \in Threads
      BY <1>3 DEF OwnInv, IInv, WaitInv, TypeOK, CorTypeOK, Events
    <3> QED
      BY <3>1, <2>5 DEF OwnInv
  <2>11. \A d, f \in pending' : d.thread = f.thread => d = f
    BY <1>3 DEF OwnInv
  <2> QED
    BY <1>3, <1>4, <2>7, <2>8, <2>9, <2>10, <2>11 DEF OwnInv
<1>6. CASE e.kind \notin {"EvalComplete", "EvalException"}
  <2>1. alive' => \A t \in Threads : evals'[t] = evals[t]
    <3>1. CASE e.kind = "ExitThread"
      <4>1. evals[e.thread] = <<>> /\ evals' = [evals EXCEPT ![e.thread] = <<>>]
        BY <3>1, <1>1, <1>3 DEF DispatchEffects, IInv, HoldInv
      <4> QED
        BY <4>1 DEF IInv, WaitInv, TypeOK, EvalsOK
    <3>2. CASE e.kind # "ExitThread"
      BY <3>2, <1>1, <1>6 DEF DispatchEffects
    <3> QED
      BY <3>1, <3>2
  <2>2. ~Ending /\ ~Ending'
    BY <1>1, <1>3, <1>6 DEF Ending
  <2> QED
    BY <1>3, <1>4, <2>1, <2>2, OwnKept DEF Evaluates, Waits
<1> QED
  BY <1>5, <1>6

(* Every step keeps an undisturbed evaluation its requester's own.         *)
LEMMA OwnNext ==
  ASSUME Undisturbed, IInv, OwnInv, [Next]_vars
  PROVE  OwnInv'
<1>0. /\ TypeOK /\ CorTypeOK /\ WaitInv /\ HoldInv /\ Cmd \in Requesters
      /\ Workers \subseteq Requesters /\ Cmd \notin Workers
  BY ManagedDebuggerAssumption DEF IInv, WaitInv, TypeOK, Requesters
<1>o. /\ pc[Cmd] \notin {"stopping", "pausing"}
      /\ cbpc \notin {"StepComplete", "Exception", "ExceptionFilter", "ExceptionStop",
                      "StopCheck", "StopDec", "StopStore", "StopEmit"}
      /\ alive => stop <= 1
      /\ \A w \in Workers : alive /\ pc[w] # "idle" => ~ClientHolds /\ ~Waits(Cmd)
  BY DEF OwnInv
<1> USE <1>0, <1>o DEF Goto, CbGoto, Evaluates, Ending, Waits, DoContinue, Synchronized, TypeOK,
             CorTypeOK, corVars, evalVars, reqVars, cbVars
<1>1. ASSUME NEW r \in Requesters, EvalStep(r) PROVE OwnInv'
  <2>1. CASE EvalFunction(r) \/ EvalObjectNoConstructor(r)
    BY <2>1, OwnSetUp
  <2>2. CASE RunEval(r)
    <3>1. alive => evalResults[tid[r]] = NoOne
      <4> SUFFICES ASSUME alive, evalResults[tid[r]] # NoOne PROVE FALSE
        OBVIOUS
      <4>1. PICK q \in Requesters : evalResults[tid[r]] = q /\ fut[q] = "pending"
        BY <2>2 DEF RunEval, WaitInv, PromisesMatchWaits
      <4>2. pc[q] \in {"continueeval", "await"} /\ pc[r] = "runeval"
        BY <2>2, <4>1 DEF RunEval, WaitInv
      <4> QED
        BY <4>2, OneEvaluates DEF Busy
    <3> QED
      BY <2>2, <3>1, OwnKept DEF RunEval, ClientHolds
  <2>3. CASE RunEvalContinue(r)
    <3>1. alive => Synchronized /\ fut[r] = "pending" /\ pc[r] = "continueeval"
      BY <2>3 DEF RunEvalContinue, HoldInv, StopsCovered, Held, WorkerHolds, ClientHolds, WaitInv,
                  Requesters
    <3> QED
      BY <2>3, <3>1, OwnKept DEF RunEvalContinue, ClientHolds
  <2>4. CASE WaitEvalResult(r)
    BY <2>4, OwnKept DEF WaitEvalResult, ClientHolds
  <2> QED
    BY <1>1, <2>1, <2>2, <2>3, <2>4 DEF EvalStep
<1>2. ASSUME NEW w \in Workers, WorkerStep(w) PROVE OwnInv'
  <2>1. CASE HitBreakpoint(w)
    BY <2>1, OwnKept DEF HitBreakpoint, ClientHolds
  <2>2. CASE HitBreakpointReturns(w)
    BY <2>2, OwnKept DEF HitBreakpointReturns, Finished, ClientHolds
  <2>3. CASE WorkerContinue(w)
    BY <2>3, OwnKept DEF WorkerContinue, ClientHolds
  <2>4. CASE WorkerReport(w)
    <3>1. alive => \A v \in Workers : pc'[v] = "idle"
      BY <2>4 DEF WorkerReport, HoldInv, AtMostOneWorker
    <3> QED
      BY <2>4, <3>1, OwnKept DEF WorkerReport
  <2> QED
    BY <1>2, <2>1, <2>2, <2>3, <2>4 DEF WorkerStep
<1>3. CASE Client
  <2>1. CASE Continue
    BY <2>1, OwnKept DEF Continue, ClientHolds, Request
  <2>2. CASE Pause
    BY <2>2 DEF Pause, Undisturbed, Request
  <2>3. CASE SetBreakpoints
    BY <2>3, OwnKept DEF SetBreakpoints, ClientHolds, Request
  <2>4. ASSUME NEW t \in Threads, StepCommand(t) PROVE OwnInv'
    BY <2>4, OwnKept DEF StepCommand, ClientHolds, Request
  <2>5. ASSUME NEW t \in Threads, Evaluate(t) PROVE OwnInv'
    BY <2>5, OwnKept DEF Evaluate, ClientHolds, Request
  <2>6. ASSUME NEW t \in Threads, GetExceptionInfoResponse(t) PROVE OwnInv'
    BY <2>6, OwnKept DEF GetExceptionInfoResponse, ClientHolds, Request
  <2> QED
    BY <1>3, <2>1, <2>2, <2>3, <2>4, <2>5, <2>6 DEF Client
<1>4. CASE CommandStep
  <2>1. CASE Resume
    BY <2>1, OwnKept DEF Resume, ClientHolds
  <2>2. CASE ResumeEmit
    BY <2>2, OwnKept DEF ResumeEmit, EmitContinuedEvent, ClientHolds
  <2>3. CASE ResumeDec
    BY <2>3, OwnKept DEF ResumeDec, ClientHolds
  <2>4. CASE PauseStop \/ PauseReport
    BY <2>4 DEF PauseStop, PauseReport
  <2>5. CASE ReadBreakMode
    BY <2>5, OwnKept DEF ReadBreakMode, ClientHolds
  <2>6. CASE RequestDone
    BY <2>6, OwnKept DEF RequestDone, Finished, ClientHolds
  <2>7. CASE SetBreakpointsLocked
    BY <2>7, OwnKept DEF SetBreakpointsLocked, ClientHolds
  <2> QED
    BY <1>4, <2>1, <2>2, <2>3, <2>4, <2>5, <2>6, <2>7 DEF CommandStep
<1>5. CASE CallbackStep
  <2>1. CASE BreakpointDuringEval \/ CreateThread \/ LoadModule
    BY <2>1, OwnKept DEF BreakpointDuringEval, CreateThread, LoadModule, ClientHolds
  <2>2. CASE BreakpointCallback
    <3>1. PICK w \in Workers : /\ pc[w] = "idle" /\ pc' = [pc EXCEPT ![w] = "hit"]
                               /\ tid' = [tid EXCEPT ![w] = cbthread]
      BY <2>2 DEF BreakpointCallback
    <3>2. alive => ~ClientHolds
      BY <2>2 DEF BreakpointCallback, HoldInv, StopsCovered, Held, CallbackHolds
    <3>3. ~Waits(Cmd)
      <4> SUFFICES ASSUME Waits(Cmd) PROVE IsEvalRunning
        BY <2>2 DEF BreakpointCallback
      <4>1. tid[Cmd] \in Threads /\ evalResults[tid[Cmd]] = Cmd
        BY DEF WaitInv, PromisesMatchWaits
      <4> QED
        BY <4>1, ManagedDebuggerAssumption DEF IsEvalRunning
    <3> QED
      BY <2>2, <3>1, <3>2, <3>3, OwnKept DEF BreakpointCallback, ClientHolds
  <2>3. CASE EvalComplete \/ EvalException
    BY <2>3, OwnEnds
  <2>4. CASE EvalQueue \/ EvalRunAll \/ EvalPop \/ EvalNext \/ EvalSuspend \/ EvalResume
    BY <2>4, OwnKept DEF EvalQueue, EvalRunAll, EvalPop, EvalNext, EvalSuspend, EvalResume,
                         ClientHolds
  <2>5. CASE ExitProcess \/ ExitDrain
    <3>1. ~alive
      BY <2>5 DEF ExitProcess, ExitDrain, HoldInv
    <3> QED
      BY <2>5, <3>1, OwnKept DEF ExitProcess, ExitDrain
  <2>6. CASE ExitThread
    <3>1. alive /\ cbthread \in Threads /\ evals[cbthread] = <<>>
      BY <2>6 DEF ExitThread, HoldInv, WaitInv
    <3>2. evalResults[cbthread] = NoOne
      <4> SUFFICES ASSUME evalResults[cbthread] # NoOne PROVE FALSE
        OBVIOUS
      <4>1. PICK q \in Requesters :
              evalResults[cbthread] = q /\ fut[q] = "pending" /\ tid[q] = cbthread
        BY <3>1 DEF WaitInv, PromisesMatchWaits
      <4>2. pc[q] = "await"
        BY <2>6, <4>1 DEF ExitThread, NotifyEvalComplete, EvalMutexFree, WaitInv
      <4>3. evals[cbthread] = <<q>>
        BY <2>6, <3>1, <4>1, <4>2 DEF OwnInv, ExitThread
      <4>4. <<q>> # <<>>
        OBVIOUS
      <4> QED
        BY <3>1, <4>3, <4>4, Zenon
    <3>3. \A q \in Requesters : fut'[q] = fut[q]
      BY <2>6, <3>2, ManagedDebuggerAssumption DEF ExitThread, NotifyEvalComplete
    <3> QED
      BY <2>6, <3>3, OwnKept DEF ExitThread, ClientHolds
  <2>7. CASE StepComplete \/ Exception \/ ExceptionFilter \/ ExceptionDuringEval
             \/ ExceptionToStop \/ StopCheck \/ StopDec \/ StopStore \/ StopEmit
    BY <2>7 DEF StepComplete, Exception, ExceptionFilter, ExceptionDuringEval, ExceptionToStop,
                StopCheck, StopDec, StopStore, StopEmit
  <2> QED
    BY <1>5, <2>1, <2>2, <2>3, <2>4, <2>5, <2>6, <2>7 DEF CallbackStep
<1>6. CASE DebuggeeStep
  <2>1. PICK e, f \in Events : /\ CanRaise(e) /\ CanRaise(f)
                               /\ e = f \/ e.thread # f.thread
                               /\ pending' = {e, f}
    BY <1>6 DEF DebuggeeStep, Raise
  <2>2. \A d \in pending' : d.kind \in {"EvalComplete", "EvalException"} => evals[d.thread] # <<>>
    BY <2>1 DEF CanRaise
  <2>3. /\ \A d, g \in pending' : d.thread = g.thread => d = g
        /\ UNCHANGED <<alive, stop, evals, pc, tid, fut, cbpc, cbthread, cbeval, stops>>
    BY <1>6, <2>1 DEF DebuggeeStep, Raise
  <2> QED
    BY <2>2, <2>3 DEF OwnInv, ClientHolds
<1>7. CASE Dispatch
  BY <1>7, OwnDispatch
<1>8. CASE UNCHANGED vars
  BY <1>8, OwnKept DEF vars, ClientHolds
<1> QED
  BY <1>1, <1>2, <1>3, <1>4, <1>5, <1>6, <1>7, <1>8 DEF Next

(* While nothing disturbs them, evaluations are made one at a time: the    *)
(* stop counter and BreakpointCallback's look at the promises keep the     *)
(* workers and the protocol thread from evaluating at once.                *)
THEOREM OwnInvariant ==
  ASSUME Undisturbed
  PROVE  Spec => []OwnInv
<1>1. "evalThreadExit" \notin Faults
  BY DEF Undisturbed
<1>2. Init => OwnInv
  BY OwnInit
<1>3. IInv /\ OwnInv /\ [Next]_vars => OwnInv'
  BY OwnNext
<1>4. Spec => []IInv
  BY <1>1, HoldInvariant
<1> QED
  BY <1>2, <1>3, <1>4, PTL DEF Spec

(* A requester's wait ends with the completion of its own evaluation, with *)
(* an exception in it or with the process, and with nothing else, as long  *)
(* as no pause, stop or thread exit comes in the middle of an evaluation.  *)
THEOREM OwnWaitsEnd ==
  ASSUME Undisturbed
  PROVE  Spec => WaitsEndWithOwnEvaluation
<1>1. ASSUME IInv, OwnInv, [Next]_vars, NEW r \in Requesters, Waits(r)
      PROVE  Waits(r)' <=> ~OwnEvalEnds(r)
  <2>1. Waits(r)' <=> ~Ends(r)
    BY <1>1, EndsOwnWaits DEF IInv
  <2>2. /\ WaitInv /\ TypeOK /\ tid[r] \in Threads /\ evalResults[tid[r]] = r
        /\ cbpc # "idle" => cbthread \in Threads
    BY <1>1 DEF IInv, WaitInv, Waits, PromisesMatchWaits
  <2>3. CASE Ending
    <3>1. alive
      BY <2>3, <1>1 DEF Ending, IInv, HoldInv
    <3>2. PICK q \in Requesters : cbeval = q /\ Waits(q) /\ tid[q] = cbthread
      BY <1>1, <2>3, <3>1 DEF OwnInv
    <3>3. evalResults[tid[q]] = q
      BY <3>2, <2>2 DEF WaitInv, PromisesMatchWaits, Waits
    <3> QED
      BY <2>1, <2>2, <2>3, <3>2, <3>3 DEF Ends, OwnEvalEnds, Ending
  <2>4. CASE cbpc = "ExitThread"
    <3>1. alive /\ evals[cbthread] = <<>>
      BY <2>4, <1>1 DEF IInv, HoldInv
    <3>2. evals[tid[r]] = <<r>>
      BY <2>4, <3>1, <1>1 DEF OwnInv, Evaluates, Ending
    <3>3. <<r>> # <<>>
      OBVIOUS
    <3>4. cbthread # tid[r]
      BY <3>1, <3>2, <3>3, Zenon
    <3> QED
      BY <2>1, <2>4, <3>4 DEF Ends, OwnEvalEnds
  <2>5. CASE ~Ending /\ cbpc # "ExitThread"
    BY <2>1, <2>5 DEF Ends, OwnEvalEnds, Ending
  <2> QED
    BY <2>3, <2>4, <2>5
<1>2. "evalThreadExit" \notin Faults
  BY DEF Undisturbed
<1>3. IInv /\ OwnInv /\ [Next]_vars =>
        [\A r \in Requesters : Waits(r) => (Waits(r)' <=> ~OwnEvalEnds(r))]_vars
  BY <1>1
<1>4. Spec => []IInv /\ []OwnInv
  BY <1>2, HoldInvariant, OwnInvariant
<1> QED
  BY <1>3, <1>4, PTL DEF Spec, WaitsEndWithOwnEvaluation
=============================================================================
