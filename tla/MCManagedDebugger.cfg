SPECIFICATION Spec
CONSTANTS
  t1 = t1
  t2 = t2
  w1 = w1
  w2 = w2
  Cmd = Cmd
  Threads = {t1, t2}
  Workers = {w1, w2}
  Kinds = {"Breakpoint", "StepComplete", "EvalComplete", "EvalException", "Exception", "LoadModule", "ExitThread", "ExitProcess"}
  Faults = {"exceptionInfo"}
  Commands = {"continue", "step", "pause", "evaluate"}
  MaxNested = 2
  MaxEvals = 1
  ConditionEvals = 1
  MaxQueue = 1
  MaxDrift = 1
INVARIANTS
  IInv
  ClientStoppedIsStopped
  AtMostOneWorker
  PromisesMatchWaits
  NoPromiseOfDeadThread
SYMMETRY Symmetry
CHECK_DEADLOCK FALSE
