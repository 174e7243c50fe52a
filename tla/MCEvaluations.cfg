SPECIFICATION FairSpec
CONSTANTS
  t1 = t1
  t2 = t2
  w1 = w1
  w2 = w2
  Cmd = Cmd
  Threads = {t1, t2}
  Workers = {w1}
  Kinds = {"Breakpoint", "EvalComplete", "EvalException", "CreateThread", "ExitThread", "ExitProcess"}
  Faults = {}
  Commands = {"continue", "evaluate", "exceptionInfo", "setBreakpoints"}
  MaxNested = 2
  MaxEvals = 1
  ConditionEvals = 1
  MaxQueue = 2
  MaxDrift = 1
INVARIANTS
  TypeOK
  OwnInv
PROPERTIES
  WaitsEndWithOwnEvaluation
  EvalsEndOrFreeze
CHECK_DEADLOCK FALSE
