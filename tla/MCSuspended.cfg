SPECIFICATION Spec
CONSTANTS
  t1 = t1
  t2 = t2
  w1 = w1
  w2 = w2
  Cmd = Cmd
  Threads = {t1, t2}
  Workers = {w1}
  Kinds = {"Breakpoint", "EvalComplete", "StepComplete"}
  Faults = {}
  Commands = {"step", "evaluate"}
  MaxNested = 2
  MaxEvals = 1
  ConditionEvals = 0
  MaxQueue = 2
  MaxDrift = 1
INVARIANTS
  SuspendedOnlyDuringEval
CHECK_DEADLOCK FALSE
