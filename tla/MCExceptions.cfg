SPECIFICATION FairSpec
CONSTANTS
  t1 = t1
  t2 = t2
  w1 = w1
  w2 = w2
  Cmd = Cmd
  Threads = {t1}
  Workers = {w1}
  Kinds = {"Exception", "EvalComplete"}
  Faults = {}
  Commands = {"continue", "exceptionInfo"}
  MaxNested = 1
  MaxEvals = 2
  ConditionEvals = 0
  MaxQueue = 3
  MaxDrift = 1
PROPERTIES
  EvalsEnd
CHECK_DEADLOCK FALSE
