SPECIFICATION Spec
CONSTANTS
  o1 = o1
  a = a
  b = b
  NoPid = NoPid
  Others = {o1}
  Children = {a, b}
  Stubborn = {a}
  Interpreters = {"mi", "vscode"}
CHECK_DEADLOCK FALSE
INVARIANTS
  LifecycleInv
  OneDebuggee
  NothingLeftDebugged
PROPERTIES
  ToldBeforeReleased
  CommandAnswered
