SPECIFICATION Spec
CONSTANTS
  o1 = o1
  a = a
  b = b
  NoPid = NoPid
  Others = {o1}
  Children = {a, b}
  Stubborn = {a}
  Interpreters = {"vscode"}
CHECK_DEADLOCK FALSE
PROPERTIES
  DefaultDetaches
