SPECIFICATION Spec
CONSTANTS
  node = node
  leaf = leaf
  Exceptions = {leaf}
  None = None
  Values = {node, leaf}
  Instance <- MCInstance
  Static <- MCStatic
  Frames <- MCFrames
  Positions = {0, 1, 2}
  Interpreters = {"mi", "vscode"}
  ClientNames = {0}
  MaxRef = 3
  MaxVar = 1
INVARIANTS
  TypeOK
  OwnTarget
  VarObjectsOwn
  PagesAreSlices
CHECK_DEADLOCK FALSE
