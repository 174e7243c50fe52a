SPECIFICATION MISpec
CONSTANTS
  d1 = d1
  f = f
  g = g
  m1 = m1
  p1 = p1
  p2 = p2
  c = c
  NoPoint = NoPoint
  NoModule = NoModule
  Docs = {d1}
  Names = {}
  Lines = {1, 2}
  Funcs = {f}
  Conds = {c}
  Modules = {m1}
  Symbols = {m1}
  Points = {p1, p2}
  Settable = {p1, p2}
  Unreadable = {}
  Params <- MCParams
  NameOf <- MCNameOf
  ByFile <- MCByFile
  ModuleOf <- MCModuleOf
  PosOf <- MCPosOf
  ByName <- MCByName
  ByParams <- MCByParams
  EntryOf <- MCEntryOf
  FuncName <- MCFuncName
  MaxSources = 0
  MaxId = 4
  MaxRuns = 1
INVARIANTS
  MITypeOK
  ClientAgrees
