SPECIFICATION Spec
CONSTANTS
  d1 = d1
  n = n
  u = u
  f = f
  m1 = m1
  m3 = m3
  p1 = p1
  p2 = p2
  p4 = p4
  p5 = p5
  c = c
  NoPoint = NoPoint
  NoModule = NoModule
  Docs = {d1}
  Names = {n, u}
  Lines = {1}
  Funcs = {f}
  Conds = {c}
  Modules = {m1, m3}
  Symbols = {m1}
  Points = {p1, p2, p4, p5}
  Settable = {p1, p2, p4}
  Unreadable = {p2}
  Params = {f}
  NameOf <- MCNameOf
  ByFile <- MCByFile
  ModuleOf <- MCModuleOf
  PosOf <- MCPosOf
  ByName <- MCByName
  ByParams <- MCByParams
  EntryOf <- MCEntryOf
  MaxSources = 1
  MaxId = 2
  MaxRuns = 2
INVARIANTS
  TypeOK
  ResolvedWhenLoaded
  ClientAgrees
PROPERTIES
  
  UnconditionalStops
  ImplementsTable
