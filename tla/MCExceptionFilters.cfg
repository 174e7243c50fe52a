SPECIFICATION Spec
CONSTANTS
  app = app
  sys = sys
  Star = Star
  Names = {app, sys}
  SystemNames = {sys}
  Categories = {"CLR", "MDA"}
  Interpreters = {"mi", "vscode"}
  MaxId = 3
INVARIANTS
  TypeOK
  FiltersAgree
  OneGlobalFilter
  InfoAnswered
PROPERTIES
  InsertionSucceeds
  StopsOnlyAsked
  NoThrowMissed
CHECK_DEADLOCK FALSE
