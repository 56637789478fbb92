CONSTANTS
  Scripts <- MCScripts
  PipeCap = 1
  MaxBody = 2
SPECIFICATION Spec
INVARIANTS ServerSurvives
CHECK_DEADLOCK FALSE
