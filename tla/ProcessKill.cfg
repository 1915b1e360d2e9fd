SPECIFICATION Spec
CONSTANTS
  NumPcbs = 4
  MaxSpawns = 5
  NumBoxes = 1
  Calls <- CallsSanguo
  NULL = NULL
PROPERTY KillNeedsProcess
CHECK_DEADLOCK FALSE
