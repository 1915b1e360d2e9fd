SPECIFICATION Spec
CONSTANTS
  NumPcbs = 4
  MaxSpawns = 5
  NumBoxes = 1
  Calls <- CallsSanguo
  NULL = NULL
CONSTRAINT Intact
INVARIANT CallsReturn
CHECK_DEADLOCK FALSE
