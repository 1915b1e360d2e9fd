SPECIFICATION Spec
CONSTANTS
  NumPcbs = 4
  MaxSpawns = 5
  NumBoxes = 1
  Calls <- CallsSanguo
  NULL = NULL
CONSTRAINT Intact
INVARIANTS TasksLinked BoxesKept
PROPERTIES WaitEndsWithTask KillWakesWaiters
CHECK_DEADLOCK FALSE
