SPECIFICATION MCSpec
CONSTANTS
  Fifo = {fifo}
  Sorted = {sorted}
  Item = {p1, p2, p3}
  Key = {1, 2, 3}
  Zeroed = Zeroed
  NUM_TASKS = 3
  Locks = {lock}
  NULL = NULL
INVARIANTS RingIntact MutualExclusion NoTaskLost NoLostWakeup
PROPERTY ImplementsSequences
CHECK_DEADLOCK FALSE
