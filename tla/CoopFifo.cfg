CONSTANTS
  NUM_TASKS = 3
  Locks = {lock}
  NULL = NULL
SPECIFICATION Spec
PROPERTY FifoFairness
CHECK_DEADLOCK FALSE
