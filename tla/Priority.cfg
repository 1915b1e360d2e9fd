CONSTANTS
  Programs <- TestPrograms
  Tick = 2
  SleepTimes = {1, 3, 4}
  NULL = NULL
SPECIFICATION FairSpec
INVARIANT QueuesIntact
PROPERTIES SleepersWokenInTime ReadyTasksRun
CHECK_DEADLOCK FALSE
