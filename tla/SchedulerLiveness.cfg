SPECIFICATION FairSpec
CONSTANTS
  NumPcbs = 3
  NumStacks = 16
  MaxSpawns = 4
  SpawnTypes = {"KERNEL_THREAD"}
  SleepTicks = {1}
  WaitQueue = {}
  Calls <- CallsClock
PROPERTIES ReadyTasksRun SleepersWake ImplementsTaskSystem
