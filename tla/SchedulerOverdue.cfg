SPECIFICATION Spec
CONSTANTS
  NumPcbs = 3
  NumStacks = 16
  MaxSpawns = 3
  SpawnTypes = {"KERNEL_THREAD", "PROCESS"}
  SleepTicks = {1, 3}
  WaitQueue = {"lock"}
  Calls <- CallsReuse
INVARIANT NoOverdueSleeper
