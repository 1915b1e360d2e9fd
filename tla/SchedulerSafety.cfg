SPECIFICATION HSpec
CONSTANTS
  NumPcbs = 3
  NumStacks = 16
  MaxSpawns = 3
  SpawnTypes = {"KERNEL_THREAD", "PROCESS"}
  SleepTicks = {2}
  WaitQueue = {"lock"}
  Calls <- CallsAll
INVARIANTS CriticalSections NeverStops QueueIntegrity UserFrameIntact OthersPreemptible
PROPERTIES KernelNotPreempted ImplementsTaskSystem
