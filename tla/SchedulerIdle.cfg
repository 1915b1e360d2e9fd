SPECIFICATION FairSpec
CONSTANTS
  NumPcbs = 3
  NumStacks = 16
  MaxSpawns = 3
  SpawnTypes = {"PROCESS"}
  SleepTicks = {1}
  WaitQueue = {"lock"}
  Calls <- CallsReuse
PROPERTY EverySleeperWakes
