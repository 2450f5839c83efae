CONSTANTS
  MaxWorkers = 1
  StackSize = 1
  OwnTasks <- MCOwnTasks
  MaxSpawn = 1
  MaxExt = 1
  MaxShutdown = 1
SPECIFICATION FairSpec
PROPERTIES
  StopsOnShutdown
  SpawnStarts
