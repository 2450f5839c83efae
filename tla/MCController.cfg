CONSTANTS
  MaxWorkers = 2
  StackSize = 1
  OwnTasks <- MCOwnTasks
  MaxSpawn = 1
  MaxExt = 0
  MaxShutdown = 1
SPECIFICATION Spec
INVARIANTS
  TypeOK
  StatsBounded
  NoneIsTrue
