CONSTANTS
  w1 = w1
  w2 = w2
  o1 = o1
  o2 = o2
  c1 = c1
  Inner = Inner
  Everyone = Everyone
  WorkerId <- MCWorkerId
  Owner <- MCOwner
  Tasks <- MCTasks
  Channel <- MCChannel
  StackSize <- MCStackSize
  MaxPublish = 2
SPECIFICATION FairSpec
INVARIANTS
  TypeOK
  HubMatchesChannels
  InOrderOnce
PROPERTIES
  SafeReachesSubscribers
