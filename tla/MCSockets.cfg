CONSTANTS
  Kinds <- MCKinds
  Vacant = Vacant
  Waker = Waker
  Backends <- MCBackends
  MaxOpen = 2
  MaxOutput = 2
  MaxWaiting = 1
SPECIFICATION FairSpec
INVARIANTS
  TypeOK
  AnsweredFirst
  TokensFit
PROPERTIES
  CycleEnds
  PacketServed
