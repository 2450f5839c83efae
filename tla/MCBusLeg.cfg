CONSTANTS
  p1 = p1
  p2 = p2
  Worker = Worker
  Peer <- MCPeer
  StackSize <- MCStackSize
  MaxSend <- MCMaxSend
SPECIFICATION FairSpec
INVARIANTS
  TypeOK
  NoLostWakeup
  PromptWake
PROPERTIES
  Delivered
