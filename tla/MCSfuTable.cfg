CONSTANTS
  a1 = a1
  None = None
  Task <- MCTask
  Addr <- MCAddr
  Ufrag <- MCUfrag
  Room <- MCRoom
  Streams = {"video"}
  LegSize = 1
  MaxRequests = 2
  MaxEmit = 2
  MaxPublish = 0
SPECIFICATION Spec
INVARIANTS
  PortKnowsTasks
CHECK_DEADLOCK FALSE
