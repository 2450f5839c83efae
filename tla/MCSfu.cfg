CONSTANTS
  a1 = a1
  None = None
  Task <- MCTask
  Addr <- MCAddr
  Ufrag <- MCUfrag
  Room <- MCRoom
  Streams = {"video"}
  LegSize = 1
  MaxRequests = 2
  MaxEmit = 2
  MaxPublish = 1
SPECIFICATION FairSpec
INVARIANTS
  TypeOK
  PortTablesAgree
  PublisherEntriesOwn
  SubscribersBelong
  ViewersDrained
  AssertionsHold
PROPERTIES
  PortSpec
  Answered
  SessionsSettle
CHECK_DEADLOCK FALSE
