SPECIFICATION FairSpec
CONSTANTS
  NumStreams = 2
  Group <- DefaultGroup
  Port <- DefaultPort
  Multicast <- Groups
  Empty = {2}
  OSFailures = TRUE
  StartTime = 1
  ClockSteps <- Steps
  MaxSent = 3
  SocketBuffer = 2
INVARIANTS
  RecordsWhole
  StreamOrder
  ReceivedIsLogged
  LateRecordsBounded
  CrashesOnlyInShutdown
PROPERTIES
  SigIntEndsLogger
  ImplementsLogFile
CHECK_DEADLOCK FALSE
