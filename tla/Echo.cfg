SPECIFICATION FairSpec
CONSTANTS
  NumLines = 3
  SocketBuffer = 2
  MaxRepeated = 1
INVARIANTS
  StaleReplyHasCause
  LateRepliesBounded
PROPERTY ClientEnds
CHECK_DEADLOCK FALSE
