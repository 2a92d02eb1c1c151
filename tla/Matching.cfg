SPECIFICATION FairSpec
CONSTANTS
  TimeModulus = 12
  CounterModulus = 8
  AutoToHumanDelay = 2
  Stamps = {4, 5, 7, 9}
  Kinds = {"GOAL_BLUE", "DIRECT_FREE_YELLOW"}
  MaxHuman = 3
  MaxAutoref = 2
  Unstopped = TRUE
  HumanLogs <- MCHumanLogs
  AutorefLogs <- MCAutorefLogs
  HeapContents <- MCHeap
INVARIANTS
  TypeOK
  AutorefsJudgedOnce
  HumansReportedOnce
  TruePositivesAgree
  MissedEventsPrecede
  NoSilentDrop
PROPERTIES
  Termination
  ImplementsScoring
CHECK_DEADLOCK FALSE
