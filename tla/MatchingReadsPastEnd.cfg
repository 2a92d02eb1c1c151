SPECIFICATION Spec
CONSTANTS
  TimeModulus = 12
  CounterModulus = 8
  AutoToHumanDelay = 2
  Stamps = {4, 5, 7, 9}
  Kinds = {"GOAL_BLUE", "DIRECT_FREE_YELLOW"}
  MaxHuman = 1
  MaxAutoref = 2
  Unstopped = FALSE
  HumanLogs <- MCHumanLogs
  AutorefLogs <- MCAutorefLogs
  HeapContents <- MCHeap
INVARIANT ComparesRealEvents
CHECK_DEADLOCK FALSE
