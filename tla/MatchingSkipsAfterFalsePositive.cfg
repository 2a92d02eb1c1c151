SPECIFICATION Spec
CONSTANTS
  TimeModulus = 16
  CounterModulus = 8
  AutoToHumanDelay = 2
  Stamps = {4, 5, 8, 12, 13}
  Kinds = {"GOAL_BLUE", "DIRECT_FREE_YELLOW"}
  MaxHuman = 2
  MaxAutoref = 2
  Unstopped = FALSE
  HumanLogs <- MCHumanLogs
  AutorefLogs <- MCAutorefLogs
  HeapContents <- MCHeap
INVARIANT FalsePositiveOverlapsNone
CHECK_DEADLOCK FALSE
