SPECIFICATION HelpersSpec
CONSTANTS
  NumThreads = 3
  MaxCalls = 4
  Numbers <- MCNumbers
  IntModulus = 16
  Circle = 8
  Values = {v1, v2}
  Junk = Junk
  NULL = NULL
  MaxSize = 4
INVARIANTS
  NoLostUpdate
  AbortNeedsLateClear
  GcdIsGreatest
  AnglesNormalized
  AverageHalfway
  KeepsItems
PROPERTY EveryoneFinishes
CHECK_DEADLOCK FALSE
