SPECIFICATION FairSpec
CONSTANTS
  MaxEvaluations = 4
  IndexLimit = 3
  MaxEdits = 2
  MaxRuns = 3
INVARIANTS
  KilledSaveRepaired
  CountedFileAgrees
PROPERTIES
  ConsistentFileKept
  RunEnds
CHECK_DEADLOCK FALSE
