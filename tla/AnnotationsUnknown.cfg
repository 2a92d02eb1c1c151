SPECIFICATION Spec
CONSTANTS
  MaxEvaluations = 1
  IndexLimit = 1000
  MaxEdits = 0
  MaxRuns = 1
INVARIANT UnknownNeverCounted
CHECK_DEADLOCK FALSE
