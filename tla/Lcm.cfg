SPECIFICATION NumbersSpec
CONSTANTS
  Numbers = {2, 3, 4, 6}
  IntModulus = 16
  Circle = 8
INVARIANT LcmIsLeast
CHECK_DEADLOCK FALSE
