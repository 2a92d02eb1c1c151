SPECIFICATION FairSpec
CONSTANTS
  SleepModulus = 6
  WallClock = 10
  Stamps = {2, 3, 5, 9}
  Records <- MCRecords
  ClockSteps <- MCClockSteps
  MaxRecords = 3
  MaxClockSteps = 1
  MaxDelay = 2
INVARIANTS
  PublishesTheLog
  NeverFaster
  KeepsPace
PROPERTIES
  EndsAtTheEnd
  PlaybackEnds
CHECK_DEADLOCK FALSE
