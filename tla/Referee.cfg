SPECIFICATION Spec
CONSTANTS
  TimeModulus = 3
  CounterModulus = 3
  AutoToHumanDelay = 1
  Ports = {1, 2, 5}
  RefboxPort = 1
  PortModulus = 4
  Kinds = {"STOP", "GOAL_BLUE", "HALT"}
  Groups <- TwoGroups
  MaxIssued = 3
  MaxLog = 4
CONSTRAINT Small
INVARIANTS
  KeepsTheNewer
  NewestLoaded
  EventsIdentified
  EventsFollowCommands
  EventsOrdered
  SlotsAligned
CHECK_DEADLOCK FALSE
