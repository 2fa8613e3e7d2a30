SPECIFICATION Spec
CONSTANTS
  Interval = 2
  Inactivity = 18
  Ceiling = 20
  Stale = 6
  BeatMax = 5
  MaxRead = 3
  MaxNow = 28
INVARIANTS   CeilingHolds
CHECK_DEADLOCK FALSE
