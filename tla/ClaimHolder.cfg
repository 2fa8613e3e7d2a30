SPECIFICATION Spec
CONSTANTS
  Sessions = {"s1", "s2"}
  Sweepers = {}
  MayStall = FALSE
  MayCrash = FALSE
INVARIANT OneHolder
CHECK_DEADLOCK FALSE
