SPECIFICATION FairSpec
CONSTANTS
  Sessions = {"s1", "s2", "s3"}
  Sweepers = {"s1"}
  MayStall = TRUE
  MayCrash = TRUE
INVARIANT SerialLeaseIsTrue
PROPERTIES SplitHeals DeadLeaseGoes
CHECK_DEADLOCK FALSE
