SPECIFICATION FairSpec
CONSTANTS
  MaxFiles = 3
  Sizes = {1}
  SeenCap = 2
  Coarse = FALSE
  MayFail = TRUE
  MaxSweeps = 1
INVARIANTS RoutedOnce 
PROPERTIES  StopComesToRest
CHECK_DEADLOCK FALSE
