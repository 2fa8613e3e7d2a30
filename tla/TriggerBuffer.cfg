SPECIFICATION FairSpec
CONSTANTS
  QueueCap = 3
  BatchItems = 2
  BatchBytes = 4
  RetryCap = 2
  Sizes = {2, 5}
  MaxItems = 5
  MayThrow = TRUE
INVARIANTS InOrderAndComplete NeverStranded
PROPERTY EveryMessageLeaves
CHECK_DEADLOCK FALSE
