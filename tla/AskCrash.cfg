SPECIFICATION FairSpec
PROPERTIES
  ImplementsAskDesk
  
CONSTANTS
  a1 = a1
  a2 = a2
  Asks = {a1, a2}
  Delegated = {a2}
  ById = {a2}
  Recallable = {}
  MayCrash = TRUE
  MaxQueue = 1
  NoAsk = NoAsk
CHECK_DEADLOCK FALSE
