SPECIFICATION Spec
INVARIANTS
  EveryOpenAskIsWatched
  AnsweredIsGenuine
  HonouredCancelHolds
  QueueNeverStalls
  
PROPERTIES
  TerminalIsSticky
  ImplementsAskDesk
CONSTANTS
  a1 = a1
  a2 = a2
  Asks = {a1, a2}
  Delegated = {}
  ById = {}
  Recallable = {a1}
  MayCrash = FALSE
  MaxQueue = 2
  NoAsk = NoAsk
CHECK_DEADLOCK FALSE
