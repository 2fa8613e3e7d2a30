SPECIFICATION CompactFairSpec
CONSTANTS
  Requests = {r1, r2}
  MayCrash = TRUE
INVARIANTS
  OutcomeIsTrue
PROPERTIES
  AnswerInTimeCounts
  EveryRequestReturns
CHECK_DEADLOCK FALSE
