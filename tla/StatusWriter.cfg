SPECIFICATION WriterFairSpec
CONSTANTS
  Tools = {"t1"}
  Names = {"n1", "n2"}
  MaxCalls = 1
  MaxFailures = 1
 
PROPERTIES  ClosedSessionIsGone
CHECK_DEADLOCK FALSE
