SPECIFICATION FairSpec
CONSTANTS
  Sessions = {s1, s2}
  Names = {n1, n2}
  MaxTokens = 2
  Scope = "project"
INVARIANTS
  AnswerBeatsTimeout
PROPERTIES
  
  DelegateReturns
CHECK_DEADLOCK FALSE
