SPECIFICATION Spec
CONSTANTS
  s1 = s1
  s2 = s2
  s3 = s3
  Sessions = {s1, s2, s3}
  NoSession = NoSession
  Alone = {}
  MaxLine = 2
  MaxRun = 1
  Sweepers = {s1}
SYMMETRY Symmetry
INVARIANTS  LiveNameIsKept AgedClaimIsReclaimed
CHECK_DEADLOCK FALSE
