SPECIFICATION SessionFairSpec
CONSTANTS
  Calls = {"write", "claim", "rollback", "release", "settle", "heartbeat"}
  NoCall = "none"
  MayFail = TRUE
INVARIANTS
  OneOperationAtATime
  EntryIsDropped
  DurableClaimHolds
PROPERTIES
  ImplementsFifoLock
  EveryCallIsServed
  PhantomHeals
CHECK_DEADLOCK FALSE
