\* Processes overlap, die and are slow: the protocol is right until a live lock is unlinked.
SPECIFICATION FairSpec
CONSTANTS
  Processes = {p1, p2}
  Updates = {u1, u2}
  Requests <- GuardRequests
  NoLock = NoLock
  NoProcess = NoProcess
  MaxAttempts = 3
  Overlap = TRUE
  SlowOwner = TRUE
INVARIANTS NoLostUpdate
PROPERTIES AtomicStore EveryUpdateReturns
CHECK_DEADLOCK FALSE
