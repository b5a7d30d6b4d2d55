CONSTANTS
  p = p
  q = q
  x = x
  Children <- OneChild
  Outcomes <- OneOutcome
  Calls <- ThreeCalls
  Processes <- TwoProcesses
  Host <- SplitThree
  Wanted <- OpenAndStart
  SlowHolder = FALSE
  MaxSteals = 1
  MaxMishaps = 2
SPECIFICATION FairSpec
INVARIANTS TypeOK CacheBehind TheftNeedsLeftLock
PROPERTIES AtomicLog EveryCallSettles
CHECK_DEADLOCK FALSE
