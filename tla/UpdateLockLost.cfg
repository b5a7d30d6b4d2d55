\* A supervisor and a worker alive at the same time.
SPECIFICATION Spec
CONSTANTS
  Processes = {p1, p2}
  Updates = {u1, u2, u3}
  Requests <- RaceRequests
  NoLock = NoLock
  NoProcess = NoProcess
  MaxAttempts = 2
  Overlap = TRUE
  SlowOwner = FALSE
PROPERTIES TerminalCancellationWins
CHECK_DEADLOCK FALSE
