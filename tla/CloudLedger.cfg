CONSTANTS
  c1 = c1
  c2 = c2
  p1 = p1
  p2 = p2
  r1 = r1
  Calls = {c1, c2}
  Processes = {p1, p2}
  Host <- OneEach
  Requests = {r1}
  Crowded = TRUE
  Garbles = TRUE
  MaxFaults = 1
  MaxCrashes = 1
SPECIFICATION FairSpec
INVARIANTS TypeOK OneAcceptance ReceiptsAreTrue
PROPERTIES PendingEnds
CHECK_DEADLOCK FALSE
