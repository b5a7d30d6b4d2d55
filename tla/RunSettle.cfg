CONSTANTS
  a = a
  b = b
  p = p
  q = q
  Servers <- OneServer
  Lanes <- TwoLanes
  Required <- OneLane
  Mute <- Nobody
  Faults = FALSE
  StoreFails = FALSE
  SettlesFinal = TRUE
  MaxCrashes = 0
SPECIFICATION FairSpec
PROPERTIES RunEnds
