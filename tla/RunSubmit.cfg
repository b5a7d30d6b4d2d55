CONSTANTS
  a = a
  b = b
  p = p
  q = q
  Servers <- TwoServers
  Lanes <- OneLane
  Required <- OneLane
  Mute <- OneLane
  Faults = TRUE
  StoreFails = FALSE
  SettlesFinal = TRUE
  MaxCrashes = 1
SYMMETRY ServerSymmetry
SPECIFICATION Spec
INVARIANTS TypeOK OneDelegation OutcomeTruthful RunOutcomeTruthful CancelTruthful
