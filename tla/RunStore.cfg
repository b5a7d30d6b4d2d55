CONSTANTS
  c1 = c1
  c2 = c2
  c3 = c3
  Calls <- ThreeCalls
  Processes <- ThreeCalls
  Host <- OneEach
  Submissions <- Rivals
  Faults = TRUE
  MaxCrashes = 1
SPECIFICATION Spec
SYMMETRY CallSymmetry
INVARIANTS TypeOK
PROPERTIES AtomicTable
CHECK_DEADLOCK FALSE
