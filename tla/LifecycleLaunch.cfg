\* One call during the launch, a crash, failing inspections.
CONSTANTS
  Calls = {c1}
  Reliable = FALSE
  MayCrash = TRUE
  EarlyCalls = TRUE
  MaxTime = 2
SPECIFICATION Spec
INVARIANTS TypeOK AtMostOneDispatch SettledMeansStopped
PROPERTIES LockTakenOnProof
