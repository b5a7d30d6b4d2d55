\* Two calls at once after the launch, inspections that work, a worker that may hang.
CONSTANTS
  Calls = {c1, c2}
  Reliable = TRUE
  MayCrash = FALSE
  EarlyCalls = FALSE
  MaxTime = 2
SPECIFICATION FairSpec
INVARIANTS FinalMeansStopped
PROPERTIES TerminalIsSettled EveryTaskEnds
