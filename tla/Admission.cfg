\* One server, an optional lane whose task works, a required one whose task does anything; a fault.
CONSTANTS
  a = a
  b = b
  Servers <- OneServer
  LaneCount = 2
  Required = {2}
  Plain = {1}
  MaxFaults = 1
SPECIFICATION FairSpec
INVARIANTS TypeOK Admitted CompletedIsTrue FinishedMeansStopped
PROPERTIES TerminalIsFinal RunSettles
CHECK_DEADLOCK FALSE
