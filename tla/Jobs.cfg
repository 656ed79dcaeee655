SPECIFICATION FairSpec
CHECK_DEADLOCK FALSE
CONSTANTS
  Job = {j1}
  Canceller = {c1, c2, c3}
  Total = 2
  MaxFaults = 2
  MaxRestarts = 2
INVARIANTS
  TaskGoneBeforeVerdict
  NoOrphans
PROPERTIES
  SettledRowsAreFinal
  RowsAreClaimed
  EveryJobSettles
