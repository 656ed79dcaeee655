SPECIFICATION Spec
CONSTANTS
  Job = {j1}
  Canceller = {c1}
  Total = 1
  MaxFaults = 0
  MaxRestarts = 1
CHECK_DEADLOCK FALSE
PROPERTY
  RestartSurvives
