SPECIFICATION Spec
CONSTANTS
  Name = {u1, u2}
  Baseless = {u2}
  Pattern = {p1, p2}
  PlainUrl = {plain}
  SsoUrl = {login}
  NoUrl = NoUrl
  Run = {r1, r2}
  MaxRuns = 2
  MaxEdits = 1
SYMMETRY Symmetry
INVARIANTS
  TypeOK
  RunsCanProceed
  SessionsAreSerial
  LoginsAreNotCached
  OrphansHaveCause
  LogCountsChecks
  ResyncHasLastWord
CHECK_DEADLOCK FALSE
