SPECIFICATION Spec
CONSTANTS
  Email = {a, b}
  NoEmail = NoEmail
  Link = {l1}
  Request = {r1, r2}
  MaxTeams = 2
  MaxRequests = 4
SYMMETRY Symmetry
INVARIANTS
  AdminlessHasCause
  DanglingHasCause
CHECK_DEADLOCK FALSE
