SPECIFICATION SsoSpec
CONSTANTS
  Request = {r1, r2}
  Limit <- Budgets
  Period = 2
  MaxFailures = 1
  LockoutWindow = 1
  CodesPerSet = 2
  MaxTime = 3
  MaxRequests = 4
  Provider = {p1, p2}
  Subject = {u}
  StateTtl = 2
  Scenes <- SomeScenes
SYMMETRY Symmetry
INVARIANTS
  LockoutBounds
  CodesAreSingleUse
  EnrolledWithSeed
  StatesAreOneShot
  RolesFollowLogins
PROPERTY
  LimiterIsExact
CHECK_DEADLOCK FALSE
