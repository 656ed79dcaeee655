SPECIFICATION FairSpec
CONSTANTS
  Request = {r1, r2}
  Stored = {v1, v2}
  NoValue = NoValue
  Nil = Nil
  Tombstone = Tombstone
  MaxEdits = 1
  MaxSilent = 1
  MaxFaults = 2
INVARIANTS
  LeadersHoldTheLock
  StaleOnlyIfRaced
PROPERTIES
  VerdictsKeepOrder
  EveryRequestEnds
  EventuallyFresh
