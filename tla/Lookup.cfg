SPECIFICATION FairSpec
CONSTANTS
  r1 = r1
  r2 = r2
  r3 = r3
  Request = {r1, r2, r3}
  Pattern = {p1}
  PlainTarget = {t1}
  SsoTarget = {s1}
  NoTarget = NoTarget
  NoRequest = NoRequest
  Offers <- MixedOffers
  MaxEdits = 1
  MaxSilent = 1
INVARIANTS
  TypeOK
  FlightsHaveLeaders
  WaitersHaveFlights
  SsoNeverShared
  StaleOnlyIfRaced
PROPERTIES
  EveryRequestReplies
  EventuallyFresh
  MeetsContract
