------------------------- MODULE RedisFlight_proof -------------------------
(* Proofs about RedisFlight for every set of requests and verdicts.        *)
EXTENDS RedisFlight, TLAPS

USE DEF entry, database, redis, held, quiet, Go

\* Init establishes the types.
LEMMA InitType == Init => TypeOK
<1> SUFFICES ASSUME Init PROVE TypeOK
  OBVIOUS
<1>1. late \in [Request -> BOOLEAN] /\ read \in [Request -> Nat] /\ over \in [Request -> BOOLEAN]
  BY DEF Init
<1>2. pc \in [Request -> Stage] /\ got \in [Request -> Verdict]
  BY DEF Init, Stage, Verdict
<1> QED
  BY <1>1, <1>2 DEF Init, TypeOK

\* What a request stores, and what is left when the key goes, is an entry.
EntryOK ==
  value' \in Stored \cup {Nil} /\ vouched' \in BOOLEAN /\ stamp' \in Nat /\ owned' \in BOOLEAN

LEMMA PutOK == ASSUME TypeOK, NEW r \in Request, got[r] # NoValue, Put(r) PROVE EntryOK
<1>1. value' \in Stored /\ stamp' \in Nat
  BY DEF TypeOK, Put, Verdict
<1>2. vouched' \in BOOLEAN /\ owned' \in BOOLEAN
  BY Zenon DEF Put
<1> QED
  BY <1>1, <1>2 DEF EntryOK

LEMMA SameOK == ASSUME TypeOK, UNCHANGED entry PROVE EntryOK
BY DEF TypeOK, EntryOK

\* Every step keeps every variable within its type.
LEMMA NextType == TypeOK /\ [Next]_vars => TypeOK'
<1> SUFFICES ASSUME TypeOK, [Next]_vars PROVE TypeOK'
  OBVIOUS
<1> USE ValueAssumption, TokenAssumption, BoundAssumption
    DEF TypeOK, Verdict, Stage, Leading, Following, Holding
<1>1. ASSUME NEW r \in Request, Arrive(r) PROVE TypeOK'
  BY <1>1 DEF Arrive, Fault
<1>2. ASSUME NEW r \in Request, Acquire(r) PROVE TypeOK'
  BY <1>2 DEF Acquire
<1>3. ASSUME NEW r \in Request, Follow(r) PROVE TypeOK'
  BY <1>3 DEF Follow
<1>4. ASSUME NEW r \in Request, AcquireFails(r) PROVE TypeOK'
  BY <1>4 DEF AcquireFails, Fault
<1>5. ASSUME NEW r \in Request, Load(r) PROVE TypeOK'
  BY <1>5 DEF Load, After, writes
<1>6. ASSUME NEW r \in Request, LoadFails(r) PROVE TypeOK'
  <2>1. CASE pc[r] = "leading"
    BY <1>6, <2>1 DEF LoadFails, Fault
  <2>2. CASE pc[r] # "leading"
    <3>1. Done(r) /\ faults' \in Nat /\ UNCHANGED <<redis, database>>
      BY <1>6, <2>2 DEF LoadFails, Fault
    <3> QED
      BY <3>1 DEF Done, Forget
  <2> QED
    BY <2>1, <2>2
<1>7. ASSUME NEW r \in Request, Publish(r) PROVE TypeOK'
  <2>1. EntryOK
    <3>1. got[r] # NoValue /\ (Put(r) \/ UNCHANGED entry)
      BY <1>7 DEF Publish
    <3> QED
      BY <3>1, PutOK, SameOK
  <2>2. faults' \in Nat /\ Go(r, "releasing") /\ UNCHANGED <<lock, held, database>>
    BY <1>7 DEF Publish, Fault
  <2> QED
    BY <2>1, <2>2 DEF EntryOK
<1>8. ASSUME NEW r \in Request, Park(r) PROVE TypeOK'
  BY <1>8 DEF Park, Fault, Forget
<1>9. ASSUME NEW r \in Request, Release(r) PROVE TypeOK'
  <2>1. lock' \in {lock, Nil} /\ faults' \in Nat /\ Done(r) /\ UNCHANGED <<entry, database>>
    BY <1>9 DEF Release, Fault, ReleaseOwn
  <2> QED
    BY <2>1 DEF Done, Forget
<1>10. ASSUME NEW r \in Request, Poll(r) PROVE TypeOK'
  <2>1. CASE Done(r)
    BY <1>10, <2>1 DEF Poll, Done, Forget
  <2>2. CASE ~Done(r)
    BY <1>10, <2>2 DEF Poll
  <2> QED
    BY <2>1, <2>2
<1>11. ASSUME NEW r \in Request, CheckLock(r) PROVE TypeOK'
  BY <1>11 DEF CheckLock
<1>12. ASSUME NEW r \in Request, PollFails(r) PROVE TypeOK'
  BY <1>12 DEF PollFails, Fault
<1>13. ASSUME NEW r \in Request, Offer(r) PROVE TypeOK'
  <2>1. EntryOK
    <3>1. (got[r] # NoValue /\ Put(r)) \/ UNCHANGED entry
      BY <1>13 DEF Offer, OfferNX
    <3> QED
      BY <3>1, PutOK, SameOK
  <2>2. faults' \in Nat /\ Done(r) /\ UNCHANGED <<lock, database>>
    BY <1>13 DEF Offer, Fault
  <2> QED
    BY <2>1, <2>2 DEF EntryOK, Done, Forget
<1>14. ASSUME NEW r \in Request, Serve(r) PROVE TypeOK'
  BY <1>14 DEF Serve, Done, Forget
<1>15. ASSUME NEW r \in Request, Purge(r) PROVE TypeOK'
  <2>1. value' \in {value, Nil} /\ vouched' \in BOOLEAN /\ stamp' \in Nat /\ owned' \in BOOLEAN
    <3>1. CASE Drop /\ UNCHANGED <<faults, vouched>>
      BY <3>1 DEF Drop
    <3>2. CASE vouched' = FALSE /\ (Drop \/ UNCHANGED <<value, stamp, owned>>)
      <4>1. vouched' \in BOOLEAN
        BY <3>2
      <4>2. CASE Drop
        BY <4>1, <4>2 DEF Drop
      <4>3. CASE UNCHANGED <<value, stamp, owned>>
        BY <4>1, <4>3
      <4> QED
        BY <3>2, <4>2, <4>3
    <3> QED
      BY <1>15, <3>1, <3>2, Zenon DEF Purge
  <2>2. faults' \in Nat
    BY <1>15 DEF Purge, Fault
  <2>3. Done(r) /\ UNCHANGED <<lock, database>>
    BY <1>15 DEF Purge
  <2> QED
    BY <2>1, <2>2, <2>3 DEF Done, Forget
<1>16. ASSUME NEW r \in Request, Crash(r) PROVE TypeOK'
  BY <1>16 DEF Crash, Fault, Done, Forget
<1>17. ASSUME NEW r \in Request, BecomeLate(r) PROVE TypeOK'
  BY <1>17 DEF BecomeLate
<1>18. ASSUME NEW r \in Request, NEW v \in Verdict, Commit(r, v) PROVE TypeOK'
  BY <1>18 DEF Commit
<1>19. ASSUME ExpireValue PROVE TypeOK'
  BY <1>19 DEF ExpireValue, Drop
<1>20. ASSUME ExpireLock PROVE TypeOK'
  BY <1>20 DEF ExpireLock
<1>21. ASSUME NEW v \in Verdict, SilentWrite(v) PROVE TypeOK'
  <2>1. silent' \in Nat
    BY <1>21 DEF SilentWrite
  <2>2. vouched' \in BOOLEAN
    <3>1. vouched' = FALSE
      BY <1>21 DEF SilentWrite
    <3> QED
      BY <3>1
  <2>3. row' \in Verdict /\ UNCHANGED <<value, stamp, owned, lock, pc, held, edits, faults>>
    BY <1>21 DEF SilentWrite
  <2> QED
    BY <2>1, <2>2, <2>3
<1>22. CASE UNCHANGED vars
  BY <1>22 DEF vars
<1> HIDE DEF TypeOK, Verdict
<1> QED
  BY <1>1, <1>2, <1>3, <1>4, <1>5, <1>6, <1>7, <1>8, <1>9, <1>10, <1>11, <1>12, <1>13, <1>14,
     <1>15, <1>16, <1>17, <1>18, <1>19, <1>20, <1>21, <1>22
  DEF Next, Step

\* Type correctness: an uncacheable verdict is never stored.
THEOREM TypeCorrect == Spec => []TypeOK
BY InitType, NextType, PTL DEF Spec

\* Nobody leads initially.
LEMMA InitLock == Init => LeadersHoldTheLock
BY DEF Init, LeadersHoldTheLock, Leading

\* Every step leaves each leader its lock, but for the lock's expiry.
LEMMA NextLock == TypeOK /\ LeadersHoldTheLock /\ [Next]_vars => LeadersHoldTheLock'
<1> SUFFICES ASSUME TypeOK, LeadersHoldTheLock, [Next]_vars PROVE LeadersHoldTheLock'
  OBVIOUS
<1> USE TokenAssumption DEF TypeOK, LeadersHoldTheLock, Leading, Following, Holding
<1>1. ASSUME NEW r \in Request, Arrive(r) PROVE LeadersHoldTheLock'
  BY <1>1 DEF Arrive, Fault
<1>2. ASSUME NEW r \in Request, Acquire(r) PROVE LeadersHoldTheLock'
  BY <1>2 DEF Acquire
<1>3. ASSUME NEW r \in Request, Follow(r) PROVE LeadersHoldTheLock'
  BY <1>3 DEF Follow
<1>4. ASSUME NEW r \in Request, AcquireFails(r) PROVE LeadersHoldTheLock'
  BY <1>4 DEF AcquireFails, Fault
<1>5. ASSUME NEW r \in Request, Load(r) PROVE LeadersHoldTheLock'
  BY <1>5 DEF Load, After, writes
<1>6. ASSUME NEW r \in Request, LoadFails(r) PROVE LeadersHoldTheLock'
  BY <1>6 DEF LoadFails, Fault, Done, Forget
<1>7. ASSUME NEW r \in Request, Publish(r) PROVE LeadersHoldTheLock'
  BY <1>7 DEF Publish, Fault, Put
<1>8. ASSUME NEW r \in Request, Park(r) PROVE LeadersHoldTheLock'
  BY <1>8 DEF Park, Fault, Forget
<1>9. ASSUME NEW r \in Request, Release(r) PROVE LeadersHoldTheLock'
  BY <1>9 DEF Release, Fault, ReleaseOwn, Done, Forget
<1>10. ASSUME NEW r \in Request, Poll(r) PROVE LeadersHoldTheLock'
  BY <1>10 DEF Poll, Done, Forget
<1>11. ASSUME NEW r \in Request, CheckLock(r) PROVE LeadersHoldTheLock'
  BY <1>11 DEF CheckLock
<1>12. ASSUME NEW r \in Request, PollFails(r) PROVE LeadersHoldTheLock'
  BY <1>12 DEF PollFails, Fault
<1>13. ASSUME NEW r \in Request, Offer(r) PROVE LeadersHoldTheLock'
  BY <1>13 DEF Offer, Fault, OfferNX, Put, Done, Forget
<1>14. ASSUME NEW r \in Request, Serve(r) PROVE LeadersHoldTheLock'
  BY <1>14 DEF Serve, Done, Forget
<1>15. ASSUME NEW r \in Request, Purge(r) PROVE LeadersHoldTheLock'
  BY <1>15 DEF Purge, Drop, Fault, Done, Forget
<1>16. ASSUME NEW r \in Request, Crash(r) PROVE LeadersHoldTheLock'
  BY <1>16 DEF Crash, Fault, Done, Forget
<1>17. ASSUME NEW r \in Request, BecomeLate(r) PROVE LeadersHoldTheLock'
  BY <1>17 DEF BecomeLate
<1>18. ASSUME NEW r \in Request, NEW v \in Verdict, Commit(r, v) PROVE LeadersHoldTheLock'
  BY <1>18 DEF Commit
<1>19. ASSUME ExpireValue PROVE LeadersHoldTheLock'
  BY <1>19 DEF ExpireValue, Drop
<1>20. ASSUME ExpireLock PROVE LeadersHoldTheLock'
  BY <1>20 DEF ExpireLock
<1>21. ASSUME NEW v \in Verdict, SilentWrite(v) PROVE LeadersHoldTheLock'
  BY <1>21 DEF SilentWrite
<1>22. CASE UNCHANGED vars
  BY <1>22 DEF vars
<1> HIDE DEF TypeOK, LeadersHoldTheLock, Leading
<1> QED
  BY <1>1, <1>2, <1>3, <1>4, <1>5, <1>6, <1>7, <1>8, <1>9, <1>10, <1>11, <1>12, <1>13, <1>14,
     <1>15, <1>16, <1>17, <1>18, <1>19, <1>20, <1>21, <1>22
  DEF Next, Step

\* One leader at a time, as long as no lock outlives its TTL.
THEOREM LockSafety == Spec => []LeadersHoldTheLock
BY TypeCorrect, InitLock, NextLock, PTL DEF Spec

\* A verdict no write has overtaken is the row, and none was read after the last.
CleanLoads ==
  \A r \in Request : pc[r] \in Holding => read[r] <= writes /\ (read[r] = writes => got[r] = row)

Fresh == CleanLoads /\ StaleOnlyIfRaced

\* Nothing is stored initially.
LEMMA InitFresh == Init => Fresh
BY DEF Init, Fresh, CleanLoads, StaleOnlyIfRaced, Holding

\* Every step keeps vouched values fresh.
LEMMA NextFresh == TypeOK /\ Fresh /\ [Next]_vars => Fresh'
<1> SUFFICES ASSUME TypeOK, Fresh, [Next]_vars PROVE Fresh'
  OBVIOUS
<1> USE ValueAssumption
    DEF TypeOK, Fresh, CleanLoads, StaleOnlyIfRaced, Pending, Leading, Following, Holding, writes
<1>1. ASSUME NEW r \in Request, Arrive(r) PROVE Fresh'
  BY <1>1 DEF Arrive, Fault
<1>2. ASSUME NEW r \in Request, Acquire(r) PROVE Fresh'
  BY <1>2 DEF Acquire
<1>3. ASSUME NEW r \in Request, Follow(r) PROVE Fresh'
  BY <1>3 DEF Follow
<1>4. ASSUME NEW r \in Request, AcquireFails(r) PROVE Fresh'
  BY <1>4 DEF AcquireFails, Fault
<1>5. ASSUME NEW r \in Request, Load(r) PROVE Fresh'
  BY <1>5 DEF Load, After, writes
<1>6. ASSUME NEW r \in Request, LoadFails(r) PROVE Fresh'
  BY <1>6 DEF LoadFails, Fault, Done, Forget
<1>7. ASSUME NEW r \in Request, Publish(r) PROVE Fresh'
  <2>1. got[r] # NoValue /\ pc[r] = "publishing" /\ Go(r, "releasing") /\ UNCHANGED <<held, database>>
    BY <1>7 DEF Publish
  <2>2. CASE Put(r)
    <3>1. value' = got[r] /\ (vouched' => read[r] = writes)
      BY <2>2 DEF Put
    <3> QED
      BY <2>1, <3>1
  <2>3. CASE UNCHANGED entry
    BY <2>1, <2>3
  <2> QED
    BY <1>7, <2>2, <2>3 DEF Publish
<1>8. ASSUME NEW r \in Request, Park(r) PROVE Fresh'
  BY <1>8 DEF Park, Fault, Forget
<1>9. ASSUME NEW r \in Request, Release(r) PROVE Fresh'
  BY <1>9 DEF Release, Fault, ReleaseOwn, Done, Forget
<1>10. ASSUME NEW r \in Request, Poll(r) PROVE Fresh'
  BY <1>10 DEF Poll, Done, Forget
<1>11. ASSUME NEW r \in Request, CheckLock(r) PROVE Fresh'
  BY <1>11 DEF CheckLock
<1>12. ASSUME NEW r \in Request, PollFails(r) PROVE Fresh'
  BY <1>12 DEF PollFails, Fault
<1>13. ASSUME NEW r \in Request, Offer(r) PROVE Fresh'
  BY <1>13 DEF Offer, Fault, OfferNX, Put, Done, Forget
<1>14. ASSUME NEW r \in Request, Serve(r) PROVE Fresh'
  BY <1>14 DEF Serve, Done, Forget
<1>15. ASSUME NEW r \in Request, Purge(r) PROVE Fresh'
  BY <1>15 DEF Purge, Drop, Fault, Done, Forget
<1>16. ASSUME NEW r \in Request, Crash(r) PROVE Fresh'
  BY <1>16 DEF Crash, Fault, Done, Forget
<1>17. ASSUME NEW r \in Request, BecomeLate(r) PROVE Fresh'
  BY <1>17 DEF BecomeLate
<1>18. ASSUME NEW r \in Request, NEW v \in Verdict, Commit(r, v) PROVE Fresh'
  BY <1>18 DEF Commit
<1>19. ASSUME ExpireValue PROVE Fresh'
  BY <1>19 DEF ExpireValue, Drop
<1>20. ASSUME ExpireLock PROVE Fresh'
  BY <1>20 DEF ExpireLock
<1>21. ASSUME NEW v \in Verdict, SilentWrite(v) PROVE Fresh'
  BY <1>21 DEF SilentWrite
<1>22. CASE UNCHANGED vars
  BY <1>22 DEF vars
<1> HIDE DEF TypeOK, Fresh, Holding
<1> QED
  BY <1>1, <1>2, <1>3, <1>4, <1>5, <1>6, <1>7, <1>8, <1>9, <1>10, <1>11, <1>12, <1>13, <1>14,
     <1>15, <1>16, <1>17, <1>18, <1>19, <1>20, <1>21, <1>22
  DEF Next, Step

\* A stored value is stale only behind a write that overlapped its load, an edit whose
\* invalidation failed or is due, or a write by code that deletes no key.
THEOREM StaleSafety == Spec => []StaleOnlyIfRaced
<1>1. Fresh => StaleOnlyIfRaced
  BY DEF Fresh
<1> QED
  BY <1>1, TypeCorrect, InitFresh, NextFresh, PTL DEF Spec

\* A leader within its lock's time is about to store no older verdict than such a
\* leader before it has stored.
InOrder ==
  /\ stamp <= writes
  /\ \A r \in Request :
       pc[r] = "publishing" /\ ~over[r] /\ owned /\ value # Nil => stamp <= read[r]

Replaced == value # Nil /\ owned /\ value' # Nil /\ owned' => stamp <= stamp'

\* Nothing is stored initially.
LEMMA InitOrder == Init => InOrder
BY BoundAssumption DEF Init, InOrder, writes

\* Every step keeps the verdicts in order.
LEMMA NextOrder ==
  TypeOK /\ LeadersHoldTheLock /\ Fresh /\ InOrder /\ [Next]_vars => InOrder' /\ Replaced
<1> DEFINE Goal == InOrder' /\ Replaced
<1> SUFFICES ASSUME TypeOK, LeadersHoldTheLock, CleanLoads, InOrder, [Next]_vars PROVE Goal
  BY DEF Fresh
<1> USE ValueAssumption, TokenAssumption
    DEF TypeOK, InOrder, Replaced, Leading, Following, writes
<1>1. ASSUME NEW r \in Request, Arrive(r) PROVE Goal
  BY <1>1 DEF Arrive, Fault
<1>2. ASSUME NEW r \in Request, Acquire(r) PROVE Goal
  BY <1>2 DEF Acquire
<1>3. ASSUME NEW r \in Request, Follow(r) PROVE Goal
  BY <1>3 DEF Follow
<1>4. ASSUME NEW r \in Request, AcquireFails(r) PROVE Goal
  BY <1>4 DEF AcquireFails, Fault
<1>5. ASSUME NEW r \in Request, Load(r) PROVE Goal
  BY <1>5 DEF Load, After
<1>6. ASSUME NEW r \in Request, LoadFails(r) PROVE Goal
  BY <1>6 DEF LoadFails, Fault, Done, Forget
<1>7. ASSUME NEW r \in Request, Publish(r) PROVE Goal
  <2>1. pc[r] = "publishing" /\ Go(r, "releasing") /\ UNCHANGED <<lock, held, database>>
    BY <1>7 DEF Publish
  <2>2. CASE Put(r)
    <3>1. stamp' = read[r] /\ (owned' => ~over[r])
      BY <2>1, <2>2 DEF Put
    <3>2. stamp' <= writes'
      BY <2>1, <3>1 DEF CleanLoads, Holding
    <3>3. ASSUME NEW q \in Request, pc'[q] = "publishing", ~over'[q], owned' PROVE FALSE
      <4>1. pc[q] = "publishing" /\ q # r /\ ~over[q] /\ ~over[r]
        BY <2>1, <3>1, <3>3
      <4> QED
        BY <2>1, <4>1 DEF LeadersHoldTheLock
    <3>4. Replaced
      BY <2>1, <3>1
    <3> QED
      BY <3>2, <3>3, <3>4
  <2>3. CASE UNCHANGED entry
    BY <2>1, <2>3
  <2> QED
    BY <1>7, <2>2, <2>3 DEF Publish
<1>8. ASSUME NEW r \in Request, Park(r) PROVE Goal
  BY <1>8 DEF Park, Fault, Forget
<1>9. ASSUME NEW r \in Request, Release(r) PROVE Goal
  BY <1>9 DEF Release, Fault, ReleaseOwn, Done, Forget
<1>10. ASSUME NEW r \in Request, Poll(r) PROVE Goal
  BY <1>10 DEF Poll, Done, Forget
<1>11. ASSUME NEW r \in Request, CheckLock(r) PROVE Goal
  BY <1>11 DEF CheckLock
<1>12. ASSUME NEW r \in Request, PollFails(r) PROVE Goal
  BY <1>12 DEF PollFails, Fault
<1>13. ASSUME NEW r \in Request, Offer(r) PROVE Goal
  <2>1. pc[r] = "offering" /\ Done(r) /\ UNCHANGED <<lock, database>>
    BY <1>13 DEF Offer
  <2>2. CASE Put(r)
    <3>1. stamp' = read[r] /\ ~owned'
      BY <2>1, <2>2 DEF Put
    <3> QED
      BY <2>1, <3>1 DEF CleanLoads, Holding
  <2>3. CASE UNCHANGED entry
    BY <2>1, <2>3 DEF Done, Forget
  <2> QED
    BY <1>13, <2>2, <2>3 DEF Offer, OfferNX
<1>14. ASSUME NEW r \in Request, Serve(r) PROVE Goal
  BY <1>14 DEF Serve, Done, Forget
<1>15. ASSUME NEW r \in Request, Purge(r) PROVE Goal
  BY <1>15 DEF Purge, Drop, Fault, Done, Forget
<1>16. ASSUME NEW r \in Request, Crash(r) PROVE Goal
  BY <1>16 DEF Crash, Fault, Done, Forget
<1>17. ASSUME NEW r \in Request, BecomeLate(r) PROVE Goal
  BY <1>17 DEF BecomeLate
<1>18. ASSUME NEW r \in Request, NEW v \in Verdict, Commit(r, v) PROVE Goal
  BY <1>18 DEF Commit
<1>19. ASSUME ExpireValue PROVE Goal
  BY <1>19 DEF ExpireValue, Drop
<1>20. ASSUME ExpireLock PROVE Goal
  BY <1>20 DEF ExpireLock
<1>21. ASSUME NEW v \in Verdict, SilentWrite(v) PROVE Goal
  BY <1>21 DEF SilentWrite
<1>22. CASE UNCHANGED vars
  BY <1>22 DEF vars
<1> HIDE DEF TypeOK, InOrder, Goal, Replaced
<1> QED
  BY <1>1, <1>2, <1>3, <1>4, <1>5, <1>6, <1>7, <1>8, <1>9, <1>10, <1>11, <1>12, <1>13, <1>14,
     <1>15, <1>16, <1>17, <1>18, <1>19, <1>20, <1>21, <1>22
  DEF Next, Step

\* Leaders within their lock's time store their verdicts in the order of their reads.
THEOREM OrderSafety == Spec => VerdictsKeepOrder
<1>1. Replaced => [value # Nil /\ owned /\ value' # Nil /\ owned' => stamp <= stamp']_vars
  BY DEF Replaced
<1> QED
  BY <1>1, TypeCorrect, LockSafety, InitFresh, NextFresh, InitOrder, NextOrder, PTL
  DEF Spec, VerdictsKeepOrder
=============================================================================
