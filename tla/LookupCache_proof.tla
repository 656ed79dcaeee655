------------------------- MODULE LookupCache_proof -------------------------
(* Proofs about LookupCache for every set of requests, patterns, targets.  *)
EXTENDS LookupCache, TLAPS

USE DEF database, caches, request

\* Init establishes the types.
LEMMA InitType == Init => TypeOK
BY TargetAssumption, RequestAssumption, OffersAssumption, BoundAssumption
DEF Init, TypeOK, Cache, Row, Outcome, Stage, Op, Empty

\* Every step keeps every variable within its type.
LEMMA NextType == TypeOK /\ [Next]_vars => TypeOK'
<1> SUFFICES ASSUME TypeOK, [Next]_vars PROVE TypeOK'
  OBVIOUS
<1> USE TargetAssumption, RequestAssumption, OffersAssumption, BoundAssumption
    DEF TypeOK, Op, EditOp, LookupOp, Row, Outcome, Stage, Loading, Waiting, Editing, Cache,
        Found, Missing, Empty, Uncacheable, Failed, CacheOf, At
<1>1. ASSUME NEW r \in Request, NEW o \in Op, NEW p \in Pattern, Hit(r, o, p) PROVE TypeOK'
  BY <1>1 DEF Hit, Accept
<1>2. ASSUME NEW r \in Request, NEW o \in Op, NEW p \in Pattern, Lead(r, o, p) PROVE TypeOK'
  BY <1>2 DEF Lead, Accept
<1>3. ASSUME NEW r \in Request, NEW o \in Op, NEW p \in Pattern, Join(r, o, p) PROVE TypeOK'
  BY <1>3 DEF Join, Accept
<1>4. ASSUME NEW r \in Request, NEW p \in Pattern, BulkDelete(r, p) PROVE TypeOK'
  BY <1>4 DEF BulkDelete, Accept
<1>5. ASSUME NEW r \in Request, ReadShortcut(r) PROVE TypeOK'
  <2>1. CASE shortcut[pat[r]] # NoTarget
    <3>1. Found("shortcut", shortcut[pat[r]]) \in Outcome
      OBVIOUS
    <3>2. val' \in [Request -> Outcome] /\ pc' \in [Request -> Stage]
      <4> HIDE DEF Outcome, Found
      <4> QED BY <1>5, <2>1, <3>1 DEF ReadShortcut
    <3> QED
      <4> HIDE DEF Outcome, Found
      <4> QED BY <1>5, <3>2 DEF ReadShortcut
  <2>2. CASE shortcut[pat[r]] = NoTarget
    <3>1. pc' \in [Request -> Stage] /\ val' = val
      <4> HIDE DEF Outcome, Found
      <4> QED BY <1>5, <2>2 DEF ReadShortcut
    <3> QED
      <4> HIDE DEF Outcome, Found
      <4> QED BY <1>5, <3>1 DEF ReadShortcut
  <2> QED
    BY <2>1, <2>2
<1>6. ASSUME NEW r \in Request, ReadUpstream(r) PROVE TypeOK'
  BY <1>6 DEF ReadUpstream
<1>7. ASSUME NEW r \in Request, Publish(r) PROVE TypeOK'
  <2>1. val[r] \in Outcome /\ StoreValue(val[r]) \in Outcome /\ Direct(val[r]) \in Outcome
    BY DEF StoreValue, Direct
  <2>2. val' \in [Request -> Outcome]
    <3> HIDE DEF Outcome, Uncacheable
    <3> QED BY <1>7, <2>1 DEF Publish
  <2>3. pc' \in [Request -> Stage]
    BY <1>7 DEF Publish
  <2>4. store' \in [Cache -> [Pattern -> Outcome]] /\ vouched' \in [Cache -> [Pattern -> BOOLEAN]]
    <3> HIDE DEF Outcome, Uncacheable
    <3> QED BY <1>7, <2>1, SMTT(30) DEF Publish
  <2>5. inflight' \in [Cache -> [Pattern -> Request \cup {NoRequest}]]
    BY <1>7 DEF Publish, Unregister
  <2> QED
    <3> HIDE DEF Outcome
    <3> QED BY <1>7, <2>2, <2>3, <2>4, <2>5 DEF Publish
<1>8. ASSUME NEW r \in Request, AnswerAlone(r) PROVE TypeOK'
  BY <1>8 DEF AnswerAlone, Direct
<1>9. ASSUME NEW r \in Request, LeaderFails(r) PROVE TypeOK'
  <2>1. Failed \in Outcome /\ Empty \in Outcome
    OBVIOUS
  <2>2. val' \in [Request -> Outcome]
    <3> HIDE DEF Outcome, Failed, Empty
    <3> QED BY <1>9, <2>1 DEF LeaderFails
  <2>3. pc' \in [Request -> Stage]
    BY <1>9 DEF LeaderFails
  <2> QED
    <3> HIDE DEF Outcome, Failed, Empty
    <3> QED BY <1>9, <2>2, <2>3 DEF LeaderFails, Unregister
<1>10. ASSUME NEW r \in Request, LoneLoadFails(r) PROVE TypeOK'
  BY <1>10 DEF LoneLoadFails, Finished
<1>11. ASSUME NEW r \in Request, TakeShared(r) PROVE TypeOK'
  BY <1>11 DEF TakeShared
<1>12. ASSUME NEW r \in Request, LoadAlone(r) PROVE TypeOK'
  BY <1>12 DEF LoadAlone
<1>13. ASSUME NEW r \in Request, RaiseShared(r) PROVE TypeOK'
  BY <1>13 DEF RaiseShared, Finished
<1>14. ASSUME NEW r \in Request, Reply(r) PROVE TypeOK'
  BY <1>14 DEF Reply, Finished
<1>15. ASSUME NEW r \in Request, Proceed(r) PROVE TypeOK'
  BY <1>15 DEF Proceed
<1>16. ASSUME NEW r \in Request, SelectRow(r) PROVE TypeOK'
  <2>1. CASE shortcut[pat[r]] = NoTarget
    <3>1. Finished(r) /\ UNCHANGED <<database, caches, clean>>
      BY <1>16, <2>1 DEF SelectRow
    <3> QED
      BY <3>1 DEF Finished
  <2>2. CASE shortcut[pat[r]] # NoTarget
    BY <1>16, <2>2 DEF SelectRow
  <2> QED
    BY <2>1, <2>2
<1>17. ASSUME NEW r \in Request, NEW t \in Row, Commit(r, t) PROVE TypeOK'
  BY <1>17 DEF Commit, Outdate
<1>18. ASSUME NEW r \in Request, CommitFails(r) PROVE TypeOK'
  BY <1>18 DEF CommitFails, Finished
<1>19. ASSUME NEW r \in Request, Settle(r) PROVE TypeOK'
  BY <1>19 DEF Settle, Finished, Invalidate
<1>20. ASSUME NEW r \in Request, SettleFails(r) PROVE TypeOK'
  BY <1>20 DEF SettleFails, Finished
<1>21. ASSUME NEW c \in Cache, NEW p \in Pattern, Expire(c, p) PROVE TypeOK'
  BY <1>21 DEF Expire
<1>22. ASSUME NEW p \in Pattern, NEW s \in Row, NEW u \in Row, SilentWrite(p, s, u) PROVE TypeOK'
  <2>1. shortcut' \in [Pattern -> Row] /\ upstream' \in [Pattern -> Row] /\ silent' \in Nat
    BY <1>22 DEF SilentWrite
  <2>2. clean' \in [Request -> BOOLEAN] /\ vouched' \in [Cache -> [Pattern -> BOOLEAN]]
    BY <1>22 DEF SilentWrite, Outdate
  <2> QED
    <3> HIDE DEF Outcome
    <3> QED BY <1>22, <2>1, <2>2 DEF SilentWrite
<1>23. CASE UNCHANGED vars
  BY <1>23 DEF vars
<1> HIDE DEF TypeOK, Op, Row, Outcome, Stage, Cache
<1> QED
  BY <1>1, <1>2, <1>3, <1>4, <1>5, <1>6, <1>7, <1>8, <1>9, <1>10, <1>11, <1>12, <1>13,
     <1>14, <1>15, <1>16, <1>17, <1>18, <1>19, <1>20, <1>21, <1>22, <1>23
  DEF Next, Arrive, Step

\* Type correctness of the specification.
THEOREM TypeCorrect == Spec => []TypeOK
BY InitType, NextType, PTL DEF Spec

Flights == FlightsHaveLeaders /\ WaitersHaveFlights /\ FlightsFillEmptyKeys

\* No flight exists initially.
LEMMA InitFlights == Init => Flights
BY RequestAssumption
DEF Init, Flights, FlightsHaveLeaders, WaitersHaveFlights, FlightsFillEmptyKeys, Loading, Cache

\* Every step keeps flights, leaders, waiters and store entries in step.
LEMMA NextFlights == TypeOK /\ Flights /\ [Next]_vars => Flights'
<1> SUFFICES ASSUME TypeOK, Flights, [Next]_vars PROVE Flights'
  OBVIOUS
<1> USE RequestAssumption
    DEF TypeOK, Flights, FlightsHaveLeaders, WaitersHaveFlights, FlightsFillEmptyKeys,
        Loading, Cache, CacheOf, At
<1>1. ASSUME NEW r \in Request, NEW o \in Op, NEW p \in Pattern, Hit(r, o, p) PROVE Flights'
  BY <1>1 DEF Hit, Accept
<1>2. ASSUME NEW r \in Request, NEW o \in Op, NEW p \in Pattern, Lead(r, o, p) PROVE Flights'
  BY <1>2 DEF Lead, Accept
<1>3. ASSUME NEW r \in Request, NEW o \in Op, NEW p \in Pattern, Join(r, o, p) PROVE Flights'
  BY <1>3 DEF Join, Accept
<1>4. ASSUME NEW r \in Request, NEW p \in Pattern, BulkDelete(r, p) PROVE Flights'
  BY <1>4 DEF BulkDelete, Accept
<1>5. ASSUME NEW r \in Request, ReadShortcut(r) PROVE Flights'
  BY <1>5 DEF ReadShortcut
<1>6. ASSUME NEW r \in Request, ReadUpstream(r) PROVE Flights'
  BY <1>6 DEF ReadUpstream
<1>7. ASSUME NEW r \in Request, Publish(r) PROVE Flights'
  BY <1>7 DEF Publish, Unregister, Followers
<1>8. ASSUME NEW r \in Request, AnswerAlone(r) PROVE Flights'
  BY <1>8 DEF AnswerAlone
<1>9. ASSUME NEW r \in Request, LeaderFails(r) PROVE Flights'
  BY <1>9 DEF LeaderFails, Unregister, Followers
<1>10. ASSUME NEW r \in Request, LoneLoadFails(r) PROVE Flights'
  BY <1>10 DEF LoneLoadFails, Finished
<1>11. ASSUME NEW r \in Request, TakeShared(r) PROVE Flights'
  BY <1>11 DEF TakeShared
<1>12. ASSUME NEW r \in Request, LoadAlone(r) PROVE Flights'
  BY <1>12 DEF LoadAlone
<1>13. ASSUME NEW r \in Request, RaiseShared(r) PROVE Flights'
  BY <1>13 DEF RaiseShared, Finished
<1>14. ASSUME NEW r \in Request, Reply(r) PROVE Flights'
  BY <1>14 DEF Reply, Finished
<1>15. ASSUME NEW r \in Request, Proceed(r) PROVE Flights'
  BY <1>15 DEF Proceed
<1>16. ASSUME NEW r \in Request, SelectRow(r) PROVE Flights'
  BY <1>16 DEF SelectRow, Finished
<1>17. ASSUME NEW r \in Request, NEW t \in Row, Commit(r, t) PROVE Flights'
  BY <1>17 DEF Commit
<1>18. ASSUME NEW r \in Request, CommitFails(r) PROVE Flights'
  BY <1>18 DEF CommitFails, Finished
<1>19. ASSUME NEW r \in Request, Settle(r) PROVE Flights'
  BY <1>19 DEF Settle, Finished, Invalidate
<1>20. ASSUME NEW r \in Request, SettleFails(r) PROVE Flights'
  BY <1>20 DEF SettleFails, Finished
<1>21. ASSUME NEW c \in Cache, NEW p \in Pattern, Expire(c, p) PROVE Flights'
  BY <1>21 DEF Expire
<1>22. ASSUME NEW p \in Pattern, NEW s \in Row, NEW u \in Row, SilentWrite(p, s, u) PROVE Flights'
  BY <1>22 DEF SilentWrite
<1>23. CASE UNCHANGED vars
  BY <1>23 DEF vars
<1> HIDE DEF TypeOK, Flights
<1> QED
  BY <1>1, <1>2, <1>3, <1>4, <1>5, <1>6, <1>7, <1>8, <1>9, <1>10, <1>11, <1>12, <1>13,
     <1>14, <1>15, <1>16, <1>17, <1>18, <1>19, <1>20, <1>21, <1>22, <1>23
  DEF Next, Arrive, Step

\* One leader per key, waiters only on live flights, and nothing stored under a
\* key in flight: MemoryCache.get_or_compute for any number of requests.
THEOREM FlightSafety ==
  Spec => [](FlightsHaveLeaders /\ WaitersHaveFlights /\ FlightsFillEmptyKeys)
<1>1. Init => TypeOK /\ Flights
  BY InitType, InitFlights
<1>2. TypeOK /\ Flights /\ [Next]_vars => TypeOK' /\ Flights'
  BY NextType, NextFlights
<1>3. Flights => FlightsHaveLeaders /\ WaitersHaveFlights /\ FlightsFillEmptyKeys
  BY DEF Flights
<1> QED
  BY <1>1, <1>2, <1>3, PTL DEF Spec

\* A request suspended on a future waits for a live flight of its own key, so no
\* waiter is left behind by a leader that stored, failed or was joined late.
THEOREM WaitersSafety == Spec => []WaitersHaveFlights
BY FlightSafety, PTL

\* A key in flight has nothing stored under it: a leader never replaces an entry.
THEOREM FillSafety == Spec => []FlightsFillEmptyKeys
BY FlightSafety, PTL

----------------------------------------------------------------------------

\* Nothing is stored or shared initially.
LEMMA InitSso == Init => SsoNeverShared
BY TargetAssumption DEF Init, SsoNeverShared, Empty, Target, Cache

\* Only StoreValue reaches a store or a follower, and it withholds SSO targets.
LEMMA NextSso == TypeOK /\ SsoNeverShared /\ [Next]_vars => SsoNeverShared'
<1> SUFFICES ASSUME TypeOK, SsoNeverShared, [Next]_vars PROVE SsoNeverShared'
  OBVIOUS
<1> USE TargetAssumption
    DEF TypeOK, SsoNeverShared, Loading, Cache, CacheOf, At, Target, Empty, Uncacheable, Failed
<1>1. ASSUME NEW r \in Request, NEW o \in Op, NEW p \in Pattern, Hit(r, o, p) PROVE SsoNeverShared'
  BY <1>1 DEF Hit, Accept
<1>2. ASSUME NEW r \in Request, NEW o \in Op, NEW p \in Pattern, Lead(r, o, p) PROVE SsoNeverShared'
  BY <1>2 DEF Lead, Accept
<1>3. ASSUME NEW r \in Request, NEW o \in Op, NEW p \in Pattern, Join(r, o, p) PROVE SsoNeverShared'
  BY <1>3 DEF Join, Accept
<1>4. ASSUME NEW r \in Request, NEW p \in Pattern, BulkDelete(r, p) PROVE SsoNeverShared'
  BY <1>4 DEF BulkDelete, Accept
<1>5. ASSUME NEW r \in Request, ReadShortcut(r) PROVE SsoNeverShared'
  BY <1>5 DEF ReadShortcut
<1>6. ASSUME NEW r \in Request, ReadUpstream(r) PROVE SsoNeverShared'
  BY <1>6 DEF ReadUpstream
<1>7. ASSUME NEW r \in Request, Publish(r) PROVE SsoNeverShared'
  <2>1. StoreValue(val[r]).url \notin SsoTarget
    BY DEF StoreValue
  <2>2. ASSUME NEW k \in Cache, NEW p \in Pattern
        PROVE  store'[k][p] = store[k][p] \/ store'[k][p] = StoreValue(val[r])
    <3>1. CASE store' = store
      BY <3>1
    <3>2. CASE store' = [store EXCEPT ![At(r)][pat[r]] = StoreValue(val[r])]
      <4>1. store'[k] = IF k = At(r) THEN [store[k] EXCEPT ![pat[r]] = StoreValue(val[r])]
                        ELSE store[k]
        <5> HIDE DEF At, Cache, SsoNeverShared
        <5> QED BY <3>2
      <4>2. store[k] \in [Pattern -> Outcome]
        <5> HIDE DEF Cache, SsoNeverShared
        <5> QED OBVIOUS
      <4> HIDE DEF At, Cache, SsoNeverShared, TypeOK
      <4> QED
        BY <4>1, <4>2
    <3> QED
      BY <1>7, <3>1, <3>2, Zenon DEF Publish
  <2>3. \A q \in Request : pc'[q] = "released" =>
          (pc[q] = "released" /\ val'[q] = val[q]) \/ val'[q] = StoreValue(val[r])
    <3> HIDE DEF Uncacheable
    <3> QED BY <1>7 DEF Publish, Followers
  <2> QED
    BY <2>1, <2>2, <2>3
<1>8. ASSUME NEW r \in Request, AnswerAlone(r) PROVE SsoNeverShared'
  BY <1>8 DEF AnswerAlone
<1>9. ASSUME NEW r \in Request, LeaderFails(r) PROVE SsoNeverShared'
  BY <1>9 DEF LeaderFails, Unregister, Followers
<1>10. ASSUME NEW r \in Request, LoneLoadFails(r) PROVE SsoNeverShared'
  BY <1>10 DEF LoneLoadFails, Finished
<1>11. ASSUME NEW r \in Request, TakeShared(r) PROVE SsoNeverShared'
  BY <1>11 DEF TakeShared
<1>12. ASSUME NEW r \in Request, LoadAlone(r) PROVE SsoNeverShared'
  BY <1>12 DEF LoadAlone
<1>13. ASSUME NEW r \in Request, RaiseShared(r) PROVE SsoNeverShared'
  BY <1>13 DEF RaiseShared, Finished
<1>14. ASSUME NEW r \in Request, Reply(r) PROVE SsoNeverShared'
  BY <1>14 DEF Reply, Finished
<1>15. ASSUME NEW r \in Request, Proceed(r) PROVE SsoNeverShared'
  BY <1>15 DEF Proceed
<1>16. ASSUME NEW r \in Request, SelectRow(r) PROVE SsoNeverShared'
  BY <1>16, SMTT(30) DEF SelectRow, Finished
<1>17. ASSUME NEW r \in Request, NEW t \in Row, Commit(r, t) PROVE SsoNeverShared'
  BY <1>17 DEF Commit
<1>18. ASSUME NEW r \in Request, CommitFails(r) PROVE SsoNeverShared'
  BY <1>18 DEF CommitFails, Finished
<1>19. ASSUME NEW r \in Request, Settle(r) PROVE SsoNeverShared'
  BY <1>19 DEF Settle, Finished, Invalidate
<1>20. ASSUME NEW r \in Request, SettleFails(r) PROVE SsoNeverShared'
  BY <1>20 DEF SettleFails, Finished
<1>21. ASSUME NEW c \in Cache, NEW p \in Pattern, Expire(c, p) PROVE SsoNeverShared'
  BY <1>21 DEF Expire
<1>22. ASSUME NEW p \in Pattern, NEW s \in Row, NEW u \in Row, SilentWrite(p, s, u) PROVE SsoNeverShared'
  BY <1>22 DEF SilentWrite
<1>23. CASE UNCHANGED vars
  BY <1>23 DEF vars
<1> HIDE DEF TypeOK, SsoNeverShared
<1> QED
  BY <1>1, <1>2, <1>3, <1>4, <1>5, <1>6, <1>7, <1>8, <1>9, <1>10, <1>11, <1>12, <1>13,
     <1>14, <1>15, <1>16, <1>17, <1>18, <1>19, <1>20, <1>21, <1>22, <1>23
  DEF Next, Arrive, Step

\* v2 rule: SSO targets never leave the request that read them, in any cache.
THEOREM SsoSafety == Spec => []SsoNeverShared
<1>1. Init => TypeOK /\ SsoNeverShared
  BY InitType, InitSso
<1>2. TypeOK /\ SsoNeverShared /\ [Next]_vars => TypeOK' /\ SsoNeverShared'
  BY NextType, NextSso
<1> QED
  BY <1>1, <1>2, PTL DEF Spec

----------------------------------------------------------------------------

\* A load that no commit overlapped holds the row as it is.
CleanLoads ==
  \A r \in Request :
    clean[r] => /\ pc[r] = "readUpstream" => shortcut[pat[r]] = NoTarget
                /\ pc[r] = "loaded" => val[r] = Current(pat[r])

Fresh == CleanLoads /\ StaleOnlyIfRaced

\* No load and no entry exists initially.
LEMMA InitFresh == Init => Fresh
BY DEF Init, Fresh, CleanLoads, StaleOnlyIfRaced, Cache

\* Clean loads stay clean, and vouched entries stay true or pending.
LEMMA NextFresh == TypeOK /\ Fresh /\ [Next]_vars => Fresh'
<1> SUFFICES ASSUME TypeOK, Fresh, [Next]_vars PROVE Fresh'
  OBVIOUS
<1> USE TargetAssumption
    DEF TypeOK, Fresh, CleanLoads, StaleOnlyIfRaced, Pending, Current, Loading, Cache, CacheOf, At
<1>1. ASSUME NEW r \in Request, NEW o \in Op, NEW p \in Pattern, Hit(r, o, p) PROVE Fresh'
  BY <1>1, SMTT(30) DEF Hit, Accept
<1>2. ASSUME NEW r \in Request, NEW o \in Op, NEW p \in Pattern, Lead(r, o, p) PROVE Fresh'
  BY <1>2, SMTT(30) DEF Lead, Accept
<1>3. ASSUME NEW r \in Request, NEW o \in Op, NEW p \in Pattern, Join(r, o, p) PROVE Fresh'
  BY <1>3 DEF Join, Accept
<1>4. ASSUME NEW r \in Request, NEW p \in Pattern, BulkDelete(r, p) PROVE Fresh'
  BY <1>4 DEF BulkDelete, Accept
<1>5. ASSUME NEW r \in Request, ReadShortcut(r) PROVE Fresh'
  BY <1>5 DEF ReadShortcut
<1>6. ASSUME NEW r \in Request, ReadUpstream(r) PROVE Fresh'
  BY <1>6 DEF ReadUpstream
<1>7. ASSUME NEW r \in Request, Publish(r) PROVE Fresh'
  <2>1. StoreValue(val[r]) # Uncacheable => StoreValue(val[r]) = val[r]
    BY DEF StoreValue
  <2>2. /\ pc' = [q \in Request |-> IF q = r THEN "answered"
                    ELSE IF q \in Followers(r) THEN "released" ELSE pc[q]]
        /\ pc[r] = "loaded"
        /\ \A q \in Followers(r) : pc[q] = "waiting"
        /\ \A q \in Request : q # r /\ q \notin Followers(r) => val'[q] = val[q]
        /\ \A q \in Request : q # r => clean'[q] = clean[q]
        /\ UNCHANGED <<shortcut, upstream, op, pat>>
    BY <1>7 DEF Publish, Followers
  <2>3. \A q \in Request : pc'[q] \in Loading \cup {"settling"} => q # r /\ pc'[q] = pc[q] /\ val'[q] = val[q]
    BY <2>2
  <2>4. CleanLoads'
    BY <2>2, <2>3
  <2>5. \A k \in Cache, p \in Pattern : Pending(k, p) => Pending(k, p)'
    BY <2>2
  <2>6. ASSUME NEW k \in Cache, NEW p \in Pattern,
               store'[k][p] # Empty, vouched'[k][p], ~Pending(k, p)'
        PROVE  store'[k][p] = Current(p)'
    <3>1. Current(p)' = Current(p)
      BY <2>2
    <3>2. CASE StoreValue(val[r]) # Uncacheable /\ k = At(r) /\ p = pat[r]
      <4>1. store'[k][p] = val[r] /\ clean[r]
        BY <1>7, <2>1, <2>6, <3>2 DEF Publish
      <4> QED
        BY <2>2, <3>1, <3>2, <4>1
    <3>3. CASE ~(StoreValue(val[r]) # Uncacheable /\ k = At(r) /\ p = pat[r])
      <4>1. store'[k][p] = store[k][p] /\ vouched'[k][p] = vouched[k][p]
        BY <1>7, <3>3 DEF Publish
      <4> QED
        BY <2>5, <2>6, <3>1, <4>1
    <3> QED
      BY <3>2, <3>3
  <2> QED
    BY <2>4, <2>6
<1>8. ASSUME NEW r \in Request, AnswerAlone(r) PROVE Fresh'
  BY <1>8 DEF AnswerAlone
<1>9. ASSUME NEW r \in Request, LeaderFails(r) PROVE Fresh'
  BY <1>9, SMTT(30) DEF LeaderFails, Unregister, Followers
<1>10. ASSUME NEW r \in Request, LoneLoadFails(r) PROVE Fresh'
  BY <1>10 DEF LoneLoadFails, Finished
<1>11. ASSUME NEW r \in Request, TakeShared(r) PROVE Fresh'
  BY <1>11 DEF TakeShared
<1>12. ASSUME NEW r \in Request, LoadAlone(r) PROVE Fresh'
  BY <1>12 DEF LoadAlone
<1>13. ASSUME NEW r \in Request, RaiseShared(r) PROVE Fresh'
  BY <1>13 DEF RaiseShared, Finished
<1>14. ASSUME NEW r \in Request, Reply(r) PROVE Fresh'
  BY <1>14 DEF Reply, Finished
<1>15. ASSUME NEW r \in Request, Proceed(r) PROVE Fresh'
  BY <1>15 DEF Proceed
<1>16. ASSUME NEW r \in Request, SelectRow(r) PROVE Fresh'
  BY <1>16, SMTT(30) DEF SelectRow, Finished
<1>17. ASSUME NEW r \in Request, NEW t \in Row, Commit(r, t) PROVE Fresh'
  <2>1. CleanLoads'
    BY <1>17 DEF Commit, Outdate
  <2>2. StaleOnlyIfRaced'
    <3> SUFFICES ASSUME NEW c \in Cache, NEW p \in Pattern, store'[c][p] # Empty,
                        vouched'[c][p], ~Pending(c, p)'
                 PROVE  store'[c][p] = Current(p)'
      BY DEF StaleOnlyIfRaced
    <3>1. p # pat[r]
      <4> SUFFICES ASSUME p = pat[r] PROVE FALSE
        OBVIOUS
      <4>1. vouched'[c][p] = (vouched[c][p] /\ c = At(r))
        BY <1>17 DEF Commit
      <4>2. pc'[r] = "settling" /\ op'[r] = op[r] /\ pat'[r] = p
        BY <1>17 DEF Commit
      <4> QED
        BY <4>1, <4>2
    <3>2. vouched[c][p] /\ ~Pending(c, p)
      BY <1>17, <3>1 DEF Commit
    <3> QED
      BY <1>17, <3>1, <3>2 DEF Commit
  <2> QED
    BY <2>1, <2>2
<1>18. ASSUME NEW r \in Request, CommitFails(r) PROVE Fresh'
  BY <1>18 DEF CommitFails, Finished
<1>19. ASSUME NEW r \in Request, Settle(r) PROVE Fresh'
  BY <1>19 DEF Settle, Finished, Invalidate
<1>20. ASSUME NEW r \in Request, SettleFails(r) PROVE Fresh'
  BY <1>20 DEF SettleFails, Finished
<1>21. ASSUME NEW c \in Cache, NEW p \in Pattern, Expire(c, p) PROVE Fresh'
  BY <1>21 DEF Expire
<1>22. ASSUME NEW p \in Pattern, NEW s \in Row, NEW u \in Row, SilentWrite(p, s, u) PROVE Fresh'
  BY <1>22, SMTT(30) DEF SilentWrite, Outdate
<1>23. CASE UNCHANGED vars
  BY <1>23 DEF vars
<1> HIDE DEF TypeOK, Fresh
<1> QED
  BY <1>1, <1>2, <1>3, <1>4, <1>5, <1>6, <1>7, <1>8, <1>9, <1>10, <1>11, <1>12, <1>13,
     <1>14, <1>15, <1>16, <1>17, <1>18, <1>19, <1>20, <1>21, <1>22, <1>23
  DEF Next, Arrive, Step

\* A vouched entry with no invalidation pending agrees with the database.
THEOREM StaleSafety == Spec => []StaleOnlyIfRaced
<1>1. Init => TypeOK /\ Fresh
  BY InitType, InitFresh
<1>2. TypeOK /\ Fresh /\ [Next]_vars => TypeOK' /\ Fresh'
  BY NextType, NextFresh
<1>3. Fresh => StaleOnlyIfRaced
  BY DEF Fresh
<1> QED
  BY <1>1, <1>2, <1>3, PTL DEF Spec

----------------------------------------------------------------------------
(* The refinement of FlightContract, its fairness left to TLC. *)

Key == Cache \X Pattern
Runner == [k \in Key |-> inflight[k[1]][k[2]]]
Waits(r, k) == pc[r] = "waiting" /\ At(r) = k[1] /\ pat[r] = k[2]
Party == [k \in Key |-> {r \in Request : Waits(r, k)}]

\* Initial states map to initial states of the contract.
LEMMA InitContract == Init => Contract!Init
BY DEF Init, Contract!Init

\* A step that touches no flight and no waiter is a stutter of the contract.
LEMMA StutterContract ==
  ASSUME inflight' = inflight,
         \A r \in Request : pc'[r] = "waiting" <=> pc[r] = "waiting",
         \A r \in Request : pc[r] = "waiting" => op'[r] = op[r] /\ pat'[r] = pat[r]
  PROVE  UNCHANGED Contract!vars
<1>1. Runner' = Runner
  BY DEF Runner
<1>2. ASSUME NEW k \in Key PROVE {r \in Request : Waits(r, k)}' = {r \in Request : Waits(r, k)}
  BY DEF Waits, At, CacheOf
<1>3. Party' = Party
  BY <1>2, Zenon DEF Party
<1> QED
  BY <1>1, <1>3 DEF Contract!vars, Runner, Party, Waits, Key

\* A settled flight leaves its key without a runner and without waiters, and
\* every other key as it was.
LEMMA SettleContract ==
  ASSUME TypeOK, Flights, NEW r \in Request, NEW c \in Cache, NEW p \in Pattern,
         At(r) = c, pat[r] = p, pc[r] \in Loading, flight[r] = r,
         inflight' = [inflight EXCEPT ![c][p] = NoRequest],
         \A q \in Request : pc'[q] = "waiting" <=> pc[q] = "waiting" /\ q \notin Followers(r),
         \A q \in Request : q # r => op'[q] = op[q],
         pat' = pat
  PROVE  Contract!Settle(<<c, p>>)
<1> USE RequestAssumption DEF TypeOK, Cache
<1> DEFINE k == <<c, p>>
<1>1. k \in Key /\ k[1] = c /\ k[2] = p
  BY DEF Key, At, CacheOf
<1>2. inflight[c][p] = r
  BY <1>1 DEF Flights, FlightsHaveLeaders, At, CacheOf
<1>3. Runner[k] # NoRequest
  BY <1>1, <1>2 DEF Runner
<1>4. Runner' = [Runner EXCEPT ![k] = NoRequest]
  <2>1. ASSUME NEW j \in Key PROVE Runner'[j] = IF j = k THEN NoRequest ELSE Runner[j]
    BY <1>1 DEF Runner, Key, At, CacheOf
  <2>2. Runner' = [j \in Key |-> Runner'[j]] /\ Runner = [j \in Key |-> Runner[j]]
    BY DEF Runner
  <2>3. Runner' = [j \in Key |-> IF j = k THEN NoRequest ELSE Runner[j]]
    <3> HIDE DEF k, Runner
    <3> QED BY <2>1, <2>2, Zenon
  <2> QED
    <3> HIDE DEF k, Runner
    <3> QED BY <2>2, <2>3, <1>1, Zenon
<1>5. Party' = [Party EXCEPT ![k] = {}]
  <2>1. ASSUME NEW q \in Request, Waits(q, k) PROVE q \in Followers(r)
    BY <2>1, <1>1, <1>2 DEF Waits, Followers, Flights, WaitersHaveFlights
  <2>2. ASSUME NEW q \in Request, q \in Followers(r) PROVE Waits(q, k)
    <3>1. inflight[At(q)][pat[q]] = r
      BY <2>2 DEF Followers, Flights, WaitersHaveFlights
    <3>2. At(q) \in Cache
      BY DEF At, CacheOf
    <3> QED
      BY <2>2, <3>1, <3>2, <1>1 DEF Waits, Followers, Flights, FlightsHaveLeaders
  <2>3. \A q \in Request : pc[q] = "waiting" => q # r
    BY DEF Loading
  <2>4. ASSUME NEW j \in Key, NEW q \in Request
        PROVE  Waits(q, j)' <=> Waits(q, j) /\ j # k
    <3>1. Waits(q, j)' <=> Waits(q, j) /\ q \notin Followers(r)
      BY <2>3 DEF Waits, At
    <3>2. Waits(q, j) /\ j # k => ~Waits(q, k)
      BY <1>1 DEF Waits, Key
    <3> QED
      BY <2>1, <2>2, <3>1, <3>2
  <2>5. ASSUME NEW j \in Key PROVE Party'[j] = IF j = k THEN {} ELSE Party[j]
    BY <2>4 DEF Party
  <2>6. Party' = [j \in Key |-> Party'[j]] /\ Party = [j \in Key |-> Party[j]]
    BY DEF Party
  <2>7. Party' = [j \in Key |-> IF j = k THEN {} ELSE Party[j]]
    <3> HIDE DEF k, Party
    <3> QED BY <2>5, <2>6, Zenon
  <2> HIDE DEF k, Party
  <2> QED
    BY <2>6, <2>7, <1>1, Zenon
<1> QED
  BY <1>3, <1>4, <1>5 DEF Contract!Settle, Runner, Party, Waits, Key

\* Every step of the cache is a step of the contract or a stutter.
LEMMA NextContract ==
  TypeOK /\ Flights /\ [Next]_vars => [Contract!Next]_Contract!vars
<1> SUFFICES ASSUME TypeOK, Flights, [Next]_vars PROVE [Contract!Next]_Contract!vars
  OBVIOUS
<1> USE RequestAssumption DEF TypeOK, Loading, Cache
<1>0. ASSUME NEW r \in Request, pc[r] = "idle" PROVE ~Contract!Engaged(r)
  <2>1. \A k \in Key : Runner[k] # r /\ r \notin Party[k]
    BY <1>0, SMTT(30) DEF Runner, Party, Waits, Key, Flights, FlightsHaveLeaders
  <2> QED
    BY <2>1 DEF Contract!Engaged, Runner, Party, Waits, Key
<1>2. ASSUME NEW r \in Request, NEW o \in Op, NEW p \in Pattern, Lead(r, o, p)
      PROVE  Contract!Start(r, <<CacheOf(o), p>>)
  <2> DEFINE k == <<CacheOf(o), p>>
  <2>1. k \in Key /\ k[1] = CacheOf(o) /\ k[2] = p
    BY DEF Key, CacheOf
  <2>2. Runner[k] = NoRequest
    BY <1>2, <2>1 DEF Runner, Lead
  <2>3. Runner' = [Runner EXCEPT ![k] = r]
    <3>1. ASSUME NEW j \in Key PROVE Runner'[j] = IF j = k THEN r ELSE Runner[j]
      BY <1>2, <2>1 DEF Runner, Key, CacheOf, Lead
    <3> QED
      BY <3>1, <2>1, Zenon DEF Runner
  <2>4. ASSUME NEW j \in Key, NEW q \in Request PROVE Waits(q, j)' <=> Waits(q, j)
    BY <1>2 DEF Lead, Accept, Waits, At
  <2>5. Party' = Party
    BY <2>4 DEF Party
  <2>6. ~Contract!Engaged(r)
    BY <1>0, <1>2 DEF Lead, Accept
  <2> QED
    BY <2>2, <2>3, <2>5, <2>6 DEF Contract!Start, Runner, Party, Waits, Key
<1>3. ASSUME NEW r \in Request, NEW o \in Op, NEW p \in Pattern, Join(r, o, p)
      PROVE  Contract!Join(r, <<CacheOf(o), p>>)
  <2> DEFINE k == <<CacheOf(o), p>>
  <2>1. k \in Key /\ k[1] = CacheOf(o) /\ k[2] = p
    BY DEF Key, CacheOf
  <2>2. Runner[k] # NoRequest
    BY <1>3, <2>1 DEF Runner, Join
  <2>3. Runner' = Runner
    BY <1>3 DEF Runner, Join
  <2>4. ASSUME NEW j \in Key, NEW q \in Request
        PROVE  Waits(q, j)' <=> Waits(q, j) \/ (q = r /\ j = k)
    <3>1. CASE q = r
      <4>1. ~Waits(q, j) /\ pc'[r] = "waiting" /\ op'[r] = o /\ pat'[r] = p
        BY <1>3, <3>1 DEF Join, Accept, Waits
      <4>2. j = <<j[1], j[2]>>
        BY DEF Key
      <4> QED
        BY <3>1, <4>1, <4>2, <2>1 DEF Waits, At
    <3>2. CASE q # r
      BY <1>3, <3>2 DEF Join, Accept, Waits, At
    <3> QED
      BY <3>1, <3>2
  <2>5. ASSUME NEW j \in Key PROVE Party'[j] = IF j = k THEN Party[j] \cup {r} ELSE Party[j]
    BY <2>4 DEF Party
  <2>6. Party' = [Party EXCEPT ![k] = @ \cup {r}]
    BY <2>5, <2>1, Zenon DEF Party
  <2>7. ~Contract!Engaged(r)
    BY <1>0, <1>3 DEF Join, Accept
  <2> QED
    BY <2>2, <2>3, <2>6, <2>7 DEF Contract!Join, Runner, Party, Waits, Key
<1>7. ASSUME NEW r \in Request, NEW c \in Cache, NEW p \in Pattern,
             At(r) = c, pat[r] = p, Publish(r)
      PROVE  Contract!Settle(<<c, p>>)
  BY <1>7, SettleContract DEF Publish, Unregister, Followers
<1>9. ASSUME NEW r \in Request, NEW c \in Cache, NEW p \in Pattern,
             At(r) = c, pat[r] = p, LeaderFails(r)
      PROVE  Contract!Settle(<<c, p>>)
  BY <1>9, SettleContract DEF LeaderFails, Unregister, Followers
<1>1. ASSUME NEW r \in Request, NEW o \in Op, NEW p \in Pattern, Hit(r, o, p)
      PROVE  UNCHANGED Contract!vars
  BY <1>1, StutterContract DEF Hit, Accept
<1>4. ASSUME NEW r \in Request, NEW p \in Pattern, BulkDelete(r, p)
      PROVE  UNCHANGED Contract!vars
  BY <1>4, StutterContract DEF BulkDelete, Accept
<1>5. ASSUME NEW r \in Request, ReadShortcut(r)
      PROVE  UNCHANGED Contract!vars
  BY <1>5, StutterContract DEF ReadShortcut
<1>6. ASSUME NEW r \in Request, ReadUpstream(r)
      PROVE  UNCHANGED Contract!vars
  BY <1>6, StutterContract DEF ReadUpstream
<1>8. ASSUME NEW r \in Request, AnswerAlone(r)
      PROVE  UNCHANGED Contract!vars
  BY <1>8, StutterContract DEF AnswerAlone
<1>10. ASSUME NEW r \in Request, LoneLoadFails(r)
      PROVE  UNCHANGED Contract!vars
  BY <1>10, StutterContract DEF LoneLoadFails, Finished
<1>11. ASSUME NEW r \in Request, TakeShared(r)
      PROVE  UNCHANGED Contract!vars
  BY <1>11, StutterContract DEF TakeShared
<1>12. ASSUME NEW r \in Request, LoadAlone(r)
      PROVE  UNCHANGED Contract!vars
  BY <1>12, StutterContract DEF LoadAlone
<1>13. ASSUME NEW r \in Request, RaiseShared(r)
      PROVE  UNCHANGED Contract!vars
  BY <1>13, StutterContract DEF RaiseShared, Finished
<1>14. ASSUME NEW r \in Request, Reply(r)
      PROVE  UNCHANGED Contract!vars
  BY <1>14, StutterContract DEF Reply, Finished
<1>15. ASSUME NEW r \in Request, Proceed(r)
      PROVE  UNCHANGED Contract!vars
  BY <1>15, StutterContract DEF Proceed
<1>16. ASSUME NEW r \in Request, SelectRow(r)
      PROVE  UNCHANGED Contract!vars
  BY <1>16, StutterContract DEF SelectRow, Finished
<1>17. ASSUME NEW r \in Request, NEW t \in Row, Commit(r, t)
      PROVE  UNCHANGED Contract!vars
  BY <1>17, StutterContract DEF Commit
<1>18. ASSUME NEW r \in Request, CommitFails(r)
      PROVE  UNCHANGED Contract!vars
  BY <1>18, StutterContract DEF CommitFails, Finished
<1>19. ASSUME NEW r \in Request, Settle(r)
      PROVE  UNCHANGED Contract!vars
  BY <1>19, StutterContract DEF Settle, Finished, Invalidate
<1>20. ASSUME NEW r \in Request, SettleFails(r)
      PROVE  UNCHANGED Contract!vars
  BY <1>20, StutterContract DEF SettleFails, Finished
<1>21. ASSUME NEW c \in Cache, NEW p \in Pattern, Expire(c, p)
      PROVE  UNCHANGED Contract!vars
  BY <1>21, StutterContract DEF Expire
<1>22. ASSUME NEW p \in Pattern, NEW s \in Row, NEW u \in Row, SilentWrite(p, s, u)
      PROVE  UNCHANGED Contract!vars
  BY <1>22, StutterContract DEF SilentWrite
<1>23. CASE UNCHANGED vars
  BY <1>23, StutterContract DEF vars
<1>24. ASSUME NEW r \in Request, NEW k \in Key,
              Contract!Start(r, k) \/ Contract!Join(r, k)
       PROVE  Contract!Next
  BY <1>24 DEF Contract!Next, Key
<1>25. \A o \in Op, p \in Pattern : <<CacheOf(o), p>> \in Key
  BY DEF Key, CacheOf
<1>26. \A c \in Cache, p \in Pattern : <<c, p>> \in Key
  BY DEF Key
<1>27. ASSUME NEW r \in Request, NEW o \in Op, NEW p \in Pattern, Lead(r, o, p) \/ Join(r, o, p)
       PROVE  Contract!Next
  BY <1>2, <1>3, <1>24, <1>25, <1>27
<1>28. ASSUME NEW r \in Request, Publish(r) \/ LeaderFails(r)
       PROVE  Contract!Next
  <2>1. PICK c \in Cache, p \in Pattern : At(r) = c /\ pat[r] = p
    BY DEF At, CacheOf
  <2>2. Contract!Settle(<<c, p>>)
    BY <1>7, <1>9, <1>28, <2>1
  <2> QED
    BY <2>2, <1>26 DEF Contract!Next, Key
<1> HIDE DEF TypeOK, Loading, Cache
<1> QED
  BY <1>1, <1>4, <1>5, <1>6, <1>8, <1>10, <1>11, <1>12, <1>13, <1>14, <1>15, <1>16,
     <1>17, <1>18, <1>19, <1>20, <1>21, <1>22, <1>23, <1>27, <1>28
  DEF Next, Arrive, Step

\* The lookup cache keeps the promise of FlightContract (its safety part).
THEOREM ImplementsContract == Spec => Contract!Spec
<1>1. Init => TypeOK /\ Flights /\ Contract!Init
  BY InitType, InitFlights, InitContract
<1>2. TypeOK /\ Flights /\ [Next]_vars =>
        TypeOK' /\ Flights' /\ [Contract!Next]_Contract!vars
  BY NextType, NextFlights, NextContract
<1> QED
  BY <1>1, <1>2, PTL DEF Spec, Contract!Spec
=============================================================================
