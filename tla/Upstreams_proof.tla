-------------------------- MODULE Upstreams_proof --------------------------
(* Proofs about Upstreams for every set of names, patterns, targets and    *)
(* runs, and any number of edits.                                          *)
EXTENDS Upstreams, TLAPS

USE DEF tables, tasks, history

\* Init establishes the types.
LEMMA InitType == Init => TypeOK
BY UrlAssumption, LimitAssumption DEF Init, TypeOK, Url, Stages, Verdict, Working

\* Rows that change are noted for runs that have them.
LEMMA ChangedType ==
  ASSUME TypeOK, NEW I \in SUBSET Item, NEW V \in SUBSET Run, Changed(I, V)
  PROVE  /\ foreign' \in [Run -> SUBSET Item]
         /\ \A w \in Run : foreign[w] \subseteq foreign'[w]
         /\ \A w \in Run \ V : foreign'[w] = foreign[w]
         /\ \A w \in V, i \in I : stage[w][i] # "none" => i \in foreign'[w]
BY DEF TypeOK, Changed, Items, In, Stages

\* Every step keeps every variable within its type.
LEMMA NextType == TypeOK /\ [Next]_vars => TypeOK'
<1> SUFFICES ASSUME TypeOK, [Next]_vars PROVE TypeOK'
  OBVIOUS
<1> USE DEF TypeOK, Stages, Working, Verdict, Url
<1>1. ASSUME NEW w \in Run, AnswerFanOut(w)
      PROVE  TypeOK'
  BY <1>1 DEF AnswerFanOut, Move, Forget
<1>2. ASSUME NEW w \in Run, Finish(w)
      PROVE  TypeOK'
  BY <1>2 DEF Finish, Move, Forget
<1>3. ASSUME NEW w \in Run, Leave(w)
      PROVE  TypeOK'
  BY <1>3 DEF Leave, Move, Forget
<1>4. ASSUME NEW w \in Run, NEW i \in Item, NEW a \in Answer, Check(w, i, a)
      PROVE  TypeOK'
  BY <1>4 DEF Check, Move, Judge
<1>5. ASSUME NEW w \in Run, NEW i \in Item, CommitLog(w, i)
      PROVE  TypeOK'
  BY <1>5 DEF CommitLog, Move, Forget, Counted
<1>6. ASSUME NEW w \in Run, NEW i \in Item, SelectRow(w, i)
      PROVE  TypeOK'
  <2>1. PICK s \in {"done", "reading"} : stage' = [stage EXCEPT ![w][i] = s]
    BY <1>6, Zenon DEF SelectRow, Move
  <2>2. PICK n \in Nat : seen' = seen \/ seen' = [seen EXCEPT ![w][i] = n]
    <3>1. CASE cache[i] = NoUrl
      BY <1>6, <3>1, Zenon DEF SelectRow
    <3>2. CASE cache[i] # NoUrl
      BY <1>6, <3>2, Zenon DEF SelectRow
    <3> QED
      BY <3>1, <3>2
  <2>3. UNCHANGED <<tables, run, verdict, runs, edits, history>>
    BY <1>6, Zenon DEF SelectRow
  <2>4. stage' \in [Run -> [Item -> Stages]]
    BY <2>1
  <2>5. seen' \in [Run -> [Item -> Nat]]
    <3>1. seen \in [Run -> [Item -> Nat]] /\ n \in Nat
      OBVIOUS
    <3>2. ASSUME seen' = [seen EXCEPT ![w][i] = n] PROVE seen' \in [Run -> [Item -> Nat]]
      <4> HIDE DEF TypeOK
      <4> QED
        BY <3>1, <3>2
    <3> QED
      BY <2>2, <3>1, <3>2
  <2> QED
    BY <2>3, <2>4, <2>5
<1>7. ASSUME NEW w \in Run, NEW i \in Item, Save(w, i)
      PROVE  TypeOK'
  <2>1. foreign' \in [Run -> SUBSET Item]
    BY <1>7, ChangedType DEF Save
  <2> QED
    BY <1>7, <2>1 DEF Save, Move, Forget
<1>8. ASSUME NEW w \in Run, NEW i \in Item, Clear(w, i)
      PROVE  TypeOK'
  <2>1. foreign' \in [Run -> SUBSET Item] /\ cache' \in [Item -> Url \cup {NoUrl}]
    BY <1>8, ChangedType DEF Clear
  <2> QED
    BY <1>8, <2>1 DEF Clear, Move, Forget
<1>9. ASSUME NEW w \in Run, NEW i \in Item, Fail(w, i)
      PROVE  TypeOK'
  BY <1>9 DEF Fail, Move, Forget
<1>10. ASSUME NEW w \in Run, NEW i \in Item, Drop(w, i)
      PROVE  TypeOK'
  BY <1>10 DEF Drop, Move, Forget
<1>11. ASSUME NEW w \in Run, NEW kind \in Working, NEW I \in SUBSET Item, Begin(w, kind, I)
      PROVE  TypeOK'
  BY <1>11, LimitAssumption DEF Begin, FirstStage
<1>12. ASSUME NEW u \in Name, Create(u)
      PROVE  TypeOK'
  BY <1>12 DEF Create, Edit
<1>13. ASSUME NEW u \in Name, NEW v \in Name, Rename(u, v)
      PROVE  TypeOK'
  BY <1>13 DEF Rename, Edit
<1>14. ASSUME NEW u \in Name, Delete(u)
      PROVE  TypeOK'
  <2>1. foreign' \in [Run -> SUBSET Item] /\ cache' \in [Item -> Url \cup {NoUrl}]
    BY <1>14, ChangedType DEF Delete, Remove, RowsOf, Item
  <2> QED
    BY <1>14, <2>1 DEF Delete, Edit
<1>15. ASSUME NEW I \in SUBSET Item, Purge(I)
      PROVE  TypeOK'
  <2>1. foreign' \in [Run -> SUBSET Item] /\ cache' \in [Item -> Url \cup {NoUrl}]
    BY <1>15, ChangedType DEF Purge, Remove
  <2> QED
    BY <1>15, <2>1 DEF Purge, Edit
<1>16. ASSUME NEW U \in SUBSET Name, ClearLogs(U)
      PROVE  TypeOK'
  BY <1>16 DEF ClearLogs, Edit
<1>17. CASE UNCHANGED vars
  BY <1>17 DEF vars
<1>18. ASSUME NEW w \in Run, NEW u \in Name, NEW P \in SUBSET Pattern, Resync(w, u, P) PROVE TypeOK'
  <2>1. P \X {u} \in SUBSET Item
    BY DEF Item
  <2>2. \A k \in P \X {u} : k[2] = u
    OBVIOUS
  <2>3. Begin(w, "resync", P \X {u}) /\ u \in live
    BY <1>18 DEF Resync
  <2>4. "resync" \in Working /\ \A k \in P \X {u} : k[2] \in live
    BY <2>2, <2>3 DEF Working
  <2> HIDE DEF TypeOK
  <2> QED
    BY <1>11, <2>1, <2>3, <2>4
<1>19. ASSUME NEW w \in Run, NEW p \in Pattern, FanOut(w, p) PROVE TypeOK'
  <2>1. {p} \X live \in SUBSET Item
    BY DEF Item, TypeOK
  <2> QED
    BY <1>11, <1>19, <2>1 DEF FanOut, Working
<1>20. ASSUME Admin PROVE TypeOK'
  <2>1. ASSUME NEW I \in {Item} \cup {RowsOf(u) : u \in Name} \cup {{i} : i \in Item}, Purge(I)
        PROVE  TypeOK'
    <3>1. I \in SUBSET Item
      BY DEF RowsOf, Item
    <3> QED
      BY <1>15, <2>1, <3>1
  <2>2. ASSUME NEW U \in {Name} \cup {{u} : u \in Name}, ClearLogs(U) PROVE TypeOK'
    <3>1. U \in SUBSET Name
      OBVIOUS
    <3> QED
      BY <1>16, <2>2, <3>1
  <2> QED
    BY <1>12, <1>13, <1>14, <1>20, <2>1, <2>2 DEF Admin
<1> HIDE DEF TypeOK
<1> QED
  BY <1>1, <1>2, <1>3, <1>4, <1>5, <1>6, <1>7, <1>8, <1>9, <1>10, <1>17, <1>18, <1>19, <1>20
  DEF Next, Work, Start

\* Type correctness.
THEOREM TypeCorrect == Spec => []TypeOK
BY InitType, NextType, PTL DEF Spec

----------------------------------------------------------------------------

\* No check concludes with a login page.
NoLogins ==
  /\ LoginsAreNotCached
  /\ \A w \in Run, i \in Item : verdict[w][i] \notin SsoUrl

LEMMA InitLogins == Init => NoLogins
BY UrlAssumption, VerdictAssumption DEF Init, NoLogins, LoginsAreNotCached, Url

\* Every step keeps login pages out.
LEMMA NextLogins == TypeOK /\ NoLogins /\ [Next]_vars => NoLogins'
<1> SUFFICES ASSUME TypeOK, NoLogins, [Next]_vars PROVE NoLogins'
  OBVIOUS
<1> USE UrlAssumption, VerdictAssumption DEF TypeOK, NoLogins, LoginsAreNotCached, Url, Verdict
<1>1. ASSUME NEW w \in Run, AnswerFanOut(w)
      PROVE  NoLogins'
  BY <1>1 DEF AnswerFanOut, Move, Forget
<1>2. ASSUME NEW w \in Run, Finish(w)
      PROVE  NoLogins'
  BY <1>2 DEF Finish, Move, Forget
<1>3. ASSUME NEW w \in Run, Leave(w)
      PROVE  NoLogins'
  BY <1>3 DEF Leave, Move, Forget
<1>4. ASSUME NEW w \in Run, NEW i \in Item, NEW a \in Answer, Check(w, i, a)
      PROVE  NoLogins'
  BY <1>4 DEF Check, Move, Judge
<1>5. ASSUME NEW w \in Run, NEW i \in Item, CommitLog(w, i)
      PROVE  NoLogins'
  BY <1>5 DEF CommitLog, Move, Forget
<1>6. ASSUME NEW w \in Run, NEW i \in Item, SelectRow(w, i)
      PROVE  NoLogins'
  <2>1. UNCHANGED <<cache, verdict>>
    BY <1>6, Zenon DEF SelectRow
  <2> QED
    BY <2>1
<1>7. ASSUME NEW w \in Run, NEW i \in Item, Save(w, i)
      PROVE  NoLogins'
  BY <1>7 DEF Save, Move, Forget
<1>8. ASSUME NEW w \in Run, NEW i \in Item, Clear(w, i)
      PROVE  NoLogins'
  BY <1>8 DEF Clear, Move, Forget
<1>9. ASSUME NEW w \in Run, NEW i \in Item, Fail(w, i)
      PROVE  NoLogins'
  BY <1>9 DEF Fail, Move, Forget
<1>10. ASSUME NEW w \in Run, NEW i \in Item, Drop(w, i)
      PROVE  NoLogins'
  BY <1>10 DEF Drop, Move, Forget
<1>11. ASSUME NEW w \in Run, NEW kind \in Working, NEW I \in SUBSET Item, Begin(w, kind, I)
      PROVE  NoLogins'
  BY <1>11 DEF Begin, Move, Forget
<1>12. ASSUME NEW u \in Name, Create(u)
      PROVE  NoLogins'
  BY <1>12 DEF Create, Edit
<1>13. ASSUME NEW u \in Name, NEW v \in Name, Rename(u, v)
      PROVE  NoLogins'
  BY <1>13 DEF Rename, Edit
<1>14. ASSUME NEW u \in Name, Delete(u)
      PROVE  NoLogins'
  BY <1>14 DEF Delete, Remove, Edit
<1>15. ASSUME NEW I \in SUBSET Item, Purge(I)
      PROVE  NoLogins'
  BY <1>15 DEF Purge, Remove, Edit
<1>16. ASSUME NEW U \in SUBSET Name, ClearLogs(U)
      PROVE  NoLogins'
  BY <1>16 DEF ClearLogs, Edit
<1>17. CASE UNCHANGED vars
  BY <1>17 DEF vars
<1>18. ASSUME NEW w \in Run, NEW u \in Name, NEW P \in SUBSET Pattern, Resync(w, u, P) PROVE NoLogins'
  <2>1. P \X {u} \in SUBSET Item
    BY DEF Item
  <2>2. \A k \in P \X {u} : k[2] = u
    OBVIOUS
  <2>3. Begin(w, "resync", P \X {u}) /\ u \in live
    BY <1>18 DEF Resync
  <2>4. "resync" \in Working /\ \A k \in P \X {u} : k[2] \in live
    BY <2>2, <2>3 DEF Working
  <2> HIDE DEF TypeOK
  <2> QED
    BY <1>11, <2>1, <2>3, <2>4
<1>19. ASSUME NEW w \in Run, NEW p \in Pattern, FanOut(w, p) PROVE NoLogins'
  <2>1. {p} \X live \in SUBSET Item
    BY DEF Item, TypeOK
  <2> QED
    BY <1>11, <1>19, <2>1 DEF FanOut, Working
<1>20. ASSUME Admin PROVE NoLogins'
  <2>1. ASSUME NEW I \in {Item} \cup {RowsOf(u) : u \in Name} \cup {{i} : i \in Item}, Purge(I)
        PROVE  NoLogins'
    <3>1. I \in SUBSET Item
      BY DEF RowsOf, Item
    <3> QED
      BY <1>15, <2>1, <3>1
  <2>2. ASSUME NEW U \in {Name} \cup {{u} : u \in Name}, ClearLogs(U) PROVE NoLogins'
    <3>1. U \in SUBSET Name
      OBVIOUS
    <3> QED
      BY <1>16, <2>2, <3>1
  <2> QED
    BY <1>12, <1>13, <1>14, <1>20, <2>1, <2>2 DEF Admin
<1> HIDE DEF TypeOK
<1> QED
  BY <1>1, <1>2, <1>3, <1>4, <1>5, <1>6, <1>7, <1>8, <1>9, <1>10, <1>17, <1>18, <1>19, <1>20
  DEF Next, Work, Start

\* SSO/login targets are never cached, for any upstream.
THEOREM LoginSafety == Spec => []LoginsAreNotCached
<1>1. NoLogins => LoginsAreNotCached
  BY DEF NoLogins
<1> QED
  BY <1>1, InitType, NextType, InitLogins, NextLogins, PTL DEF Spec

----------------------------------------------------------------------------

\* Only a resync reads rows of the cache.
Serial ==
  /\ SessionsAreSerial
  /\ \A w \in Run, i \in Item : stage[w][i] = "reading" => run[w] = "resync"

LEMMA InitSerial == Init => Serial
BY DEF Init, Serial, SessionsAreSerial, InSession

\* Every step keeps the session of a run to one task.
LEMMA NextSerial == TypeOK /\ Serial /\ [Next]_vars => Serial'
<1> SUFFICES ASSUME TypeOK, Serial, [Next]_vars PROVE Serial'
  OBVIOUS
<1> USE DEF TypeOK, Serial, SessionsAreSerial, InSession, Working, Stages
<1>1. ASSUME NEW w \in Run, AnswerFanOut(w)
      PROVE  Serial'
  BY <1>1 DEF AnswerFanOut, Move
<1>2. ASSUME NEW w \in Run, Finish(w)
      PROVE  Serial'
  <2>1. \A j \in Item : stage[w][j] # "reading"
    BY <1>2 DEF Finish, Items, In
  <2> QED
    BY <1>2, <2>1 DEF Finish
<1>3. ASSUME NEW w \in Run, Leave(w)
      PROVE  Serial'
  BY <1>3 DEF Leave, Move
<1>4. ASSUME NEW w \in Run, NEW i \in Item, NEW a \in Answer, Check(w, i, a)
      PROVE  Serial'
  BY <1>4 DEF Check, Move, Unlocked, In
<1>5. ASSUME NEW w \in Run, NEW i \in Item, CommitLog(w, i)
      PROVE  Serial'
  BY <1>5 DEF CommitLog, Move
<1>6. ASSUME NEW w \in Run, NEW i \in Item, SelectRow(w, i)
      PROVE  Serial'
  <2>1. /\ run[w] = "resync" /\ UNCHANGED run
        /\ \A j \in Item : stage[w][j] \notin InSession
    BY <1>6, Zenon DEF SelectRow, Unlocked, In
  <2>2. PICK t \in {"done", "reading"} : stage' = [stage EXCEPT ![w][i] = t]
    BY <1>6, Zenon DEF SelectRow, Move
  <2> QED
    BY <2>1, <2>2
<1>7. ASSUME NEW w \in Run, NEW i \in Item, Save(w, i)
      PROVE  Serial'
  BY <1>7 DEF Save, Move
<1>8. ASSUME NEW w \in Run, NEW i \in Item, Clear(w, i)
      PROVE  Serial'
  BY <1>8 DEF Clear, Move
<1>9. ASSUME NEW w \in Run, NEW i \in Item, Fail(w, i)
      PROVE  Serial'
  BY <1>9 DEF Fail, Move
<1>10. ASSUME NEW w \in Run, NEW i \in Item, Drop(w, i)
      PROVE  Serial'
  BY <1>10 DEF Drop, Move
<1>11. ASSUME NEW w \in Run, NEW kind \in Working, NEW I \in SUBSET Item, Begin(w, kind, I)
      PROVE  Serial'
  BY <1>11 DEF Begin, FirstStage
<1>12. ASSUME NEW u \in Name, Create(u)
      PROVE  Serial'
  BY <1>12 DEF Create, Edit
<1>13. ASSUME NEW u \in Name, NEW v \in Name, Rename(u, v)
      PROVE  Serial'
  BY <1>13 DEF Rename, Edit
<1>14. ASSUME NEW u \in Name, Delete(u)
      PROVE  Serial'
  BY <1>14 DEF Delete, Edit
<1>15. ASSUME NEW I \in SUBSET Item, Purge(I)
      PROVE  Serial'
  BY <1>15 DEF Purge, Edit
<1>16. ASSUME NEW U \in SUBSET Name, ClearLogs(U)
      PROVE  Serial'
  BY <1>16 DEF ClearLogs, Edit
<1>17. CASE UNCHANGED vars
  BY <1>17 DEF vars
<1>18. ASSUME NEW w \in Run, NEW u \in Name, NEW P \in SUBSET Pattern, Resync(w, u, P) PROVE Serial'
  <2>1. P \X {u} \in SUBSET Item
    BY DEF Item
  <2>2. \A k \in P \X {u} : k[2] = u
    OBVIOUS
  <2>3. Begin(w, "resync", P \X {u}) /\ u \in live
    BY <1>18 DEF Resync
  <2>4. "resync" \in Working /\ \A k \in P \X {u} : k[2] \in live
    BY <2>2, <2>3 DEF Working
  <2> HIDE DEF TypeOK
  <2> QED
    BY <1>11, <2>1, <2>3, <2>4
<1>19. ASSUME NEW w \in Run, NEW p \in Pattern, FanOut(w, p) PROVE Serial'
  <2>1. {p} \X live \in SUBSET Item
    BY DEF Item, TypeOK
  <2> QED
    BY <1>11, <1>19, <2>1 DEF FanOut, Working
<1>20. ASSUME Admin PROVE Serial'
  <2>1. ASSUME NEW I \in {Item} \cup {RowsOf(u) : u \in Name} \cup {{i} : i \in Item}, Purge(I)
        PROVE  Serial'
    <3>1. I \in SUBSET Item
      BY DEF RowsOf, Item
    <3> QED
      BY <1>15, <2>1, <3>1
  <2>2. ASSUME NEW U \in {Name} \cup {{u} : u \in Name}, ClearLogs(U) PROVE Serial'
    <3>1. U \in SUBSET Name
      OBVIOUS
    <3> QED
      BY <1>16, <2>2, <3>1
  <2> QED
    BY <1>12, <1>13, <1>14, <1>20, <2>1, <2>2 DEF Admin
<1> HIDE DEF TypeOK
<1> QED
  BY <1>1, <1>2, <1>3, <1>4, <1>5, <1>6, <1>7, <1>8, <1>9, <1>10, <1>17, <1>18, <1>19, <1>20
  DEF Next, Work, Start

\* No two tasks of a run are inside its session.
THEOREM SessionSafety == Spec => []SessionsAreSerial
<1>1. Serial => SessionsAreSerial
  BY DEF Serial
<1> QED
  BY <1>1, InitType, NextType, InitSerial, NextSerial, PTL DEF Spec

----------------------------------------------------------------------------

\* Whatever a resync works on has, or has lost with a cause, its upstream.
Caused ==
  /\ OrphansHaveCause
  /\ \A w \in Run, i \in Item : run[w] = "resync" /\ stage[w][i] # "none" => i[2] \in live \cup orphaned

LEMMA InitCaused == Init => Caused
BY DEF Init, Caused, OrphansHaveCause

\* Every step keeps a cause for each row without its upstream.
LEMMA NextCaused == TypeOK /\ Serial /\ Caused /\ [Next]_vars => Caused'
<1> SUFFICES ASSUME TypeOK, Serial, Caused, [Next]_vars PROVE Caused'
  OBVIOUS
<1> USE DEF TypeOK, Caused, OrphansHaveCause
<1>1. ASSUME NEW w \in Run, AnswerFanOut(w)
      PROVE  Caused'
  BY <1>1 DEF AnswerFanOut, Move
<1>2. ASSUME NEW w \in Run, Finish(w)
      PROVE  Caused'
  BY <1>2 DEF Finish, Move
<1>3. ASSUME NEW w \in Run, Leave(w)
      PROVE  Caused'
  BY <1>3 DEF Leave, Move
<1>4. ASSUME NEW w \in Run, NEW i \in Item, NEW a \in Answer, Check(w, i, a)
      PROVE  Caused'
  BY <1>4 DEF Check, Move
<1>5. ASSUME NEW w \in Run, NEW i \in Item, CommitLog(w, i)
      PROVE  Caused'
  BY <1>5 DEF CommitLog, Move
<1>6. ASSUME NEW w \in Run, NEW i \in Item, SelectRow(w, i)
      PROVE  Caused'
  <2>1. run[w] = "resync" /\ stage[w][i] # "none" /\ UNCHANGED <<run, live, cache, orphaned>>
    BY <1>6, Zenon DEF SelectRow
  <2>2. PICK t \in {"done", "reading"} : stage' = [stage EXCEPT ![w][i] = t]
    BY <1>6, Zenon DEF SelectRow, Move
  <2> QED
    BY <2>1, <2>2
<1>7. ASSUME NEW w \in Run, NEW i \in Item, Save(w, i)
      PROVE  Caused'
  BY <1>7 DEF Save, Move, Serial
<1>8. ASSUME NEW w \in Run, NEW i \in Item, Clear(w, i)
      PROVE  Caused'
  BY <1>8 DEF Clear, Move
<1>9. ASSUME NEW w \in Run, NEW i \in Item, Fail(w, i)
      PROVE  Caused'
  BY <1>9 DEF Fail, Move
<1>10. ASSUME NEW w \in Run, NEW i \in Item, Drop(w, i)
      PROVE  Caused'
  BY <1>10 DEF Drop, Move
<1>11. ASSUME NEW w \in Run, NEW kind \in Working, NEW I \in SUBSET Item, Begin(w, kind, I),
             kind = "resync" => \A k \in I : k[2] \in live
      PROVE  Caused'
  BY <1>11 DEF Begin, FirstStage
<1>12. ASSUME NEW u \in Name, Create(u)
      PROVE  Caused'
  BY <1>12 DEF Create, Edit
<1>13. ASSUME NEW u \in Name, NEW v \in Name, Rename(u, v)
      PROVE  Caused'
  BY <1>13 DEF Rename, Edit
<1>14. ASSUME NEW u \in Name, Delete(u)
      PROVE  Caused'
  <2>1. /\ live' = live \ {u} /\ UNCHANGED <<run, stage>>
        /\ orphaned \subseteq orphaned'
        /\ Resyncing(u) => u \in orphaned'
        /\ \A i \in Item : cache'[i] = IF i \in RowsOf(u) THEN NoUrl ELSE cache[i]
    BY <1>14 DEF Delete, Remove, Edit
  <2>2. ASSUME NEW i \in Item, i[2] = u PROVE i \in RowsOf(u)
    BY <2>2 DEF RowsOf, Item
  <2>3. ASSUME NEW w \in Run, NEW i \in Item, run[w] = "resync", stage[w][i] # "none", i[2] = u
        PROVE  Resyncing(u)
    BY <2>3 DEF Resyncing, Items, In, Stages
  <2> QED
    BY <2>1, <2>2, <2>3
<1>15. ASSUME NEW I \in SUBSET Item, Purge(I)
      PROVE  Caused'
  BY <1>15 DEF Purge, Remove, Edit
<1>16. ASSUME NEW U \in SUBSET Name, ClearLogs(U)
      PROVE  Caused'
  BY <1>16 DEF ClearLogs, Edit
<1>17. CASE UNCHANGED vars
  BY <1>17 DEF vars
<1>18. ASSUME NEW w \in Run, NEW u \in Name, NEW P \in SUBSET Pattern, Resync(w, u, P) PROVE Caused'
  <2>1. P \X {u} \in SUBSET Item
    BY DEF Item
  <2>2. \A k \in P \X {u} : k[2] = u
    OBVIOUS
  <2>3. Begin(w, "resync", P \X {u}) /\ u \in live
    BY <1>18 DEF Resync
  <2>4. "resync" \in Working /\ \A k \in P \X {u} : k[2] \in live
    BY <2>2, <2>3 DEF Working
  <2> HIDE DEF TypeOK
  <2> QED
    BY <1>11, <2>1, <2>3, <2>4
<1>19. ASSUME NEW w \in Run, NEW p \in Pattern, FanOut(w, p) PROVE Caused'
  <2>1. {p} \X live \in SUBSET Item
    BY DEF Item, TypeOK
  <2> QED
    BY <1>11, <1>19, <2>1 DEF FanOut, Working
<1>20. ASSUME Admin PROVE Caused'
  <2>1. ASSUME NEW I \in {Item} \cup {RowsOf(u) : u \in Name} \cup {{i} : i \in Item}, Purge(I)
        PROVE  Caused'
    <3>1. I \in SUBSET Item
      BY DEF RowsOf, Item
    <3> QED
      BY <1>15, <2>1, <3>1
  <2>2. ASSUME NEW U \in {Name} \cup {{u} : u \in Name}, ClearLogs(U) PROVE Caused'
    <3>1. U \in SUBSET Name
      OBVIOUS
    <3> QED
      BY <1>16, <2>2, <3>1
  <2> QED
    BY <1>12, <1>13, <1>14, <1>20, <2>1, <2>2 DEF Admin
<1> HIDE DEF TypeOK
<1> QED
  BY <1>1, <1>2, <1>3, <1>4, <1>5, <1>6, <1>7, <1>8, <1>9, <1>10, <1>17, <1>18, <1>19, <1>20
  DEF Next, Work, Start

\* A cached row without its upstream was left by a rename, or by a delete that a
\* running resync outlived.
THEOREM OrphanSafety == Spec => []OrphansHaveCause
<1>1. Caused => OrphansHaveCause
  BY DEF Caused
<1> QED
  BY <1>1, InitType, NextType, InitSerial, NextSerial, InitCaused, NextCaused, PTL DEF Spec

----------------------------------------------------------------------------

\* A check that has selected its log row still knows the count.
Counting ==
  /\ LogCountsChecks
  /\ \A w \in Run, i \in Item \ raced : stage[w][i] = "selected" => seen[w][i] = log[i]

LEMMA InitCounting == Init => Counting
BY DEF Init, Counting, LogCountsChecks

\* Every step keeps the counts of the rows nobody raced for.
LEMMA NextCounting == TypeOK /\ Counting /\ [Next]_vars => Counting'
<1> SUFFICES ASSUME TypeOK, Counting, [Next]_vars PROVE Counting'
  OBVIOUS
<1> USE DEF TypeOK, Counting, LogCountsChecks
<1>1. ASSUME NEW w \in Run, AnswerFanOut(w)
      PROVE  Counting'
  BY <1>1 DEF AnswerFanOut, Move, Forget
<1>2. ASSUME NEW w \in Run, Finish(w)
      PROVE  Counting'
  BY <1>2 DEF Finish, Move, Forget
<1>3. ASSUME NEW w \in Run, Leave(w)
      PROVE  Counting'
  BY <1>3 DEF Leave, Move, Forget
<1>4. ASSUME NEW w \in Run, NEW i \in Item, NEW a \in Answer, Check(w, i, a)
      PROVE  Counting'
  BY <1>4 DEF Check, Move, Forget
<1>5. ASSUME NEW w \in Run, NEW i \in Item, CommitLog(w, i)
      PROVE  Counting'
  BY <1>5 DEF CommitLog, Move, Forget, Counted, LogInUse
<1>6. ASSUME NEW w \in Run, NEW i \in Item, SelectRow(w, i)
      PROVE  Counting'
  <2>1. UNCHANGED <<log, checks, raced>>
    BY <1>6, Zenon DEF SelectRow
  <2>3. PICK n \in Nat : seen' = seen \/ seen' = [seen EXCEPT ![w][i] = n]
    <3>1. CASE cache[i] = NoUrl
      BY <1>6, <3>1, Zenon DEF SelectRow
    <3>2. CASE cache[i] # NoUrl
      BY <1>6, <3>2, Zenon DEF SelectRow
    <3> QED
      BY <3>1, <3>2
  <2>2. PICK t \in {"done", "reading"} : stage' = [stage EXCEPT ![w][i] = t]
    BY <1>6, Zenon DEF SelectRow, Move
  <2> QED
    BY <2>1, <2>2, <2>3
<1>7. ASSUME NEW w \in Run, NEW i \in Item, Save(w, i)
      PROVE  Counting'
  BY <1>7 DEF Save, Move, Forget
<1>8. ASSUME NEW w \in Run, NEW i \in Item, Clear(w, i)
      PROVE  Counting'
  BY <1>8 DEF Clear, Move, Forget
<1>9. ASSUME NEW w \in Run, NEW i \in Item, Fail(w, i)
      PROVE  Counting'
  BY <1>9 DEF Fail, Move, Forget
<1>10. ASSUME NEW w \in Run, NEW i \in Item, Drop(w, i)
      PROVE  Counting'
  BY <1>10 DEF Drop, Move, Forget
<1>11. ASSUME NEW w \in Run, NEW kind \in Working, NEW I \in SUBSET Item, Begin(w, kind, I)
      PROVE  Counting'
  BY <1>11 DEF Begin, FirstStage
<1>12. ASSUME NEW u \in Name, Create(u)
      PROVE  Counting'
  BY <1>12 DEF Create, Edit
<1>13. ASSUME NEW u \in Name, NEW v \in Name, Rename(u, v)
      PROVE  Counting'
  BY <1>13 DEF Rename, Edit
<1>14. ASSUME NEW u \in Name, Delete(u)
      PROVE  Counting'
  BY <1>14 DEF Delete, Remove, Edit
<1>15. ASSUME NEW I \in SUBSET Item, Purge(I)
      PROVE  Counting'
  BY <1>15 DEF Purge, Remove, Edit
<1>16. ASSUME NEW U \in SUBSET Name, ClearLogs(U)
      PROVE  Counting'
  BY <1>16 DEF ClearLogs, Edit, LogInUse
<1>17. CASE UNCHANGED vars
  BY <1>17 DEF vars
<1>18. ASSUME NEW w \in Run, NEW u \in Name, NEW P \in SUBSET Pattern, Resync(w, u, P) PROVE Counting'
  <2>1. P \X {u} \in SUBSET Item
    BY DEF Item
  <2>2. \A k \in P \X {u} : k[2] = u
    OBVIOUS
  <2>3. Begin(w, "resync", P \X {u}) /\ u \in live
    BY <1>18 DEF Resync
  <2>4. "resync" \in Working /\ \A k \in P \X {u} : k[2] \in live
    BY <2>2, <2>3 DEF Working
  <2> HIDE DEF TypeOK
  <2> QED
    BY <1>11, <2>1, <2>3, <2>4
<1>19. ASSUME NEW w \in Run, NEW p \in Pattern, FanOut(w, p) PROVE Counting'
  <2>1. {p} \X live \in SUBSET Item
    BY DEF Item, TypeOK
  <2> QED
    BY <1>11, <1>19, <2>1 DEF FanOut, Working
<1>20. ASSUME Admin PROVE Counting'
  <2>1. ASSUME NEW I \in {Item} \cup {RowsOf(u) : u \in Name} \cup {{i} : i \in Item}, Purge(I)
        PROVE  Counting'
    <3>1. I \in SUBSET Item
      BY DEF RowsOf, Item
    <3> QED
      BY <1>15, <2>1, <3>1
  <2>2. ASSUME NEW U \in {Name} \cup {{u} : u \in Name}, ClearLogs(U) PROVE Counting'
    <3>1. U \in SUBSET Name
      OBVIOUS
    <3> QED
      BY <1>16, <2>2, <3>1
  <2> QED
    BY <1>12, <1>13, <1>14, <1>20, <2>1, <2>2 DEF Admin
<1> HIDE DEF TypeOK
<1> QED
  BY <1>1, <1>2, <1>3, <1>4, <1>5, <1>6, <1>7, <1>8, <1>9, <1>10, <1>17, <1>18, <1>19, <1>20
  DEF Next, Work, Start

\* A log row that no two runs raced for counts every check.
THEOREM LogSafety == Spec => []LogCountsChecks
<1>1. Counting => LogCountsChecks
  BY DEF Counting
<1> QED
  BY <1>1, InitType, NextType, InitCounting, NextCounting, PTL DEF Spec

----------------------------------------------------------------------------

\* What the check of an item says its row should be.
Expected(w, i) == IF verdict[w][i] = "absent" THEN NoUrl ELSE verdict[w][i]

\* The item at its SELECT still knows whether there is a row; a done one is as
\* the check found it; in both cases unless somebody else changed the row.
Settled(w, i) ==
  /\ stage[w][i] = "reading" => /\ verdict[w][i] # "skipped"
                                /\ seen[w][i] \in {0, 1}
                                /\ i \notin foreign[w] => (seen[w][i] = 0) = (cache[i] = NoUrl)
  /\ stage[w][i] = "done" /\ i \notin foreign[w] /\ verdict[w][i] # "skipped" => cache[i] = Expected(w, i)
  /\ run[w] = "finished" => stage[w][i] \in {"none", "done"}

LastWord == \A w \in Run, i \in Item : run[w] \in {"resync", "finished"} => Settled(w, i)

\* A row that changes is noted by every other run that has it.
LEMMA OthersChanged ==
  ASSUME TypeOK, NEW w \in Run, NEW i \in Item, Changed({i}, Run \ {w})
  PROVE  /\ foreign'[w] = foreign[w]
         /\ \A v \in Run : foreign[v] \subseteq foreign'[v]
         /\ \A v \in Run \ {w} : stage[v][i] # "none" => i \in foreign'[v]
BY DEF TypeOK, Changed, Items, In, Stages

LEMMA InitLastWord == Init => LastWord
BY DEF Init, LastWord, Settled

\* Every step keeps what resyncs have settled.
LEMMA NextLastWord == TypeOK /\ Serial /\ LastWord /\ [Next]_vars => LastWord'
<1> SUFFICES ASSUME TypeOK, Serial, LastWord, [Next]_vars PROVE LastWord'
  OBVIOUS
<1> USE DEF TypeOK, LastWord, Settled, Expected
<1>1. ASSUME NEW w \in Run, AnswerFanOut(w)
      PROVE  LastWord'
  BY <1>1 DEF AnswerFanOut, Move, Forget
<1>2. ASSUME NEW w \in Run, Finish(w)
      PROVE  LastWord'
  BY <1>2 DEF Finish, Items, In, Stages
<1>3. ASSUME NEW w \in Run, Leave(w)
      PROVE  LastWord'
  BY <1>3 DEF Leave, Move, Forget
<1>4. ASSUME NEW w \in Run, NEW i \in Item, NEW a \in Answer, Check(w, i, a)
      PROVE  LastWord'
  BY <1>4 DEF Check, Move, Forget
<1>5. ASSUME NEW w \in Run, NEW i \in Item, CommitLog(w, i)
      PROVE  LastWord'
  BY <1>5 DEF CommitLog, Move, Forget, Counted, LogInUse
<1>6. ASSUME NEW w \in Run, NEW i \in Item, SelectRow(w, i)
      PROVE  LastWord'
  <2>1. UNCHANGED <<run, cache, verdict, foreign>> /\ run[w] = "resync"
    BY <1>6, Zenon DEF SelectRow
  <2>2. CASE verdict[w][i] = "skipped"
    <3>1. stage' = [stage EXCEPT ![w][i] = "done"] /\ seen' = seen
      BY <1>6, <2>2, Zenon DEF SelectRow, Move
    <3> QED
      BY <2>1, <2>2, <3>1
  <2>3. CASE verdict[w][i] # "skipped"
    <3>1. stage' = [stage EXCEPT ![w][i] = "reading"]
      BY <1>6, <2>3, Zenon DEF SelectRow, Move
    <3>2. CASE cache[i] = NoUrl
      <4>1. seen' = [seen EXCEPT ![w][i] = 0]
        BY <1>6, <2>3, <3>2, Zenon DEF SelectRow
      <4> QED
        BY <2>1, <2>3, <3>1, <3>2, <4>1
    <3>3. CASE cache[i] # NoUrl
      <4>1. seen' = [seen EXCEPT ![w][i] = 1]
        BY <1>6, <2>3, <3>3, Zenon DEF SelectRow
      <4> QED
        BY <2>1, <2>3, <3>1, <3>3, <4>1
    <3> QED
      BY <3>2, <3>3
  <2> QED
    BY <2>2, <2>3
<1>7. ASSUME NEW w \in Run, NEW i \in Item, Save(w, i)
      PROVE  LastWord'
  <2>1. /\ foreign'[w] = foreign[w]
        /\ \A v \in Run : foreign[v] \subseteq foreign'[v]
        /\ \A v \in Run \ {w} : stage[v][i] # "none" => i \in foreign'[v]
    BY <1>7, OthersChanged DEF Save
  <2> QED
    BY <1>7, <2>1, VerdictAssumption DEF Save, Move, Forget
<1>8. ASSUME NEW w \in Run, NEW i \in Item, Clear(w, i)
      PROVE  LastWord'
  <2>1. CASE Stored(w, i)
    <3>1. /\ foreign'[w] = foreign[w]
          /\ \A v \in Run : foreign[v] \subseteq foreign'[v]
          /\ \A v \in Run \ {w} : stage[v][i] # "none" => i \in foreign'[v]
      BY <1>8, <2>1, OthersChanged DEF Clear
    <3> QED
      BY <1>8, <2>1, <3>1 DEF Clear, Move, Forget
  <2>2. CASE ~ Stored(w, i)
    BY <1>8, <2>2 DEF Clear, Stored, Move, Forget
  <2> QED
    BY <2>1, <2>2
<1>9. ASSUME NEW w \in Run, NEW i \in Item, Fail(w, i)
      PROVE  LastWord'
  BY <1>9 DEF Fail, Move, Forget
<1>10. ASSUME NEW w \in Run, NEW i \in Item, Drop(w, i)
      PROVE  LastWord'
  BY <1>10 DEF Drop, Move, Forget
<1>11. ASSUME NEW w \in Run, NEW kind \in Working, NEW I \in SUBSET Item, Begin(w, kind, I)
      PROVE  LastWord'
  BY <1>11 DEF Begin, FirstStage, Working
<1>12. ASSUME NEW u \in Name, Create(u)
      PROVE  LastWord'
  BY <1>12 DEF Create, Edit
<1>13. ASSUME NEW u \in Name, NEW v \in Name, Rename(u, v)
      PROVE  LastWord'
  BY <1>13 DEF Rename, Edit
<1>14. ASSUME NEW u \in Name, Delete(u)
      PROVE  LastWord'
  <2>1. \A v \in Run : /\ foreign[v] \subseteq foreign'[v]
                       /\ \A i \in RowsOf(u) : stage[v][i] # "none" => i \in foreign'[v]
    <3>1. RowsOf(u) \in SUBSET Item /\ Changed(RowsOf(u), Run)
      BY <1>14 DEF Delete, Remove, RowsOf, Item
    <3> HIDE DEF TypeOK
    <3> QED
      BY <3>1, ChangedType
  <2> QED
    BY <1>14, <2>1 DEF Delete, Remove, Edit
<1>15. ASSUME NEW I \in SUBSET Item, Purge(I)
      PROVE  LastWord'
  <2>1. \A v \in Run : /\ foreign[v] \subseteq foreign'[v]
                       /\ \A i \in I : stage[v][i] # "none" => i \in foreign'[v]
    BY <1>15, ChangedType DEF Purge, Remove
  <2> QED
    BY <1>15, <2>1 DEF Purge, Remove, Edit
<1>16. ASSUME NEW U \in SUBSET Name, ClearLogs(U)
      PROVE  LastWord'
  BY <1>16 DEF ClearLogs, Edit
<1>17. CASE UNCHANGED vars
  BY <1>17 DEF vars
<1>18. ASSUME NEW w \in Run, NEW u \in Name, NEW P \in SUBSET Pattern, Resync(w, u, P) PROVE LastWord'
  <2>1. P \X {u} \in SUBSET Item
    BY DEF Item
  <2>2. \A k \in P \X {u} : k[2] = u
    OBVIOUS
  <2>3. Begin(w, "resync", P \X {u}) /\ u \in live
    BY <1>18 DEF Resync
  <2>4. "resync" \in Working /\ \A k \in P \X {u} : k[2] \in live
    BY <2>2, <2>3 DEF Working
  <2> HIDE DEF TypeOK
  <2> QED
    BY <1>11, <2>1, <2>3, <2>4
<1>19. ASSUME NEW w \in Run, NEW p \in Pattern, FanOut(w, p) PROVE LastWord'
  <2>1. {p} \X live \in SUBSET Item
    BY DEF Item, TypeOK
  <2> QED
    BY <1>11, <1>19, <2>1 DEF FanOut, Working
<1>20. ASSUME Admin PROVE LastWord'
  <2>1. ASSUME NEW I \in {Item} \cup {RowsOf(u) : u \in Name} \cup {{i} : i \in Item}, Purge(I)
        PROVE  LastWord'
    <3>1. I \in SUBSET Item
      BY DEF RowsOf, Item
    <3> QED
      BY <1>15, <2>1, <3>1
  <2>2. ASSUME NEW U \in {Name} \cup {{u} : u \in Name}, ClearLogs(U) PROVE LastWord'
    <3>1. U \in SUBSET Name
      OBVIOUS
    <3> QED
      BY <1>16, <2>2, <3>1
  <2> QED
    BY <1>12, <1>13, <1>14, <1>20, <2>1, <2>2 DEF Admin
<1> HIDE DEF TypeOK
<1> QED
  BY <1>1, <1>2, <1>3, <1>4, <1>5, <1>6, <1>7, <1>8, <1>9, <1>10, <1>17, <1>18, <1>19, <1>20
  DEF Next, Work, Start

\* A finished resync has had the last word on every row nobody else changed.
THEOREM LastWordSafety == Spec => []ResyncHasLastWord
<1>1. TypeOK /\ LastWord => ResyncHasLastWord
  BY DEF TypeOK, LastWord, Settled, Expected, ResyncHasLastWord, Items, In, Stages
<1> QED
  BY <1>1, InitType, NextType, InitSerial, NextSerial, InitLastWord, NextLastWord, PTL DEF Spec

----------------------------------------------------------------------------

\* What is left of a failed run is under way, and writes no cache.
Leaving ==
  \A w \in Run : run[w] = "failed" =>
    \A i \in Item : stage[w][i] \in {"none", "http", "selected", "done"}

LEMMA InitLeaving == Init => Leaving
BY DEF Init, Leaving

\* Every step keeps that.
LEMMA NextLeaving == TypeOK /\ Leaving /\ [Next]_vars => Leaving'
<1> SUFFICES ASSUME TypeOK, Leaving, [Next]_vars PROVE Leaving'
  OBVIOUS
<1>0. run \in [Run -> {"idle", "answered", "finished", "failed"} \cup Working]
      /\ stage \in [Run -> [Item -> Stages]]
  BY DEF TypeOK
<1> USE DEF Leaving, Move
<1>1. ASSUME UNCHANGED <<run, stage>> PROVE Leaving'
  BY <1>1
<1>2. ASSUME NEW w \in Run, AnswerFanOut(w) \/ Finish(w) \/ Leave(w) PROVE Leaving'
  BY <1>0, <1>2 DEF AnswerFanOut, Finish, Leave
<1>3. ASSUME NEW w \in Run, NEW i \in Item, NEW a \in Answer, Check(w, i, a) PROVE Leaving'
  BY <1>0, <1>3 DEF Check
<1>4. ASSUME NEW w \in Run, NEW i \in Item, CommitLog(w, i) PROVE Leaving'
  BY <1>0, <1>4 DEF CommitLog
<1>5. ASSUME NEW w \in Run, NEW i \in Item, SelectRow(w, i) PROVE Leaving'
  <2>1. run[w] = "resync" /\ run' = run /\ \E t \in Stages : stage' = [stage EXCEPT ![w][i] = t]
    BY <1>5, Zenon DEF SelectRow, Stages
  <2> QED
    BY <1>0, <2>1
<1>6. ASSUME NEW w \in Run, NEW i \in Item, Save(w, i) \/ Clear(w, i) \/ Drop(w, i) PROVE Leaving'
  BY <1>0, <1>6 DEF Save, Clear, Drop
<1>7. ASSUME NEW w \in Run, NEW i \in Item, Fail(w, i) PROVE Leaving'
  BY <1>0, <1>7 DEF Fail
<1>8. ASSUME NEW w \in Run, NEW kind \in Working, NEW I, Begin(w, kind, I) PROVE Leaving'
  BY <1>0, <1>8 DEF Begin, Working
<1>9. ASSUME NEW w \in Run, Start(w) PROVE Leaving'
  BY <1>8, <1>9 DEF Start, Resync, FanOut, Working
<1>10. ASSUME Admin PROVE Leaving'
  BY <1>1, <1>10 DEF Admin, Create, Rename, Delete, Purge, ClearLogs, Edit
<1>11. CASE UNCHANGED vars
  BY <1>1, <1>11 DEF vars
<1> QED
  BY <1>2, <1>3, <1>4, <1>5, <1>6, <1>7, <1>9, <1>10, <1>11 DEF Next, Work

\* With no task in the session, whoever is next for it is at the database.
LEMMA CanProceed == TypeOK /\ Leaving => RunsCanProceed
<1> SUFFICES ASSUME TypeOK, Leaving, NEW w \in Run,
                    run[w] \notin {"idle", "answered", "finished"},
                    ~ (run[w] = "fanout" /\ Checked(w)), Items(w) # In(w, {"done"}),
                    \A i \in Item : ~ AtDatabase(w, i)
             PROVE  FALSE
  BY DEF RunsCanProceed
<1>1. run[w] \in {"resync", "fanout", "failed"} /\ \A i \in Item : stage[w][i] \in Stages
  BY DEF TypeOK, Working
<1>2. Unlocked(w)
  BY DEF Unlocked, In, AtDatabase
<1>3. \A i \in Item : stage[w][i] \in {"none", "ready", "done"}
  BY <1>1, <1>2 DEF AtDatabase, InSession, Stages
<1>4. Checked(w)
  BY <1>3 DEF Checked, Items, In, Stages
<1>5. PICK i \in Item : stage[w][i] = "ready"
  BY <1>3 DEF Items, In, Stages
<1>6. run[w] = "resync"
  BY <1>1, <1>4, <1>5 DEF Leaving
<1> QED
  BY <1>2, <1>4, <1>5, <1>6 DEF AtDatabase

\* No run waits for ever: the lock of its session is never held by nobody.
THEOREM ProgressSafety == Spec => []RunsCanProceed
BY InitType, NextType, InitLeaving, NextLeaving, CanProceed, PTL DEF Spec

=============================================================================
