----------------------------- MODULE Jobs_proof -----------------------------
(* Proofs about Jobs for every set of jobs and cancel requests, for both   *)
(* backends.                                                               *)
EXTENDS Jobs, TLAPS

USE DEF server, rows, work

\* Init establishes the types.
LEMMA InitType == Init => TypeOK
BY BoundAssumption DEF Init, TypeOK, Status

\* Every step keeps every variable within its type.
LEMMA NextType == TypeOK /\ [Next]_vars => TypeOK'
<1> SUFFICES ASSUME TypeOK, [Next]_vars PROVE TypeOK'
  OBVIOUS
<1> USE BoundAssumption
    DEF TypeOK, Status, Active, Terminal, Executing, Deciding, Cancelling
<1>1. ASSUME NEW j \in Job, Enqueue(j) PROVE TypeOK'
  BY <1>1 DEF Enqueue
<1>2. ASSUME NEW j \in Job, HandOver(j) PROVE TypeOK'
  BY <1>2 DEF HandOver
<1>3. ASSUME NEW j \in Job, Deliver(j) PROVE TypeOK'
  BY <1>3 DEF Deliver
<1>4. ASSUME NEW j \in Job, Fetch(j) PROVE TypeOK'
  BY <1>4 DEF Fetch, Onward, End
<1>5. ASSUME NEW j \in Job, MarkRunning(j) PROVE TypeOK'
  BY <1>5 DEF MarkRunning, Onward, End, Saved
<1>6. ASSUME NEW j \in Job, Progress(j) PROVE TypeOK'
  BY <1>6 DEF Progress, Onward, End
<1>7. ASSUME NEW j \in Job, Succeed(j) PROVE TypeOK'
  BY <1>7 DEF Succeed, End, Saved
<1>8. ASSUME NEW j \in Job, Fail(j) PROVE TypeOK'
  BY <1>8 DEF Fail, End, Saved
<1>9. ASSUME NEW j \in Job, Unwind(j) PROVE TypeOK'
  BY <1>9 DEF Unwind, End
<1>10. ASSUME NEW j \in Job, Raise(j) PROVE TypeOK'
  BY <1>10 DEF Raise, Onward, End
<1>11. ASSUME NEW j \in Job, HandOverFails(j) PROVE TypeOK'
  BY <1>11 DEF HandOverFails, Fault
<1>12. ASSUME NEW j \in Job, StoreFails(j) PROVE TypeOK'
  BY <1>12 DEF StoreFails, Fault, End
<1>13. ASSUME NEW j \in Job, Timeout(j) PROVE TypeOK'
  BY <1>13 DEF Timeout, Fault, End
<1>14. ASSUME NEW j \in Job, WorkerDies(j) PROVE TypeOK'
  BY <1>14 DEF WorkerDies, Fault
<1>15. ASSUME NEW c \in Canceller, NEW j \in Job, Ask(c, j) PROVE TypeOK'
  BY <1>15 DEF Ask, To
<1>16. ASSUME NEW c \in Canceller, NEW j \in Job, Pop(c, j) PROVE TypeOK'
  BY <1>16 DEF Pop, To
<1>17. ASSUME NEW c \in Canceller, NEW j \in Job, LookAgain(c, j) PROVE TypeOK'
  <2>1. PICK s \in {"idle", "writing", "sealing"} : cancel' = [cancel EXCEPT ![c][j] = s]
    BY <1>17, Zenon DEF LookAgain, To
  <2>2. cancel' \in [Canceller -> [Job -> {"idle"} \cup Cancelling]]
    BY <2>1
  <2> QED
    BY <1>17, <2>2 DEF LookAgain
<1>18. ASSUME NEW c \in Canceller, NEW j \in Job, MarkCancelled(c, j) PROVE TypeOK'
  BY <1>18 DEF MarkCancelled, To
<1>19. ASSUME NEW c \in Canceller, NEW j \in Job, CancelFails(c, j) PROVE TypeOK'
  BY <1>19 DEF CancelFails, Fault, To
<1>20. ASSUME Shutdown PROVE TypeOK'
  BY <1>20 DEF Shutdown, Quiet
<1>21. ASSUME Crash PROVE TypeOK'
  BY <1>21 DEF Crash
<1>22. ASSUME Exit PROVE TypeOK'
  BY <1>22 DEF Exit
<1>23. ASSUME Boot PROVE TypeOK'
  BY <1>23 DEF Boot, StaleRows
<1>24. ASSUME Reap PROVE TypeOK'
  BY <1>24 DEF Reap
<1>25. ASSUME ReapFails PROVE TypeOK'
  BY <1>25 DEF ReapFails, Fault
<1>26. CASE UNCHANGED vars
  BY <1>26 DEF vars
<1> HIDE DEF TypeOK
<1> QED
  BY <1>1, <1>2, <1>3, <1>4, <1>5, <1>6, <1>7, <1>8, <1>9, <1>10, <1>11, <1>12, <1>13, <1>14,
     <1>15, <1>16, <1>17, <1>18, <1>19, <1>20, <1>21, <1>22, <1>23, <1>24, <1>25, <1>26
  DEF Next, Execute, Interrupt, Cancel, Lifespan

\* Type correctness of the specification.
THEOREM TypeCorrect == Spec => []TypeOK
BY InitType, NextType, PTL DEF Spec

\* Only a task of this process is waited for, and it was handed over long ago.
Handles ==
  /\ arq => tasks = {} /\ stopping = {}
  /\ \A j \in sending : status[j] # "absent"
  /\ \A j \in tasks : status[j] # "absent" /\ j \notin sending
  /\ \A c \in Canceller, j \in Job :
       cancel[c][j] \in {"waiting", "sealing"} =>
         ~arq /\ status[j] # "absent" /\ j \notin sending

\* No task runs initially.
LEMMA InitHandles == Init => Handles /\ TaskGoneBeforeVerdict
BY DEF Init, Handles, TaskGoneBeforeVerdict

\* Every step keeps the tasks behind cancel requests gone or on their way out.
LEMMA NextHandles ==
  TypeOK /\ Handles /\ TaskGoneBeforeVerdict /\ [Next]_vars => (Handles /\ TaskGoneBeforeVerdict)'
<1> DEFINE Goal == Handles /\ TaskGoneBeforeVerdict
<1> SUFFICES ASSUME TypeOK, Goal, [Next]_vars PROVE Goal'
  OBVIOUS
<1> USE DEF TypeOK, Handles, TaskGoneBeforeVerdict, Active, Executing, Deciding
<1>1. ASSUME NEW j \in Job, Enqueue(j) PROVE Goal'
  BY <1>1 DEF Enqueue
<1>2. ASSUME NEW j \in Job, HandOver(j) PROVE Goal'
  <2>1. CASE arq
    BY <1>2, <2>1 DEF HandOver
  <2>2. CASE ~arq
    BY <1>2, <2>2 DEF HandOver
  <2> QED
    BY <2>1, <2>2
<1>3. ASSUME NEW j \in Job, Deliver(j) PROVE Goal'
  BY <1>3 DEF Deliver
<1>4. ASSUME NEW j \in Job, Fetch(j) PROVE Goal'
  BY <1>4 DEF Fetch, Onward, End
<1>5. ASSUME NEW j \in Job, MarkRunning(j) PROVE Goal'
  BY <1>5 DEF MarkRunning, Onward, End, Saved
<1>6. ASSUME NEW j \in Job, Progress(j) PROVE Goal'
  BY <1>6 DEF Progress, Onward, End
<1>7. ASSUME NEW j \in Job, Succeed(j) PROVE Goal'
  BY <1>7 DEF Succeed, End, Saved
<1>8. ASSUME NEW j \in Job, Fail(j) PROVE Goal'
  BY <1>8 DEF Fail, End, Saved
<1>9. ASSUME NEW j \in Job, Unwind(j) PROVE Goal'
  BY <1>9 DEF Unwind, End
<1>10. ASSUME NEW j \in Job, Raise(j) PROVE Goal'
  BY <1>10 DEF Raise, Onward, End
<1>11. ASSUME NEW j \in Job, HandOverFails(j) PROVE Goal'
  BY <1>11 DEF HandOverFails, Fault
<1>12. ASSUME NEW j \in Job, StoreFails(j) PROVE Goal'
  BY <1>12 DEF StoreFails, Fault, End
<1>13. ASSUME NEW j \in Job, Timeout(j) PROVE Goal'
  BY <1>13 DEF Timeout, Fault, End
<1>14. ASSUME NEW j \in Job, WorkerDies(j) PROVE Goal'
  BY <1>14 DEF WorkerDies, Fault
<1>15. ASSUME NEW c \in Canceller, NEW j \in Job, Ask(c, j) PROVE Goal'
  BY <1>15 DEF Ask, To
<1>16. ASSUME NEW c \in Canceller, NEW j \in Job, Pop(c, j) PROVE Goal'
  BY <1>16 DEF Pop, To
<1>17. ASSUME NEW c \in Canceller, NEW j \in Job, LookAgain(c, j) PROVE Goal'
  <2>1. UNCHANGED <<server, rows, sending, work>>
    BY <1>17 DEF LookAgain
  <2>2. cancel[c][j] \in {"alone", "waiting"} /\ (cancel[c][j] = "waiting" => at[j] = "none")
    BY <1>17 DEF LookAgain, Gone
  <2>3. PICK s \in {"idle", "writing", "sealing"} :
          To(c, j, s) /\ (s = "sealing" => cancel[c][j] = "waiting")
    BY <1>17 DEF LookAgain
  <2>4. \A d \in Canceller, i \in Job :
          cancel'[d][i] = cancel[d][i] \/ (d = c /\ i = j /\ cancel'[d][i] = s)
    BY <2>3 DEF To
  <2>5. TaskGoneBeforeVerdict'
    BY <2>1, <2>2, <2>3, <2>4
  <2>6. Handles'
    <3>1. arq => tasks' = {} /\ stopping' = {}
      BY <2>1
    <3>2. \A d \in Canceller, i \in Job :
            cancel'[d][i] \in {"waiting", "sealing"} => cancel[d][i] \in {"waiting", "sealing"}
      BY <2>2, <2>3, <2>4
    <3> QED
      BY <2>1, <3>1, <3>2
  <2> QED
    BY <2>5, <2>6
<1>18. ASSUME NEW c \in Canceller, NEW j \in Job, MarkCancelled(c, j) PROVE Goal'
  BY <1>18 DEF MarkCancelled, To
<1>19. ASSUME NEW c \in Canceller, NEW j \in Job, CancelFails(c, j) PROVE Goal'
  BY <1>19 DEF CancelFails, Fault, To
<1>20. ASSUME Shutdown PROVE Goal'
  BY <1>20 DEF Shutdown, Quiet
<1>21. ASSUME Crash PROVE Goal'
  BY <1>21 DEF Crash
<1>22. ASSUME Exit PROVE Goal'
  BY <1>22 DEF Exit
<1>23. ASSUME Boot PROVE Goal'
  BY <1>23 DEF Boot, StaleRows
<1>24. ASSUME Reap PROVE Goal'
  BY <1>24 DEF Reap
<1>25. ASSUME ReapFails PROVE Goal'
  BY <1>25 DEF ReapFails, Fault
<1>26. CASE UNCHANGED vars
  BY <1>26 DEF vars
<1> HIDE DEF Goal, TypeOK
<1> QED
  BY <1>1, <1>2, <1>3, <1>4, <1>5, <1>6, <1>7, <1>8, <1>9, <1>10, <1>11, <1>12, <1>13, <1>14,
     <1>15, <1>16, <1>17, <1>18, <1>19, <1>20, <1>21, <1>22, <1>23, <1>24, <1>25, <1>26
  DEF Next, Execute, Interrupt, Cancel, Lifespan

\* A cancel never races the task it popped.
THEOREM CancelSafety == Spec => []TaskGoneBeforeVerdict
BY TypeCorrect, InitHandles, NextHandles, PTL DEF Spec

\* Somebody, or a fault, accounts for j.
Attended(j) ==
  \/ j \in sending \/ j \in broker \/ at[j] # "none" \/ j \in broken
  \/ \E c \in Canceller : cancel[c][j] # "idle"

Custody ==
  /\ api \in {"up", "reaping"} =>
       \A j \in Job : status[j] \in Active => Attended(j) \/ j \in doomed
  /\ api = "up" => doomed = {}
  /\ api # "up" => sending = {} /\ \A c \in Canceller, j \in Job : cancel[c][j] = "idle"
  /\ arq => tasks = {} /\ stopping = {} /\ \A j \in Job : at[j] # "none" => j \in broker
  /\ \A j \in tasks \cup stopping : at[j] # "none"
  /\ api = "closing" => stopping \subseteq tasks
  /\ api \in {"down", "reaping"} => stopping = {} /\ tasks = {}
  /\ api = "up" => \A j \in stopping : \E c \in Canceller : cancel[c][j] = "waiting"
  /\ \A j \in Job : at[j] \in Executing /\ seen[j] \in Terminal => status[j] \in Terminal
  /\ \A j \in Job : at[j] = "starting" => seen[j] \in Active

\* Nothing needs attention initially.
LEMMA InitCustody == Init => Custody
BY DEF Init, Custody, Active, Terminal, Executing

\* Every step leaves each unfinished row with somebody to finish it.
LEMMA NextCustody == TypeOK /\ Custody /\ [Next]_vars => Custody'
<1> SUFFICES ASSUME TypeOK, Custody, [Next]_vars PROVE Custody'
  OBVIOUS
<1> USE DEF TypeOK, Custody, Attended, Active, Terminal, Executing, Deciding
<1>1. ASSUME NEW j \in Job, Enqueue(j) PROVE Custody'
  BY <1>1 DEF Enqueue
<1>2. ASSUME NEW j \in Job, HandOver(j) PROVE Custody'
  <2>1. CASE arq
    BY <1>2, <2>1 DEF HandOver
  <2>2. CASE ~arq
    BY <1>2, <2>2 DEF HandOver
  <2> QED
    BY <2>1, <2>2
<1>3. ASSUME NEW j \in Job, Deliver(j) PROVE Custody'
  BY <1>3 DEF Deliver
<1>4. ASSUME NEW j \in Job, Fetch(j) PROVE Custody'
  BY <1>4 DEF Fetch, Onward, End
<1>5. ASSUME NEW j \in Job, MarkRunning(j) PROVE Custody'
  BY <1>5 DEF MarkRunning, Onward, End, Saved
<1>6. ASSUME NEW j \in Job, Progress(j) PROVE Custody'
  BY <1>6 DEF Progress, Onward, End
<1>7. ASSUME NEW j \in Job, Succeed(j) PROVE Custody'
  BY <1>7 DEF Succeed, End, Saved
<1>8. ASSUME NEW j \in Job, Fail(j) PROVE Custody'
  BY <1>8 DEF Fail, End, Saved
<1>9. ASSUME NEW j \in Job, Unwind(j) PROVE Custody'
  BY <1>9 DEF Unwind, End
<1>10. ASSUME NEW j \in Job, Raise(j) PROVE Custody'
  BY <1>10 DEF Raise, Onward, End
<1>11. ASSUME NEW j \in Job, HandOverFails(j) PROVE Custody'
  BY <1>11 DEF HandOverFails, Fault
<1>12. ASSUME NEW j \in Job, StoreFails(j) PROVE Custody'
  BY <1>12 DEF StoreFails, Fault, End
<1>13. ASSUME NEW j \in Job, Timeout(j) PROVE Custody'
  BY <1>13 DEF Timeout, Fault, End
<1>14. ASSUME NEW j \in Job, WorkerDies(j) PROVE Custody'
  BY <1>14 DEF WorkerDies, Fault
<1>15. ASSUME NEW c \in Canceller, NEW j \in Job, Ask(c, j) PROVE Custody'
  BY <1>15 DEF Ask, To
<1>16. ASSUME NEW c \in Canceller, NEW j \in Job, Pop(c, j) PROVE Custody'
  <2>1. CASE j \in tasks
    <3>1. cancel'[c][j] = "waiting" /\ api = "up"
      BY <1>16, <2>1 DEF Pop, To
    <3>2. /\ tasks' = tasks \ {j} /\ stopping' = stopping \cup {j}
          /\ UNCHANGED <<api, status, done, sending, at, seen, broker, doomed, broken>>
      BY <1>16, <2>1 DEF Pop, rows
    <3>3. \A d \in Canceller, i \in Job : i # j => cancel'[d][i] = cancel[d][i]
      BY <1>16, <2>1 DEF Pop, To
    <3>4. ASSUME NEW i \in stopping' PROVE \E d \in Canceller : cancel'[d][i] = "waiting"
      <4>1. CASE i = j
        BY <4>1, <3>1
      <4>2. CASE i # j
        <5>1. PICK d \in Canceller : cancel[d][i] = "waiting"
          BY <4>2, <3>1, <3>2
        <5> QED
          BY <5>1, <4>2, <3>2, <3>3
      <4> QED
        BY <4>1, <4>2
    <3>5. \A i \in Job : Attended(i) => Attended(i)'
      <4>1. ASSUME NEW i \in Job, i = j PROVE Attended(i)'
        BY <4>1, <3>1
      <4>2. ASSUME NEW i \in Job, i # j, Attended(i) PROVE Attended(i)'
        <5>1. CASE \E d \in Canceller : cancel[d][i] # "idle"
          <6>1. PICK d \in Canceller : cancel[d][i] # "idle"
            BY <5>1
          <6>2. cancel'[d][i] # "idle"
            BY <6>1, <4>2, <3>3
          <6> QED
            BY <6>2
        <5>2. CASE ~(\E d \in Canceller : cancel[d][i] # "idle")
          <6> HIDE DEF Custody, TypeOK
          <6> QED BY <5>2, <4>2, <3>2
        <5> QED
          BY <5>1, <5>2
      <4> QED
        BY <4>1, <4>2
    <3>6. ~arq' /\ ~arq
      BY <2>1, <1>16 DEF Pop
    <3> HIDE DEF Attended
    <3> QED
      BY <2>1, <3>1, <3>2, <3>4, <3>5, <3>6
  <2>2. CASE j \notin tasks
    <3>1. cancel[c][j] = "asked" /\ cancel'[c][j] = "alone" /\ api = "up"
      BY <1>16, <2>2 DEF Pop, To
    <3>2. UNCHANGED <<arq, api, status, sending, tasks, stopping, broker, at, seen, doomed, broken>>
      BY <1>16, <2>2 DEF Pop, server, rows
    <3>3. \A d \in Canceller, i \in Job : <<d, i>> # <<c, j>> => cancel'[d][i] = cancel[d][i]
      BY <1>16, <2>2 DEF Pop, To
    <3>4. \A d \in Canceller, i \in Job :
            /\ cancel[d][i] # "idle" => cancel'[d][i] # "idle"
            /\ cancel[d][i] = "waiting" => cancel'[d][i] = "waiting"
      BY <3>1, <3>3
    <3>5. \A i \in Job : Attended(i) => Attended(i)'
      BY <3>2, <3>4
    <3> HIDE DEF Attended
    <3> QED
      BY <3>1, <3>2, <3>4, <3>5
  <2> QED
    BY <2>1, <2>2
<1>17. ASSUME NEW c \in Canceller, NEW j \in Job, LookAgain(c, j) PROVE Custody'
  BY <1>17 DEF LookAgain, To, Gone
<1>18. ASSUME NEW c \in Canceller, NEW j \in Job, MarkCancelled(c, j) PROVE Custody'
  BY <1>18 DEF MarkCancelled, To
<1>19. ASSUME NEW c \in Canceller, NEW j \in Job, CancelFails(c, j) PROVE Custody'
  BY <1>19 DEF CancelFails, Fault, To
<1>20. ASSUME Shutdown PROVE Custody'
  BY <1>20 DEF Shutdown, Quiet
<1>21. ASSUME Crash PROVE Custody'
  BY <1>21 DEF Crash
<1>22. ASSUME Exit PROVE Custody'
  BY <1>22 DEF Exit
<1>23. ASSUME Boot PROVE Custody'
  BY <1>23 DEF Boot, StaleRows
<1>24. ASSUME Reap PROVE Custody'
  BY <1>24 DEF Reap
<1>25. ASSUME ReapFails PROVE Custody'
  BY <1>25 DEF ReapFails, Fault
<1>26. CASE UNCHANGED vars
  BY <1>26 DEF vars
<1> HIDE DEF Custody, TypeOK
<1> QED
  BY <1>1, <1>2, <1>3, <1>4, <1>5, <1>6, <1>7, <1>8, <1>9, <1>10, <1>11, <1>12, <1>13, <1>14,
     <1>15, <1>16, <1>17, <1>18, <1>19, <1>20, <1>21, <1>22, <1>23, <1>24, <1>25, <1>26
  DEF Next, Execute, Interrupt, Cancel, Lifespan

\* No unfinished row is abandoned while the API serves.
THEOREM OrphanSafety == Spec => []NoOrphans
<1>1. Custody => NoOrphans
  BY DEF Custody, Attended, NoOrphans
<1> QED
  BY <1>1, TypeCorrect, InitCustody, NextCustody, PTL DEF Spec

----------------------------------------------------------------------------

\* What JobContract calls claims.
Claimed == [j \in Job |-> Claims(j)]

LEMMA ClaimsAre ==
  \A j, w : w \in Claims(j) <=>
    \/ w = "task" /\ at[j] \in Executing
    \/ w = "boot" /\ j \in doomed
    \/ w \in Canceller /\ cancel[w][j] \in Deciding
BY DEF Claims

\* The same claims as before on every other row.
OnlyOf(j) == \A k \in Job \ {j} : Claims(k)' = Claims(k)

LEMMA OneRow ==
  ASSUME NEW j \in Job, OnlyOf(j), NEW S, Claims(j)' = S
  PROVE  Claimed' = [Claimed EXCEPT ![j] = S]
BY DEF OnlyOf, Claimed

\* Claims lost, or none at all touched.
LEMMA OnlyLoses ==
  ASSUME UNCHANGED <<status, done>>, \A j \in Job : Claims(j)' \subseteq Claims(j)
  PROVE  Contract!Lose
<1>1. \A j \in Job : Claims(j) \subseteq Contract!Writer
  BY ClaimsAre DEF Contract!Writer
<1> DEFINE kept == [j \in Job |-> Claims(j)']
<1>2. kept \in [Job -> SUBSET Contract!Writer]
  BY <1>1
<1>3. Claimed' = [j \in Job |-> Claimed[j] \cap kept[j]]
  BY DEF Claimed
<1> QED
  BY <1>2, <1>3 DEF Contract!Lose, Claimed

\* A task at a stage past its read of the row has a claim; no other claim hangs on it.
LEMMA TaskClaims ==
  ASSUME TypeOK, NEW j \in Job, NEW s, at' = [at EXCEPT ![j] = s], UNCHANGED <<doomed, cancel>>
  PROVE  /\ OnlyOf(j)
         /\ s \in Executing => Claims(j)' = Claims(j) \cup {"task"}
         /\ s \notin Executing => Claims(j)' = Claims(j) \ {"task"}
<1>1. at'[j] = s /\ \A k \in Job \ {j} : at'[k] = at[k]
  BY DEF TypeOK
<1>2. OnlyOf(j)
  BY <1>1 DEF OnlyOf, Claims
<1>3. "task" \notin Canceller
  BY CancellerAssumption
<1>4. \A w : w \in Claims(j)' <=>
        \/ w = "task" /\ s \in Executing
        \/ w = "boot" /\ j \in doomed
        \/ w \in Canceller /\ cancel[w][j] \in Deciding
  BY <1>1 DEF Claims
<1>5. s \in Executing => Claims(j)' = Claims(j) \cup {"task"}
  BY <1>4, ClaimsAre
<1>6. s \notin Executing => Claims(j)' = Claims(j) \ {"task"}
  BY <1>3, <1>4, ClaimsAre
<1> QED
  BY <1>2, <1>5, <1>6

\* A cancel has a claim between its second read and its commit.
LEMMA CancelClaims ==
  ASSUME TypeOK, NEW c \in Canceller, NEW j \in Job, NEW s, cancel' = [cancel EXCEPT ![c][j] = s],
         UNCHANGED <<doomed, at>>
  PROVE  /\ OnlyOf(j)
         /\ s \in Deciding => Claims(j)' = Claims(j) \cup {c}
         /\ s \notin Deciding => Claims(j)' = Claims(j) \ {c}
<1>1. /\ cancel'[c][j] = s
      /\ \A d \in Canceller, k \in Job : d # c \/ k # j => cancel'[d][k] = cancel[d][k]
  BY DEF TypeOK
<1>2. OnlyOf(j)
  BY <1>1 DEF OnlyOf, Claims
<1>3. c \notin {"task", "boot"}
  BY CancellerAssumption
<1>4. \A w : w \in Claims(j)' <=>
        \/ w = "task" /\ at[j] \in Executing
        \/ w = "boot" /\ j \in doomed
        \/ w \in Canceller /\ cancel'[w][j] \in Deciding
  BY DEF Claims
<1>5. s \in Deciding => Claims(j)' = Claims(j) \cup {c}
  BY <1>1, <1>4, ClaimsAre
<1>6. s \notin Deciding => Claims(j)' = Claims(j) \ {c}
  BY <1>1, <1>3, <1>4, ClaimsAre
<1> QED
  BY <1>2, <1>5, <1>6

\* A step of an execution that takes no new claim and leaves its row alone.
LEMMA TaskLoses ==
  ASSUME TypeOK, NEW j \in Job, NEW s, at' = [at EXCEPT ![j] = s],
         s \in Executing => at[j] \in Executing,
         UNCHANGED <<status, done, doomed, cancel>>
  PROVE  Contract!Lose
<1>1. Claims(j)' \subseteq Claims(j)
  BY TaskClaims, ClaimsAre
<1>2. \A k \in Job : Claims(k)' \subseteq Claims(k)
  BY <1>1, TaskClaims DEF OnlyOf
<1> QED
  BY <1>2, OnlyLoses

LEMMA CancelLoses ==
  ASSUME TypeOK, NEW c \in Canceller, NEW j \in Job, NEW s, cancel' = [cancel EXCEPT ![c][j] = s],
         s \notin Deciding, UNCHANGED <<status, done, doomed, at>>
  PROVE  Contract!Lose
<1>1. \A k \in Job : Claims(k)' \subseteq Claims(k)
  BY CancelClaims DEF OnlyOf
<1> QED
  BY <1>1, OnlyLoses

\* A verdict of an execution: a write if its session saw another status, else none.
LEMMA TaskDecides ==
  ASSUME TypeOK, NEW j \in Job, NEW v \in {"succeeded", "failed"}, at[j] \in Executing,
         status' = Saved(j, v), End(j), UNCHANGED <<done, doomed, cancel>>
  PROVE  Contract!Decide(j, "task") \/ Contract!Lose
<1>1. at' = [at EXCEPT ![j] = "none"] /\ "none" \notin Executing
  BY DEF End, Executing
<1>2. CASE seen[j] = v
  <2>1. status' = status
    BY <1>2 DEF Saved, TypeOK
  <2> QED
    BY <1>1, <2>1, TaskLoses
<1>3. CASE seen[j] # v
  <2>1. status' = [status EXCEPT ![j] = v]
    BY <1>3 DEF Saved
  <2>2. Claimed' = [Claimed EXCEPT ![j] = Claims(j) \ {"task"}]
    BY <1>1, TaskClaims, OneRow
  <2>3. Claimed[j] = Claims(j) /\ "task" \in Claims(j)
    BY ClaimsAre DEF Claimed
  <2>4. v \in Contract!Verdicts("task")
    BY DEF Contract!Verdicts
  <2> QED
    BY <2>1, <2>2, <2>3, <2>4 DEF Contract!Decide, Contract!Release, Claimed
<1> QED
  BY <1>2, <1>3

\* Only while the boot reaps are there rows it has read.
Vacant == api # "reaping" => doomed = {}

LEMMA InitVacant == Init => Vacant
BY DEF Init, Vacant

LEMMA NextVacant == Vacant /\ [Next]_vars => Vacant'
<1> SUFFICES ASSUME Vacant, [Next]_vars PROVE Vacant'
  OBVIOUS
<1>1. ASSUME UNCHANGED <<api, doomed>> PROVE Vacant'
  BY <1>1 DEF Vacant
<1>2. ASSUME NEW j \in Job, Enqueue(j) \/ Execute(j) \/ Raise(j) \/ Interrupt(j) PROVE Vacant'
  BY <1>1, <1>2 DEF Enqueue, Execute, HandOver, Deliver, Fetch, MarkRunning, Progress, Succeed, Fail,
       Unwind, Raise, Interrupt, HandOverFails, StoreFails, Timeout, WorkerDies
<1>3. ASSUME NEW c \in Canceller, NEW j \in Job, Ask(c, j) \/ Cancel(c, j) \/ CancelFails(c, j)
      PROVE Vacant'
  BY <1>1, <1>3 DEF Ask, Cancel, Pop, LookAgain, MarkCancelled, CancelFails
<1>4. CASE Shutdown \/ Crash \/ Lifespan \/ ReapFails
  BY <1>4 DEF Vacant, Shutdown, Crash, Lifespan, Exit, Boot, Reap, ReapFails
<1>5. CASE UNCHANGED vars
  BY <1>1, <1>5 DEF vars
<1> QED
  BY <1>2, <1>3, <1>4, <1>5 DEF Next

LEMMA InitContract == Init => Contract!Init
BY DEF Init, Contract!Init, Claims, Executing, Deciding

\* Every step is one that JobContract has.
LEMMA NextContract == TypeOK /\ Vacant /\ [Next]_vars => [Contract!Next]_(Contract!vars)
<1> SUFFICES ASSUME TypeOK, Vacant, [Next]_vars PROVE Contract!Next \/ UNCHANGED Contract!vars
  OBVIOUS
<1> DEFINE Goal == Contract!Next \/ UNCHANGED Contract!vars
<1>1. ASSUME Contract!Lose PROVE Goal
  BY <1>1 DEF Contract!Next
<1>2. "task" \in Contract!Writer /\ Canceller \subseteq Contract!Writer
  BY DEF Contract!Writer
<1>3. \A j \in Job : Claimed[j] = Claims(j)
  BY DEF Claimed
<1>4. ASSUME UNCHANGED <<status, done, at, doomed, cancel>> PROVE Goal
  <2>1. \A j \in Job : Claims(j)' \subseteq Claims(j)
    BY <1>4 DEF Claims
  <2> QED
    BY <1>1, <1>4, <2>1, OnlyLoses
<1>5. ASSUME NEW j \in Job, Enqueue(j) PROVE Goal
  <2>1. Claimed' = Claimed
    BY <1>5 DEF Enqueue, work, Claimed, Claims
  <2> QED
    BY <1>5, <2>1 DEF Enqueue, Contract!Enter, Contract!Next, Claimed
<1>6. ASSUME NEW j \in Job, HandOver(j) PROVE Goal
  <2>1. at' = at \/ at' = [at EXCEPT ![j] = "ready"]
    BY <1>6 DEF HandOver
  <2>2. UNCHANGED <<status, done, doomed, cancel>> /\ "ready" \notin Executing
    BY <1>6 DEF HandOver, rows, Executing
  <2> QED
    BY <1>1, <1>4, <2>1, <2>2, TaskLoses
<1>7. ASSUME NEW j \in Job, Deliver(j) PROVE Goal
  <2>1. at' = [at EXCEPT ![j] = "ready"] /\ UNCHANGED <<status, done, doomed, cancel>>
        /\ "ready" \notin Executing
    BY <1>7 DEF Deliver, rows, Executing
  <2> QED
    BY <1>1, <2>1, TaskLoses
<1>8. ASSUME NEW j \in Job, Fetch(j) PROVE Goal
  <2>1. at[j] = "ready" /\ UNCHANGED <<status, done, doomed, cancel>>
        /\ {"ready", "none"} \cap Executing = {}
    BY <1>8 DEF Fetch, rows, Executing
  <2>2. CASE at' = [at EXCEPT ![j] = "none"]
    BY <1>1, <2>1, <2>2, TaskLoses
  <2>3. CASE status[j] \in Active /\ at' = [at EXCEPT ![j] = "starting"]
    <3>1. Claimed' = [Claimed EXCEPT ![j] = Claims(j) \cup {"task"}]
      BY <2>1, <2>3, TaskClaims, OneRow DEF Executing
    <3>2. "task" \notin Claims(j)
      BY <2>1, ClaimsAre, CancellerAssumption
    <3>3. Contract!Claim(j, "task")
      BY <1>3, <2>1, <2>3, <3>1, <3>2 DEF Contract!Claim, Contract!Unfinished, Active, Claimed
    <3> QED
      BY <1>2, <3>3 DEF Contract!Next
  <2> QED
    BY <1>8, <2>2, <2>3 DEF Fetch, Onward, End
<1>9. ASSUME NEW j \in Job, at[j] \in Executing, NEW s \in {"starting", "working", "failing", "none"},
             at' = [at EXCEPT ![j] = s], UNCHANGED <<doomed, cancel>>,
             \/ status' = [status EXCEPT ![j] = "running"] /\ done' = [done EXCEPT ![j] = 0]
             \/ status' = status /\ done' \in {[done EXCEPT ![j] = 0], [done EXCEPT ![j] = @ + 1]}
      PROVE  Goal
  <2>1. "task" \in Claims(j)
    BY <1>9, ClaimsAre
  <2>2. Claims(j)' = Claims(j) \/ Claims(j)' = Claims(j) \ {"task"}
    <3>1. s \in Executing => Claims(j)' = Claims(j) \cup {"task"}
      BY <1>9, TaskClaims
    <3>2. s \notin Executing => Claims(j)' = Claims(j) \ {"task"}
      BY <1>9, TaskClaims
    <3> QED
      BY <2>1, <3>1, <3>2
  <2>3. Claimed' = Claimed \/ Claimed' = [Claimed EXCEPT ![j] = @ \ {"task"}]
    BY <1>3, <1>9, <2>2, TaskClaims, OneRow DEF Claimed
  <2>4. Contract!Report(j)
    BY <1>3, <1>9, <2>1, <2>3 DEF Contract!Report, Contract!Release, Claimed
  <2> QED
    BY <2>4 DEF Contract!Next
<1>10. ASSUME NEW j \in Job, MarkRunning(j) PROVE Goal
  <2>1. status' = status \/ status' = [status EXCEPT ![j] = "running"]
    BY <1>10 DEF MarkRunning, Saved, TypeOK
  <2>2. at' = [at EXCEPT ![j] = "none"] \/ at' = [at EXCEPT ![j] = "working"]
    BY <1>10 DEF MarkRunning, Onward, End
  <2> QED
    BY <1>9, <1>10, <2>1, <2>2 DEF MarkRunning, Executing
<1>11. ASSUME NEW j \in Job, Progress(j) PROVE Goal
  <2>1. at' = [at EXCEPT ![j] = "none"] \/ at' = [at EXCEPT ![j] = "working"]
    BY <1>11 DEF Progress, Onward, End
  <2> QED
    BY <1>9, <1>11, <2>1 DEF Progress, Executing
<1>12. ASSUME NEW j \in Job, Succeed(j) \/ Fail(j) PROVE Goal
  <2>1. Contract!Decide(j, "task") \/ Contract!Lose
    BY <1>12, TaskDecides DEF Succeed, Fail, Executing
  <2> QED
    BY <1>1, <1>2, <2>1 DEF Contract!Next
<1>13. ASSUME NEW j \in Job, Raise(j) PROVE Goal
  <2>1. at' = [at EXCEPT ![j] = "failing"] /\ at[j] \in Executing
    BY <1>13 DEF Raise, Onward, Executing
  <2> QED
    BY <1>1, <1>13, <2>1, TaskLoses DEF Raise, rows
<1>14. ASSUME NEW j \in Job, Unwind(j) \/ StoreFails(j) \/ Timeout(j) \/ WorkerDies(j) PROVE Goal
  <2>1. at' = [at EXCEPT ![j] = "none"] /\ "none" \notin Executing
    BY <1>14 DEF Unwind, StoreFails, Timeout, WorkerDies, End, Executing
  <2>2. UNCHANGED <<status, done, doomed, cancel>>
    BY <1>14 DEF Unwind, StoreFails, Timeout, WorkerDies, rows
  <2> QED
    BY <1>1, <2>1, <2>2, TaskLoses
<1>15. ASSUME NEW j \in Job, HandOverFails(j) PROVE Goal
  BY <1>4, <1>15 DEF HandOverFails, rows, work
<1>16. ASSUME NEW c \in Canceller, NEW j \in Job, Ask(c, j) \/ Pop(c, j) \/ CancelFails(c, j) PROVE Goal
  <2>1. UNCHANGED <<status, done, doomed, at>>
    BY <1>16 DEF Ask, Pop, CancelFails, rows, work
  <2>2. PICK s \in {"asked", "waiting", "alone", "idle"} : cancel' = [cancel EXCEPT ![c][j] = s]
    BY <1>16, Zenon DEF Ask, Pop, CancelFails, To
  <2> QED
    BY <1>1, <2>1, <2>2, CancelLoses DEF Deciding
<1>17. ASSUME NEW c \in Canceller, NEW j \in Job, LookAgain(c, j) PROVE Goal
  <2>1. UNCHANGED <<status, done, doomed, at>> /\ cancel[c][j] \in {"alone", "waiting"}
    BY <1>17 DEF LookAgain, rows, work
  <2>2. CASE cancel' = [cancel EXCEPT ![c][j] = "idle"]
    <3>1. "idle" \notin Deciding
      BY DEF Deciding
    <3> QED
      BY <1>1, <2>1, <2>2, <3>1, CancelLoses
  <2>3. ASSUME status[j] \in Active, NEW s \in Deciding, cancel' = [cancel EXCEPT ![c][j] = s] PROVE Goal
    <3>1. Claimed' = [Claimed EXCEPT ![j] = Claims(j) \cup {c}]
      BY <2>1, <2>3, CancelClaims, OneRow
    <3>2. c \notin Claims(j)
      BY <2>1, ClaimsAre, CancellerAssumption DEF Deciding
    <3>3. Contract!Claim(j, c)
      BY <1>3, <2>1, <2>3, <3>1, <3>2 DEF Contract!Claim, Contract!Unfinished, Active, Claimed
    <3> QED
      BY <1>2, <3>3 DEF Contract!Next
  <2> QED
    BY <1>17, <2>2, <2>3, Zenon DEF LookAgain, To, Deciding
<1>18. ASSUME NEW c \in Canceller, NEW j \in Job, MarkCancelled(c, j) PROVE Goal
  <2>1. /\ cancel[c][j] \in Deciding /\ status' = [status EXCEPT ![j] = "cancelled"]
        /\ cancel' = [cancel EXCEPT ![c][j] = "idle"] /\ "idle" \notin Deciding
        /\ UNCHANGED <<done, doomed, at>>
    BY <1>18 DEF MarkCancelled, To, work, Deciding
  <2>2. Claimed' = [Claimed EXCEPT ![j] = Claims(j) \ {c}]
    BY <2>1, CancelClaims, OneRow
  <2>3. c \in Claims(j) /\ "cancelled" \in Contract!Verdicts(c)
    BY <2>1, ClaimsAre, CancellerAssumption DEF Contract!Verdicts
  <2>4. Contract!Decide(j, c)
    BY <1>3, <2>1, <2>2, <2>3 DEF Contract!Decide, Contract!Release, Claimed
  <2> QED
    BY <1>2, <2>4 DEF Contract!Next
<1>19. CASE Shutdown \/ Exit
  BY <1>4, <1>19 DEF Shutdown, Exit, rows, work
<1>20. CASE Crash \/ ReapFails
  <2>1. UNCHANGED <<status, done>> /\ doomed' = {}
    BY <1>20 DEF Crash, ReapFails, rows
  <2>2. at' = at \/ at' = [j \in Job |-> "none"]
    BY <1>20 DEF Crash, ReapFails, work
  <2>3. cancel' = cancel \/ cancel' = [c \in Canceller |-> [j \in Job |-> "idle"]]
    BY <1>20 DEF Crash, ReapFails
  <2>4. ASSUME NEW j \in Job PROVE Claims(j)' \subseteq Claims(j)
    BY <2>1, <2>2, <2>3 DEF Claims, Executing, Deciding
  <2> QED
    BY <1>1, <2>1, <2>4, OnlyLoses
<1>21. CASE Boot
  <2>1. doomed = {} /\ doomed' = {j \in Job : status[j] \in Active}
        /\ UNCHANGED <<status, done, at, cancel>>
    BY <1>21 DEF Boot, Vacant, StaleRows, rows, work
  <2>2. \A j \in Job : "boot" \notin Claims(j)
    BY <2>1, ClaimsAre, CancellerAssumption
  <2>3. \A j \in Job : Claims(j)' = Claims(j) \cup (IF Contract!Unfinished(j) THEN {"boot"} ELSE {})
    BY <2>1 DEF Claims, Contract!Unfinished, Active
  <2>4. Contract!ClaimAll
    BY <1>3, <2>1, <2>2, <2>3 DEF Contract!ClaimAll, Claimed
  <2> QED
    BY <2>4 DEF Contract!Next
<1>22. CASE Reap
  <2>1. /\ status' = [j \in Job |-> IF j \in doomed THEN "failed" ELSE status[j]]
        /\ doomed' = {} /\ UNCHANGED <<done, at, cancel>>
    BY <1>22 DEF Reap, work
  <2>2. \A j \in Job : "boot" \in Claims(j) <=> j \in doomed
    BY ClaimsAre, CancellerAssumption
  <2>3. \A j \in Job : Claims(j)' = Claims(j) \ {"boot"}
    BY <2>1, CancellerAssumption DEF Claims
  <2>4. Contract!DecideAll
    BY <1>3, <2>1, <2>2, <2>3 DEF Contract!DecideAll, Claimed
  <2> QED
    BY <2>4 DEF Contract!Next
<1>23. CASE UNCHANGED vars
  BY <1>4, <1>23 DEF vars, rows, work
<1>24. ASSUME NEW j \in Job, Enqueue(j) \/ Execute(j) \/ Raise(j) \/ Interrupt(j) PROVE Goal
  BY <1>5, <1>6, <1>7, <1>8, <1>10, <1>11, <1>12, <1>13, <1>14, <1>15, <1>24, Zenon
  DEF Execute, Interrupt
<1>25. ASSUME NEW c \in Canceller, NEW j \in Job, Ask(c, j) \/ Cancel(c, j) \/ CancelFails(c, j)
       PROVE  Goal
  BY <1>16, <1>17, <1>18, <1>25, Zenon DEF Cancel
<1>26. CASE Shutdown \/ Crash \/ Lifespan \/ ReapFails
  BY <1>19, <1>20, <1>21, <1>22, <1>26 DEF Lifespan
<1>27. CASE Next
  BY <1>24, <1>25, <1>26, <1>27, Zenon DEF Next
<1> QED
  BY <1>23, <1>27

\* Jobs writes rows as JobContract allows.
THEOREM ImplementsContract == Spec => RowsAreClaimed
<1>1. TypeOK /\ Vacant /\ [Next]_vars => TypeOK' /\ Vacant' /\ [Contract!Next]_(Contract!vars)
  BY NextType, NextVacant, NextContract
<1>2. Init => TypeOK /\ Vacant /\ Contract!Init
  BY InitType, InitVacant, InitContract
<1> QED
  BY <1>1, <1>2, PTL DEF Spec, RowsAreClaimed, Contract!Spec

\* What JobContract makes of a settled row without a claim.
LEMMA ContractKeeps ==
  ASSUME TypeOK, [Contract!Next]_(Contract!vars), NEW j \in Job,
         status[j] \in Terminal, Claims(j) = {}
  PROVE  status'[j] = status[j] /\ done'[j] = done[j] /\ Claims(j)' = {}
<1> DEFINE Goal == status'[j] = status[j] /\ done'[j] = done[j] /\ Claims(j)' = {}
<1>1. status = [k \in Job |-> status[k]] /\ done = [k \in Job |-> done[k]]
  BY DEF TypeOK
<1>2. status[j] \notin {"absent", "queued", "running"}
  BY DEF Terminal
<1>3. Claimed[j] = {} /\ Claimed'[j] = Claims(j)' /\ Claimed = [k \in Job |-> Claimed[k]]
  BY DEF Claimed
<1>4. ASSUME NEW k \in Job, Contract!Enter(k) PROVE Goal
  BY <1>1, <1>2, <1>3, <1>4 DEF Contract!Enter, Claimed
<1>5. ASSUME NEW k \in Job, Contract!Report(k) PROVE Goal
  <2>1. k # j
    BY <1>3, <1>5 DEF Contract!Report, Claimed
  <2>2. Claimed'[j] = Claimed[j]
    BY <1>3, <1>5, <2>1 DEF Contract!Report, Contract!Release, Claimed
  <2> QED
    BY <1>1, <1>3, <1>5, <2>1, <2>2 DEF Contract!Report
<1>6. ASSUME NEW k \in Job, NEW w, Contract!Claim(k, w) PROVE Goal
  <2>1. k # j
    BY <1>2, <1>6 DEF Contract!Claim, Contract!Unfinished
  <2> QED
    BY <1>3, <1>6, <2>1 DEF Contract!Claim, Claimed
<1>7. ASSUME NEW k \in Job, NEW w, Contract!Decide(k, w) PROVE Goal
  <2>1. k # j
    BY <1>3, <1>7 DEF Contract!Decide, Claimed
  <2> QED
    BY <1>1, <1>3, <1>7, <2>1 DEF Contract!Decide, Contract!Release, Claimed
<1>8. CASE Contract!ClaimAll
  <2>1. Claimed'[j] = Claimed[j] /\ UNCHANGED <<status, done>>
    BY <1>2, <1>3, <1>8 DEF Contract!ClaimAll, Contract!Unfinished, Claimed
  <2> QED
    BY <1>3, <2>1
<1>9. CASE Contract!DecideAll
  BY <1>3, <1>9 DEF Contract!DecideAll, Claimed
<1>10. CASE Contract!Lose
  BY <1>3, <1>10 DEF Contract!Lose, Claimed
<1>11. CASE UNCHANGED Contract!vars
  BY <1>3, <1>11 DEF Contract!vars, Claimed
<1> QED
  BY <1>4, <1>5, <1>6, <1>7, <1>8, <1>9, <1>10, <1>11 DEF Contract!Next

\* Terminal rows are final once nobody holds them, under both backends: it follows from
\* the contract alone, since those who hold a row are those with a claim on it.
THEOREM SettledSafety == Spec => SettledRowsAreFinal
<1>1. TypeOK /\ Vacant /\ [Next]_vars =>
        [\A j \in Job : Settled(j) =>
           status'[j] = status[j] /\ done'[j] = done[j] /\ ~Held(j)']_vars
  <2>1. \A j : Held(j) <=> Claims(j) # {}
    BY ClaimsAre DEF Held
  <2>2. \A j : Held(j)' <=> Claims(j)' # {}
    BY DEF Held, Claims
  <2> QED
    BY <2>1, <2>2, NextContract, ContractKeeps DEF Settled
<1>2. Spec => []Vacant
  BY InitVacant, NextVacant, PTL DEF Spec
<1> QED
  BY <1>1, <1>2, TypeCorrect, PTL DEF Spec, SettledRowsAreFinal
=============================================================================
