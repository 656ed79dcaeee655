------------------------------ MODULE Sso_proof ------------------------------
(* Proofs about Accounts and Sso for any requests, codes, providers and        *)
(* moments: what the three rows of the second factor can come to, what the     *)
(* limiters and the lockout let through, and the callbacks beside them.        *)
EXTENDS Sso, TLAPS, FiniteSetTheorems, SequenceTheorems, NaturalsInduction

USE DEF rows, minted, history, login, loginHistory

\* What the factor and its requests are made of.
Minted(n) == (0 .. n) \X (1 .. CodesPerSet)
Task == [step : Steps, token : Nat \X Nat, seen : SUBSET (Nat \X Nat)]

Typed ==
  /\ enabled \in BOOLEAN /\ crossed \in BOOLEAN /\ unsettled \in BOOLEAN
  /\ seed \in Nat /\ seeds \in Nat /\ sets \in Nat
  /\ codes \subseteq Minted(sets) /\ spent \subseteq Minted(sets)
  /\ task \in [Request -> Task]
  /\ \A r \in Request : At(r, "spending") =>
       task[r].seen \subseteq Minted(sets) /\ task[r].token \in task[r].seen

\* Whoever is about to write the codes back has read them as they are, unless a
\* write of them crossed.
Current ==
  ~crossed =>
    /\ codes \cap spent = {} /\ codes \subseteq {sets} \X (1 .. CodesPerSet)
    /\ \A r \in Request : At(r, "spending") => task[r].seen = codes

\* Whoever is about to turn the factor on has proven the seed, and a seed is staged
\* under a factor that is off.
Clearing == {"withdrawn", "cleared"}
Enrolling ==
  ~unsettled =>
    /\ enabled /\ (\A r \in Request : task[r].step \notin Clearing) => seed \in proven
    /\ \A r \in Request : task[r].step \in {"minting", "minted"} => seed \in proven
    /\ \A r \in Request : task[r].step \in {"staging", "staged"} => ~enabled

IInv == Typed /\ Current /\ Enrolling

\* A step that touches neither the factor nor its history.
Writing == {"staged", "minting", "minted", "spending"} \cup Clearing
Moves(r) ==
  /\ UNCHANGED <<enabled, seed, codes, minted, proven, spent, crossed, unsettled>>
  /\ task' \in [Request -> Task]
  /\ \A q \in Others(r) : task'[q] = task[q]
  /\ task[r].step \notin Clearing
  /\ task'[r].step \notin Writing
  /\ task'[r].step = "staging" => ~enabled

LEMMA InitInv == Init => IInv
<1> SUFFICES ASSUME Init PROVE IInv
  OBVIOUS
<1>1. task \in [Request -> Task]
  BY DEF Init, Idle, Nothing, NoSeed, Task, Steps
<1>2. \A r \in Request : task[r].step = "idle"
  BY DEF Init, Idle
<1>3. Typed
  <2>1. codes \subseteq Minted(sets) /\ spent \subseteq Minted(sets)
    BY DEF Init, Minted
  <2>2. seed \in Nat
    BY DEF Init, NoSeed
  <2> QED
    BY <1>1, <1>2, <2>1, <2>2 DEF Init, Typed, At
<1>4. Current
  BY <1>2 DEF Init, Current, At
<1>5. Enrolling
  BY <1>2 DEF Init, Enrolling, Clearing
<1> QED
  BY <1>3, <1>4, <1>5 DEF IInv

\* Changing one request leaves the others, and keeps every request a task.
LEMMA GoOnTask ==
  ASSUME Typed, NEW r \in Request, NEW s \in Steps, GoOn(r, s)
  PROVE  /\ task' \in [Request -> Task]
         /\ \A q \in Others(r) : task'[q] = task[q]
         /\ task'[r].step = s /\ task'[r].token = task[r].token /\ task'[r].seen = task[r].seen
<1>1. task[r] \in Task /\ task \in [Request -> Task]
  BY DEF Typed
<1>2. task' = [task EXCEPT ![r] = [task[r] EXCEPT !.step = s]]
  BY DEF GoOn
<1>3. [task[r] EXCEPT !.step = s] \in Task
  BY <1>1 DEF Task
<1> QED
  BY <1>1, <1>2, <1>3 DEF Task, Others

LEMMA SetTask ==
  ASSUME Typed, NEW r \in Request, NEW t \in Task, task' = [task EXCEPT ![r] = t]
  PROVE  /\ task' \in [Request -> Task]
         /\ \A q \in Others(r) : task'[q] = task[q]
         /\ task'[r] = t
BY DEF Typed, Others

\* Every route behind a limiter has a path of its own.
LEMMA Paths ==
  /\ {AdminLogin, UserLogin, UserSignUp, MfaVerify} \subseteq Path
  /\ \A p \in Provider : <<"oidc", p, "login">> \in Path /\ <<"oidc", p, "callback">> \in Path
BY DEF Path, OidcPath

LEMMA IdleTask == Idle \in Task
BY DEF Idle, Nothing, NoSeed, Task, Steps

LEMMA BegunTask ==
  ASSUME NEW s \in Steps, NEW t \in Nat \X Nat
  PROVE  [step |-> s, token |-> t, seen |-> {}] \in Task
BY DEF Task

\* What a client knows is a token.
LEMMA KnownTokens ==
  ASSUME Typed, BoundAssumption
  PROVE  SeedTokens \subseteq Nat \X Nat /\ Codes \subseteq Nat \X Nat /\ Nothing \in Nat \X Nat
BY DEF Typed, BoundAssumption, SeedTokens, Codes, Nothing, NoSeed

\* Such a step keeps the invariant.
LEMMA MovesKeep ==
  ASSUME IInv, NEW r \in Request, Moves(r)
  PROVE  IInv'
<1> USE DEF Moves, IInv, Others
<1>1. \A q \in Request : task'[q].step \in Writing => q # r /\ task'[q] = task[q]
  OBVIOUS
<1>2. \A q \in Request : task'[q].step = "spending" => task'[q] = task[q]
  BY <1>1 DEF Writing
<1>3. Typed'
  BY <1>2 DEF Typed, At
<1>4. Current'
  BY <1>2 DEF Current, At
<1>5. \A q \in Request : task[q].step \in Clearing => task'[q].step \in Clearing
  OBVIOUS
<1>6. \A q \in Request : task'[q].step \in {"minting", "minted", "staged"} => task'[q] = task[q]
  BY <1>1 DEF Writing
<1>7. Enrolling'
  BY <1>5, <1>6 DEF Enrolling
<1> QED
  BY <1>3, <1>4, <1>7

\* The steps of logins, sign-ups and accounts, and those that only begin or judge.
Plain(r) ==
  \/ \E p \in Path : Refuse(r, p)
  \/ \E p \in {AdminLogin, UserLogin} : Login(r, p)
  \/ CountFailures(r) \/ Mistake(r) \/ Match(r) \/ AskFactor(r)
  \/ SignUp(r)
  \/ \E a \in {"active", "disabled"} : SetDisabled(r, a)
  \/ Setup(r)
  \/ \E t \in SeedTokens : Prove(r, t) \/ Withdraw(r, t)
  \/ VerifyLeaving(r)
  \/ \E t \in SeedTokens \cup Codes : Verify(r, t)
  \/ MatchSeed(r)

LEMMA PlainMoves ==
  ASSUME Typed, NEW r \in Request, Plain(r)
  PROVE  Moves(r)
<1> USE DEF quiet
<1>0. task \in [Request -> Task]
  BY DEF Typed
<1>1. ASSUME NEW s \in Steps \ Writing, GoOn(r, s), task[r].step \notin Clearing, s # "staging",
             UNCHANGED <<enabled, seed, codes, minted, proven, spent, crossed, unsettled>>
      PROVE  Moves(r)
  BY <1>1, GoOnTask DEF Moves
<1>2. ASSUME Finish(r), task[r].step \notin Clearing,
             UNCHANGED <<enabled, seed, codes, minted, proven, spent, crossed, unsettled>>
      PROVE  Moves(r)
  <2>1. task' = [task EXCEPT ![r] = Idle]
    BY <1>2 DEF Finish
  <2> QED
    BY <2>1, <1>2, SetTask, IdleTask DEF Moves, Idle, Writing, Clearing
<1>3. ASSUME NEW s \in Steps \ Writing, NEW t \in Nat \X Nat, Begin(r, s, t), At(r, "idle"),
             s = "staging" => ~enabled,
             UNCHANGED <<enabled, seed, codes, minted, proven, spent, crossed, unsettled>>
      PROVE  Moves(r)
  <2>1. task' = [task EXCEPT ![r] = [step |-> s, token |-> t, seen |-> {}]]
    BY <1>3 DEF Begin
  <2>2. [step |-> s, token |-> t, seen |-> {}] \in Task
    BY <1>3, BegunTask
  <2> QED
    BY <2>1, <2>2, <1>3, SetTask DEF Moves, At, Clearing
<1>4. ASSUME UNCHANGED <<task, enabled, seed, codes, minted, proven, spent, crossed, unsettled>>,
             At(r, "idle")
      PROVE  Moves(r)
  BY <1>4, <1>0 DEF Moves, At, Clearing, Writing, Others
<1>5. {"admin", "user", "asking", "counting", "counting user", "withdrawing", "reading",
       "staging", "proving", "leaving", "matching"} \subseteq Steps \ Writing
  BY DEF Steps, Checking, Changing, Writing, Clearing
<1>6. CASE \E p \in Path : Refuse(r, p)
  BY <1>6, <1>4 DEF Refuse, Arrive
<1>7. CASE \E p \in {AdminLogin, UserLogin} : Login(r, p)
  BY <1>7, <1>3, <1>5, KnownTokens, BoundAssumption DEF Login, Pass, Arrive
<1>8. CASE CountFailures(r)
  <2>1. task[r].step \notin Clearing
    BY <1>8 DEF CountFailures, Clearing
  <2> QED
    BY <2>1, <1>8, <1>1, <1>2, <1>5 DEF CountFailures
<1>9. CASE Mistake(r)
  BY <1>9, <1>2 DEF Mistake, Checking, Clearing
<1>10. CASE Match(r)
  BY <1>10, <1>1, <1>2, <1>5 DEF Match, At, Clearing
<1>11. CASE AskFactor(r)
  BY <1>11, <1>2 DEF AskFactor, At, Clearing
<1>12. CASE SignUp(r)
  BY <1>12, <1>4 DEF SignUp, Pass, Arrive
<1>13. CASE \E a \in {"active", "disabled"} : SetDisabled(r, a)
  BY <1>13, <1>4 DEF SetDisabled, Arrive
<1>14. CASE Setup(r)
  BY <1>14, <1>3, <1>5, KnownTokens, BoundAssumption DEF Setup, Arrive
<1>15. CASE \E t \in SeedTokens : Prove(r, t) \/ Withdraw(r, t)
  BY <1>15, <1>3, <1>5, KnownTokens, BoundAssumption DEF Prove, Withdraw, Arrive
<1>16. CASE VerifyLeaving(r)
  BY <1>16, <1>1, <1>5 DEF VerifyLeaving, At, Clearing
<1>17. CASE \E t \in SeedTokens \cup Codes : Verify(r, t)
  BY <1>17, <1>3, <1>4, <1>5, KnownTokens, BoundAssumption DEF Verify, Pass, Arrive
<1>18. CASE MatchSeed(r)
  BY <1>18, <1>1, <1>2, <1>5 DEF MatchSeed, At, Clearing
<1> QED
  BY <1>6, <1>7, <1>8, <1>9, <1>10, <1>11, <1>12, <1>13, <1>14, <1>15, <1>16, <1>17, <1>18 DEF Plain

\* Nobody else is writing codes that this step writes too, unless it says so.
LEMMA Uncrossed ==
  ASSUME NEW r \in Request, Cross(r), ~crossed', crossed \in BOOLEAN
  PROVE  ~crossed /\ \A s \in Others(r) : task[s].step # "spending"
BY DEF Cross, At

LEMMA Undisturbed ==
  ASSUME NEW r \in Request, Settle(r), ~unsettled', unsettled \in BOOLEAN
  PROVE  ~unsettled /\ \A s \in Others(r) : task[s].step \notin Changing
BY DEF Settle

\* Every step keeps the invariant.
LEMMA NextInv == IInv /\ [Next]_vars => IInv'
<1> SUFFICES ASSUME IInv, [Next]_vars PROVE IInv'
  OBVIOUS
<1> USE DEF quiet
<1>0. Typed /\ Current /\ Enrolling /\ task \in [Request -> Task]
  BY DEF IInv, Typed
<1>S. {"staged", "minting", "minted", "withdrawn", "cleared", "spending"} \subseteq Steps
  BY DEF Steps, Changing
<1>1. CASE UNCHANGED vars
  BY <1>1 DEF vars, IInv, Typed, Current, Enrolling, At
<1>2. CASE Tick
  BY <1>2 DEF Tick, IInv, Typed, Current, Enrolling, At
<1>3. ASSUME NEW r \in Request, Plain(r) PROVE IInv'
  BY <1>3, <1>0, PlainMoves, MovesKeep
<1>4. ASSUME NEW r \in Request, StageSeed(r) PROVE IInv'
  <2>1. GoOn(r, "staged") /\ Settle(r) /\ task[r].step = "staging"
    BY <1>4 DEF StageSeed, At
  <2>2. /\ task' \in [Request -> Task]
        /\ \A q \in Others(r) : task'[q] = task[q]
        /\ task'[r].step = "staged"
    BY <2>1, <1>0, <1>S, GoOnTask
  <2>3. UNCHANGED <<enabled, codes, sets, spent, crossed, proven>> /\ seed' \in Nat /\ seeds' \in Nat
        /\ unsettled' \in BOOLEAN
    BY <1>4, <1>0 DEF StageSeed, Typed, Settle
  <2>4. \A q \in Request : task'[q].step = "spending" => task'[q] = task[q]
    BY <2>2 DEF Others
  <2>5. Typed' /\ Current'
    BY <2>2, <2>3, <2>4, <1>0 DEF Typed, Current, At
  <2>6. Enrolling'
    <3> SUFFICES ASSUME ~unsettled' PROVE Enrolling'
      BY DEF Enrolling
    <3>1. ~unsettled /\ \A s \in Others(r) : task[s].step \notin Changing
      BY <2>1, <1>0, Undisturbed DEF Typed
    <3>2. ~enabled
      BY <3>1, <2>1, <1>0 DEF Enrolling
    <3> QED
      BY <3>1, <3>2, <2>2, <2>3 DEF Enrolling, Others, Changing
  <2> QED
    BY <2>5, <2>6 DEF IInv
<1>5. ASSUME NEW r \in Request, VerifySeed(r) PROVE IInv'
  <2>1. GoOn(r, "minting") /\ task[r].step = "proving" /\ Verifies(r)
    BY <1>5 DEF VerifySeed, At
  <2>2. /\ task' \in [Request -> Task]
        /\ \A q \in Others(r) : task'[q] = task[q]
        /\ task'[r].step = "minting"
    BY <2>1, <1>0, <1>S, GoOnTask
  <2>3. UNCHANGED <<enabled, seed, codes, minted, spent, crossed, unsettled>>
    BY <1>5 DEF VerifySeed
  <2>4. \A q \in Request : task'[q].step = "spending" => task'[q] = task[q]
    BY <2>2 DEF Others
  <2>5. Typed' /\ Current'
    BY <2>2, <2>3, <2>4, <1>0 DEF Typed, Current, At
  <2>6. seed' \in proven' /\ proven \subseteq proven'
    BY <2>1, <2>3, <1>5 DEF VerifySeed, Verifies
  <2>7. Enrolling'
    BY <2>1, <2>2, <2>3, <2>6, <1>0 DEF Enrolling, Others, Clearing
  <2> QED
    BY <2>5, <2>7 DEF IInv
<1>6. ASSUME NEW r \in Request, MintCodes(r) PROVE IInv'
  <2>1. GoOn(r, "minted") /\ Settle(r) /\ Cross(r) /\ task[r].step = "minting"
    BY <1>6 DEF MintCodes, At
  <2>2. /\ task' \in [Request -> Task]
        /\ \A q \in Others(r) : task'[q] = task[q]
        /\ task'[r].step = "minted"
    BY <2>1, <1>0, <1>S, GoOnTask
  <2>3. /\ UNCHANGED <<enabled, seed, seeds, proven, spent>>
        /\ sets' = sets + 1 /\ codes' = {sets'} \X (1 .. CodesPerSet)
        /\ unsettled' \in BOOLEAN /\ crossed' \in BOOLEAN
    BY <1>6, <1>0 DEF MintCodes, Typed, Settle, Cross
  <2>4. \A q \in Request : task'[q].step = "spending" => task'[q] = task[q] /\ q \in Others(r)
    BY <2>2 DEF Others
  <2>5. sets \in Nat /\ Minted(sets) \subseteq Minted(sets') /\ codes' \subseteq Minted(sets')
        /\ codes' \cap Minted(sets) = {}
    BY <2>3, <1>0, BoundAssumption DEF Typed, Minted
  <2>6. Typed'
    BY <2>2, <2>3, <2>4, <2>5, <1>0 DEF Typed, At
  <2>7. Current'
    <3> SUFFICES ASSUME ~crossed' PROVE Current'
      BY DEF Current
    <3>1. \A s \in Others(r) : task[s].step # "spending"
      BY <2>1, <1>0, Uncrossed DEF Typed
    <3>2. codes' \cap spent' = {}
      BY <2>3, <2>5, <1>0 DEF Typed
    <3> QED
      BY <3>1, <3>2, <2>3, <2>4 DEF Current, At
  <2>8. Enrolling'
    <3> SUFFICES ASSUME ~unsettled' PROVE Enrolling'
      BY DEF Enrolling
    <3>1. ~unsettled /\ \A s \in Others(r) : task[s].step \notin Changing
      BY <2>1, <1>0, Undisturbed DEF Typed
    <3>2. seed \in proven
      BY <3>1, <2>1, <1>0 DEF Enrolling
    <3> QED
      BY <3>1, <3>2, <2>2, <2>3 DEF Enrolling, Others, Changing
  <2> QED
    BY <2>6, <2>7, <2>8 DEF IInv
<1>7. ASSUME NEW r \in Request, DropSeed(r) PROVE IInv'
  <2>1. GoOn(r, "withdrawn") /\ Settle(r) /\ task[r].step = "withdrawing"
    BY <1>7 DEF DropSeed, At
  <2>2. /\ task' \in [Request -> Task]
        /\ \A q \in Others(r) : task'[q] = task[q]
        /\ task'[r].step = "withdrawn"
    BY <2>1, <1>0, <1>S, GoOnTask
  <2>3. UNCHANGED <<enabled, codes, minted, proven, spent, crossed>> /\ seed' \in Nat
        /\ unsettled' \in BOOLEAN
    BY <1>7, <1>0 DEF DropSeed, Typed, Settle, NoSeed
  <2>4. \A q \in Request : task'[q].step = "spending" => task'[q] = task[q]
    BY <2>2 DEF Others
  <2>5. Typed' /\ Current'
    BY <2>2, <2>3, <2>4, <1>0 DEF Typed, Current, At
  <2>6. Enrolling'
    <3> SUFFICES ASSUME ~unsettled' PROVE Enrolling'
      BY DEF Enrolling
    <3>1. \A s \in Others(r) : task[s].step \notin Changing
      BY <2>1, <1>0, Undisturbed DEF Typed
    <3> QED
      BY <3>1, <2>2 DEF Enrolling, Others, Changing, Clearing
  <2> QED
    BY <2>5, <2>6 DEF IInv
<1>8. ASSUME NEW r \in Request, DropCodes(r) PROVE IInv'
  <2>1. GoOn(r, "cleared") /\ Settle(r) /\ Cross(r) /\ task[r].step = "withdrawn"
    BY <1>8 DEF DropCodes, At
  <2>2. /\ task' \in [Request -> Task]
        /\ \A q \in Others(r) : task'[q] = task[q]
        /\ task'[r].step = "cleared"
    BY <2>1, <1>0, <1>S, GoOnTask
  <2>3. UNCHANGED <<enabled, seed, minted, proven, spent>> /\ codes' = {}
        /\ unsettled' \in BOOLEAN /\ crossed' \in BOOLEAN
    BY <1>8, <1>0 DEF DropCodes, Typed, Settle, Cross
  <2>4. \A q \in Request : task'[q].step = "spending" => task'[q] = task[q] /\ q \in Others(r)
    BY <2>2 DEF Others
  <2>5. Typed'
    BY <2>2, <2>3, <2>4, <1>0 DEF Typed, At
  <2>6. Current'
    <3> SUFFICES ASSUME ~crossed' PROVE Current'
      BY DEF Current
    <3>1. \A s \in Others(r) : task[s].step # "spending"
      BY <2>1, <1>0, Uncrossed DEF Typed
    <3> QED
      BY <3>1, <2>3, <2>4 DEF Current, At
  <2>7. Enrolling'
    <3> SUFFICES ASSUME ~unsettled' PROVE Enrolling'
      BY DEF Enrolling
    <3>1. \A s \in Others(r) : task[s].step \notin Changing
      BY <2>1, <1>0, Undisturbed DEF Typed
    <3> QED
      BY <3>1, <2>2 DEF Enrolling, Others, Changing, Clearing
  <2> QED
    BY <2>5, <2>6, <2>7 DEF IInv
<1>9. ASSUME NEW r \in Request, SetFlag(r) PROVE IInv'
  <2>1. Finish(r) /\ Settle(r) /\ task[r].step \in {"staged", "minted", "cleared"}
    BY <1>9 DEF SetFlag
  <2>2. /\ task' \in [Request -> Task]
        /\ \A q \in Others(r) : task'[q] = task[q]
        /\ task'[r] = Idle
    BY <2>1, <1>0, SetTask, IdleTask DEF Finish
  <2>3. UNCHANGED <<seed, codes, minted, proven, spent, crossed>>
        /\ enabled' = (task[r].step = "minted") /\ unsettled' \in BOOLEAN
    BY <1>9, <1>0 DEF SetFlag, Typed, Settle, At
  <2>4. \A q \in Request : task'[q].step = "spending" => task'[q] = task[q]
    BY <2>2 DEF Others, Idle
  <2>5. Typed' /\ Current'
    BY <2>2, <2>3, <2>4, <1>0 DEF Typed, Current, At
  <2>6. Enrolling'
    <3> SUFFICES ASSUME ~unsettled' PROVE Enrolling'
      BY DEF Enrolling
    <3>1. ~unsettled /\ \A s \in Others(r) : task[s].step \notin Changing
      BY <2>1, <1>0, Undisturbed DEF Typed
    <3>2. enabled' => seed \in proven
      BY <3>1, <2>3, <1>0 DEF Enrolling
    <3>3. \A q \in Request : task'[q].step \notin Changing
      BY <3>1, <2>2 DEF Others, Idle, Changing
    <3> QED
      BY <3>2, <3>3, <2>3 DEF Enrolling, Changing
  <2> QED
    BY <2>5, <2>6 DEF IInv
<1>10. ASSUME NEW r \in Request, ReadCodes(r) PROVE IInv'
  <2>1. /\ task' = [task EXCEPT ![r].step = "spending", ![r].seen = codes]
        /\ task[r].step = "reading" /\ task[r].token \in codes
    BY <1>10 DEF ReadCodes, At
  <2>2. task[r] \in Task /\ codes \subseteq Nat \X Nat
    BY <1>0, BoundAssumption DEF Typed, Minted
  <2>3. [task[r] EXCEPT !.step = "spending", !.seen = codes] \in Task
    BY <2>2, <1>S DEF Task
  <2>4. /\ task' \in [Request -> Task]
        /\ \A q \in Others(r) : task'[q] = task[q]
        /\ task'[r].step = "spending" /\ task'[r].seen = codes /\ task'[r].token = task[r].token
    BY <2>1, <2>2, <2>3, <1>0 DEF Task, Others
  <2>5. UNCHANGED <<enabled, seed, codes, minted, proven, spent, crossed, unsettled>>
    BY <1>10 DEF ReadCodes
  <2>6. Typed'
    BY <2>1, <2>4, <2>5, <1>0 DEF Typed, At, Others
  <2>7. Current'
    BY <2>4, <2>5, <1>0 DEF Current, At, Others
  <2>8. Enrolling'
    BY <2>1, <2>4, <2>5, <1>0 DEF Enrolling, Others, Clearing
  <2> QED
    BY <2>6, <2>7, <2>8 DEF IInv
<1>11. ASSUME NEW r \in Request, SpendCode(r) PROVE IInv'
  <2>1. Finish(r) /\ Cross(r) /\ task[r].step = "spending"
    BY <1>11 DEF SpendCode, At
  <2>2. /\ task' \in [Request -> Task]
        /\ \A q \in Others(r) : task'[q] = task[q]
        /\ task'[r].step = "idle"
    BY <2>1, <1>0, SetTask, IdleTask DEF Finish, Idle
  <2>3. /\ UNCHANGED <<enabled, seed, minted, proven, unsettled>>
        /\ codes' = task[r].seen \ {task[r].token} /\ spent' = spent \cup {task[r].token}
        /\ crossed' \in BOOLEAN
    BY <1>11, <1>0 DEF SpendCode, Remaining, Typed, Cross
  <2>4. \A q \in Request : task'[q].step = "spending" => task'[q] = task[q] /\ q \in Others(r)
    BY <2>2 DEF Others
  <2>5. task[r].seen \subseteq Minted(sets) /\ task[r].token \in task[r].seen
    BY <2>1, <1>0 DEF Typed, At
  <2>6. Typed'
    BY <2>2, <2>3, <2>4, <2>5, <1>0 DEF Typed, At
  <2>7. Current'
    <3> SUFFICES ASSUME ~crossed' PROVE Current'
      BY DEF Current
    <3>1. ~crossed /\ \A s \in Others(r) : task[s].step # "spending"
      BY <2>1, <1>0, Uncrossed DEF Typed
    <3>2. /\ task[r].seen = codes
          /\ codes \cap spent = {} /\ codes \subseteq {sets} \X (1 .. CodesPerSet)
      BY <3>1, <2>1, <1>0 DEF Current, At
    <3> QED
      BY <3>1, <3>2, <2>3, <2>4 DEF Current, At
  <2>8. Enrolling'
    BY <2>1, <2>2, <2>3, <1>0 DEF Enrolling, Others, Clearing
  <2> QED
    BY <2>6, <2>7, <2>8 DEF IInv
<1>12. ASSUME NEW r \in Request, Fail(r) PROVE IInv'
  <2>1. /\ task' \in [Request -> Task]
        /\ \A q \in Others(r) : task'[q] = task[q]
        /\ task'[r].step = "idle"
    BY <1>12, <1>0, SetTask, IdleTask DEF Fail, Finish, Idle
  <2>2. /\ UNCHANGED <<enabled, seed, codes, minted, proven, spent, crossed>>
        /\ unsettled' = (unsettled \/ task[r].step \in Clearing)
    BY <1>12 DEF Fail, Clearing
  <2>3. \A q \in Request : task'[q].step # "idle" => task'[q] = task[q]
    BY <2>1 DEF Others
  <2>4. Typed' /\ Current'
    BY <2>1, <2>2, <2>3, <1>0 DEF Typed, Current, At
  <2>5. Enrolling'
    <3> SUFFICES ASSUME ~unsettled' PROVE Enrolling'
      BY DEF Enrolling
    <3>1. ~unsettled /\ task[r].step \notin Clearing
      BY <2>2, <1>0 DEF Typed
    <3>2. \A q \in Request : task[q].step \in Clearing => task'[q].step \in Clearing
      BY <3>1, <2>1 DEF Others
    <3> QED
      BY <3>1, <3>2, <2>2, <2>3, <1>0 DEF Enrolling
  <2> QED
    BY <2>4, <2>5 DEF IInv
<1> QED
  BY <1>1, <1>2, <1>3, <1>4, <1>5, <1>6, <1>7, <1>8, <1>9, <1>10, <1>11, <1>12
  DEF Next, Handle, Plain

LEMMA Inductive == Spec => []IInv
BY InitInv, NextInv, PTL DEF Spec

\* The settings of the second factor and the requests about them keep their types;
\* a code that is about to be spent is one that was read.
THEOREM FactorTyped == Spec => []Typed
<1>1. IInv => Typed
  BY DEF IInv
<1> QED
  BY <1>1, Inductive, PTL

\* No spent code and no code of an earlier set is accepted, unless a write of the
\* codes crossed a request that had read them.
THEOREM CodeSafety == Spec => []CodesAreSingleUse
<1>1. IInv => CodesAreSingleUse
  BY DEF IInv, Current, CodesAreSingleUse
<1> QED
  BY <1>1, Inductive, PTL

\* The factor is on with a verified seed, unless changes of it overlapped or a
\* disable ended half way.
THEOREM EnrollmentSafety == Spec => []EnrolledWithSeed
<1>1. IInv => EnrolledWithSeed
  BY DEF IInv, Enrolling, EnrolledWithSeed, Clearing
<1> QED
  BY <1>1, Inductive, PTL

----------------------------------------------------------------------------

\* The first of some positions.
LEMMA Least ==
  ASSUME NEW T \in SUBSET Nat, T # {}
  PROVE  Min(T) \in T /\ \A m \in T : Min(T) <= m
<1>1. PICK n \in T : \A m \in T : ~ (<<m, n>> \in OpToRel(<, Nat))
  BY NatLessThanWellFounded, WFMin
<1>2. \A m \in T : ~ (m < n)
  BY <1>1 DEF OpToRel
<1>3. \A m \in T : n <= m
  BY <1>2
<1> QED
  BY <1>3 DEF Min

LEMMA TimeInt == Time \subseteq Int
BY BoundAssumption DEF Time

\* t is s without its first n elements.
Cut(s, n, t) ==
  /\ s \in Seq(Time) /\ t \in Seq(Time)
  /\ n \in 0 .. Len(s)
  /\ Len(t) = Len(s) - n
  /\ \A i \in 1 .. Len(t) : t[i] = s[i + n]

\* Trim drops what is over, up to the first time that is not.
Drops(s, over, n) ==
  /\ Cut(s, n, Trim(s, over))
  /\ \A i \in 1 .. n : s[i] \in over
  /\ n < Len(s) => s[n + 1] \notin over

LEMMA TrimDrops ==
  ASSUME NEW s \in Seq(Time), NEW over
  PROVE  \E n \in 0 .. Len(s) : Drops(s, over, n)
<1> DEFINE kept == {i \in DOMAIN s : s[i] \notin over}
<1>1. Len(s) \in Nat /\ DOMAIN s = 1 .. Len(s) /\ \A i \in 1 .. Len(s) : s[i] \in Time
  BY LenProperties
<1>2. CASE kept = {}
  <2>1. Trim(s, over) = <<>>
    BY <1>2 DEF Trim
  <2>2. Drops(s, over, Len(s))
    BY <2>1, <1>1, <1>2 DEF Drops, Cut
  <2> QED
    BY <2>2, <1>1
<1>3. CASE kept # {}
  <2>1. PICK m : m = Min(kept)
    OBVIOUS
  <2>2. m \in kept /\ \A k \in kept : m <= k
    <3>1. kept \in SUBSET Nat
      BY <1>1
    <3> HIDE DEF kept
    <3> QED
      BY <3>1, <2>1, <1>3, Least
  <2>3. m \in 1 .. Len(s) /\ \A i \in 1 .. m - 1 : s[i] \in over
    BY <2>2, <1>1
  <2>4. Trim(s, over) = SubSeq(s, m, Len(s))
    BY <2>1, <1>3 DEF Trim
  <2>5. \A i \in m .. Len(s) : s[i] \in Time
    BY <1>1, <2>3
  <2>6. /\ SubSeq(s, m, Len(s)) \in Seq(Time)
        /\ Len(SubSeq(s, m, Len(s))) = Len(s) - m + 1
        /\ \A i \in 1 .. Len(s) - m + 1 : SubSeq(s, m, Len(s))[i] = s[m + i - 1]
    BY <2>3, <2>5, <1>1, SubSeqProperties
  <2>7. Cut(s, m - 1, Trim(s, over))
    BY <2>3, <2>4, <2>6, <1>1 DEF Cut
  <2> QED
    BY <2>2, <2>3, <2>7, <1>1 DEF Drops
<1> QED
  BY <1>2, <1>3

LEMMA TrimType ==
  ASSUME NEW s \in Seq(Time), NEW over
  PROVE  Trim(s, over) \in Seq(Time) /\ Len(Trim(s, over)) \in Nat /\ Len(Trim(s, over)) <= Len(s)
<1>1. PICK n \in 0 .. Len(s) : Drops(s, over, n)
  BY TrimDrops
<1> QED
  BY <1>1, LenProperties DEF Drops, Cut

\* The more is over, the less is kept.
LEMMA TrimLess ==
  ASSUME NEW s \in Seq(Time), NEW over, NEW more, over \subseteq more
  PROVE  Len(Trim(s, more)) <= Len(Trim(s, over))
<1>1. PICK n \in 0 .. Len(s) : Drops(s, over, n)
  BY TrimDrops
<1>2. PICK m \in 0 .. Len(s) : Drops(s, more, m)
  BY TrimDrops
<1>3. Len(s) \in Nat
  BY LenProperties
<1>4. ~ (m < n)
  <2> SUFFICES ASSUME m < n PROVE FALSE
    OBVIOUS
  <2>1. m + 1 \in 1 .. n /\ m < Len(s)
    BY <1>3
  <2> QED
    BY <2>1, <1>1, <1>2 DEF Drops
<1> QED
  BY <1>1, <1>2, <1>3, <1>4 DEF Drops, Cut

\* One more row, one more kept.
LEMMA TrimAppend ==
  ASSUME NEW s \in Seq(Time), NEW over, NEW x \in Time
  PROVE  Len(Trim(Append(s, x), over)) <= Len(Trim(s, over)) + 1
<1>1. /\ Append(s, x) \in Seq(Time) /\ Len(Append(s, x)) = Len(s) + 1 /\ Len(s) \in Nat
      /\ \A i \in 1 .. Len(s) : Append(s, x)[i] = s[i]
  BY AppendProperties, LenProperties
<1>2. PICK n \in 0 .. Len(s) : Drops(s, over, n)
  BY TrimDrops
<1>3. PICK m \in 0 .. Len(s) + 1 : Drops(Append(s, x), over, m)
  BY <1>1, TrimDrops
<1>4. ~ (m < n)
  <2> SUFFICES ASSUME m < n PROVE FALSE
    OBVIOUS
  <2>1. m + 1 \in 1 .. n /\ m + 1 \in 1 .. Len(s)
    BY <1>1
  <2>2. s[m + 1] \in over
    BY <2>1, <1>2 DEF Drops
  <2>3. Append(s, x)[m + 1] \notin over
    BY <2>1, <1>1, <1>3 DEF Drops
  <2> QED
    BY <2>1, <2>2, <2>3, <1>1
<1> QED
  BY <1>1, <1>2, <1>3, <1>4 DEF Drops, Cut

----------------------------------------------------------------------------

\* What the deque of a limiter holds at t: of all that was let through, all but some
\* of what is over.
Window(full, deque, t) ==
  /\ full \in Seq(Time) /\ deque \in Seq(Time)
  /\ \A i \in 1 .. Len(full) : full[i] <= t
  /\ \A i, j \in 1 .. Len(full) : i <= j => full[i] <= full[j]
  /\ \E n \in 0 .. Len(full) : Cut(full, n, deque) /\ \A i \in 1 .. n : full[i] <= t - Period

LEMMA WindowEmpty ==
  ASSUME NEW t \in Time
  PROVE  Window(<<>>, <<>>, t)
<1>1. <<>> \in Seq(Time) /\ Len(<<>>) = 0
  BY EmptySeq
<1>2. Cut(<<>>, 0, <<>>)
  BY <1>1 DEF Cut
<1> QED
  BY <1>1, <1>2 DEF Window

LEMMA WindowLater ==
  ASSUME NEW full, NEW deque, NEW t \in Time, NEW u \in Time, t <= u, Window(full, deque, t)
  PROVE  Window(full, deque, u)
<1>1. Period \in Nat /\ t \in Int /\ u \in Int /\ Len(full) \in Nat
  BY LimitAssumption, BoundAssumption, LenProperties DEF Time, Window
<1>2. PICK n \in 0 .. Len(full) : Cut(full, n, deque) /\ \A i \in 1 .. n : full[i] <= t - Period
  BY DEF Window
<1>3. \A i \in 1 .. Len(full) : full[i] \in Int
  BY ElementOfSeq, BoundAssumption DEF Window, Time
<1>4. \A i \in 1 .. n : full[i] <= u - Period
  BY <1>1, <1>2, <1>3
<1>5. \A i \in 1 .. Len(full) : full[i] <= u
  BY <1>1, <1>3 DEF Window
<1> QED
  BY <1>2, <1>4, <1>5 DEF Window

LEMMA WindowAppend ==
  ASSUME NEW full, NEW deque, NEW t \in Time, Window(full, deque, t)
  PROVE  Window(Append(full, t), Append(deque, t), t)
<1>1. PICK n \in 0 .. Len(full) : Cut(full, n, deque) /\ \A i \in 1 .. n : full[i] <= t - Period
  BY DEF Window
<1>2. full \in Seq(Time) /\ deque \in Seq(Time) /\ Len(full) \in Nat /\ Len(deque) = Len(full) - n /\ t \in Int
  BY <1>1, TimeInt, LenProperties DEF Window, Cut
<1>3. /\ Append(full, t) \in Seq(Time) /\ Len(Append(full, t)) = Len(full) + 1
      /\ \A i \in 1 .. Len(full) : Append(full, t)[i] = full[i]
      /\ Append(full, t)[Len(full) + 1] = t
  BY <1>2, AppendProperties
<1>4. /\ Append(deque, t) \in Seq(Time) /\ Len(Append(deque, t)) = Len(deque) + 1
      /\ \A i \in 1 .. Len(deque) : Append(deque, t)[i] = deque[i]
      /\ Append(deque, t)[Len(deque) + 1] = t
  BY <1>2, AppendProperties
<1>5. ASSUME NEW i \in 1 .. Len(deque) + 1
      PROVE  Append(deque, t)[i] = Append(full, t)[i + n]
  <2>1. CASE i = Len(deque) + 1
    BY <2>1, <1>2, <1>3, <1>4
  <2>2. CASE i \in 1 .. Len(deque)
    <3>1. i + n \in 1 .. Len(full)
      BY <2>2, <1>2
    <3> QED
      BY <3>1, <2>2, <1>1, <1>3, <1>4 DEF Cut
  <2> QED
    BY <2>1, <2>2, <1>2
<1>6. Cut(Append(full, t), n, Append(deque, t))
  <2>1. n \in 0 .. Len(Append(full, t)) /\ Len(Append(deque, t)) = Len(Append(full, t)) - n
    BY <1>2, <1>3, <1>4
  <2>2. \A i \in 1 .. Len(Append(deque, t)) : Append(deque, t)[i] = Append(full, t)[i + n]
    BY <1>4, <1>5
  <2> QED
    BY <2>1, <2>2, <1>3, <1>4 DEF Cut
<1>7. \A i \in 1 .. n : Append(full, t)[i] <= t - Period
  BY <1>1, <1>2, <1>3
<1>8. \A i \in 1 .. Len(full) + 1 : Append(full, t)[i] <= t
  BY <1>2, <1>3 DEF Window
<1>9. ASSUME NEW i \in 1 .. Len(full) + 1, NEW j \in 1 .. Len(full) + 1, i <= j
      PROVE  Append(full, t)[i] <= Append(full, t)[j]
  <2>1. CASE j = Len(full) + 1
    BY <2>1, <1>3, <1>8
  <2>2. CASE j \in 1 .. Len(full)
    BY <2>2, <1>2, <1>3, <1>9 DEF Window
  <2> QED
    BY <2>1, <2>2, <1>2
<1>10. n \in 0 .. Len(Append(full, t))
  BY <1>2, <1>3
<1> QED
  BY <1>3, <1>4, <1>6, <1>7, <1>8, <1>9, <1>10 DEF Window

\* Trimmed, the deque is exactly what was let through in the period before.
Over(t) == {u \in Time : u <= t - Period}
LEMMA WindowTrim ==
  ASSUME NEW full, NEW deque, NEW t \in Time, Window(full, deque, t)
  PROVE  /\ Window(full, Trim(deque, Over(t)), t)
         /\ Len(Trim(deque, Over(t))) = Cardinality({i \in DOMAIN full : full[i] > t - Period})
<1>1. PICK n \in 0 .. Len(full) : Cut(full, n, deque) /\ \A i \in 1 .. n : full[i] <= t - Period
  BY DEF Window
<1>2. /\ full \in Seq(Time) /\ deque \in Seq(Time) /\ Len(full) \in Nat
      /\ Len(deque) = Len(full) - n /\ t \in Int /\ Period \in Nat
      /\ DOMAIN full = 1 .. Len(full)
  BY <1>1, TimeInt, LenProperties, LimitAssumption DEF Window, Cut
<1>3. PICK m \in 0 .. Len(deque) : Drops(deque, Over(t), m)
  BY <1>2, TrimDrops
<1>4. PICK kept : kept = Trim(deque, Over(t))
  OBVIOUS
<1>5. Cut(deque, m, kept)
  BY <1>3, <1>4 DEF Drops
<1>6. kept \in Seq(Time) /\ Len(kept) = Len(full) - (n + m) /\ n + m \in 0 .. Len(full)
  BY <1>2, <1>5 DEF Cut
<1>7. Cut(full, n + m, kept)
  <2>1. ASSUME NEW i \in 1 .. Len(kept) PROVE kept[i] = full[i + (n + m)]
    <3>1. i + m \in 1 .. Len(deque) /\ (i + m) + n = i + (n + m)
      BY <1>2, <1>6
    <3>2. kept[i] = deque[i + m] /\ deque[i + m] = full[(i + m) + n]
      BY <3>1, <1>1, <1>5 DEF Cut
    <3> QED
      BY <3>1, <3>2
  <2> QED
    BY <2>1, <1>2, <1>6 DEF Cut
<1>8. ASSUME NEW i \in 1 .. n + m PROVE full[i] <= t - Period
  <2>1. CASE i \in 1 .. n
    BY <2>1, <1>1
  <2>2. CASE i \notin 1 .. n
    <3>1. i - n \in 1 .. m /\ i - n \in 1 .. Len(deque) /\ (i - n) + n = i
      BY <2>2, <1>2
    <3>2. deque[i - n] = full[i] /\ deque[i - n] \in Over(t)
      BY <3>1, <1>1, <1>3 DEF Cut, Drops
    <3> QED
      BY <3>2 DEF Over
  <2> QED
    BY <2>1, <2>2
<1>9. Window(full, kept, t)
  BY <1>6, <1>7, <1>8 DEF Window
<1>10. ASSUME NEW i \in n + m + 1 .. Len(full) PROVE full[i] > t - Period
  <2>1. m < Len(deque) /\ m + 1 \in 1 .. Len(deque)
    BY <1>2
  <2>2. deque[m + 1] = full[m + 1 + n] /\ deque[m + 1] \in Time /\ deque[m + 1] \notin Over(t)
    BY <2>1, <1>1, <1>2, <1>3, ElementOfSeq DEF Cut, Drops
  <2>3. full[n + m + 1] > t - Period /\ full[n + m + 1] \in Int
    BY <2>2, <1>2 DEF Over, Time
  <2>4. full[n + m + 1] <= full[i] /\ full[i] \in Int
    <3>1. n + m + 1 \in 1 .. Len(full) /\ i \in 1 .. Len(full) /\ n + m + 1 <= i
      BY <1>2
    <3>2. full[i] \in Time
      BY <3>1, <1>2, ElementOfSeq
    <3> QED
      BY <3>1, <3>2 DEF Window, Time
  <2> QED
    BY <2>3, <2>4, <1>2
<1>11. {i \in DOMAIN full : full[i] > t - Period} = n + m + 1 .. Len(full)
  <2>1. \A i \in 1 .. Len(full) : full[i] \in Int
    BY <1>2, TimeInt, ElementOfSeq
  <2>2. \A i \in 1 .. n + m : i \in 1 .. Len(full) /\ ~ (full[i] > t - Period)
    BY <1>2, <1>6, <1>8, <2>1
  <2>3. \A i \in 1 .. Len(full) : i \in 1 .. n + m \/ i \in n + m + 1 .. Len(full)
    BY <1>2
  <2> QED
    BY <2>2, <2>3, <1>2, <1>6, <1>10
<1>12. Cardinality(n + m + 1 .. Len(full)) = Len(full) - (n + m)
  <2>1. PICK a \in Int, b \in Int : a = n + m + 1 /\ b = Len(full)
    BY <1>2, <1>6
  <2>2. Cardinality(a .. b) = IF a > b THEN 0 ELSE b - a + 1
    BY FS_Interval
  <2> QED
    BY <2>1, <2>2, <1>2, <1>6
<1> QED
  BY <1>4, <1>6, <1>9, <1>11, <1>12

----------------------------------------------------------------------------

\* The limiters: their clock, and of each path what was let through and what is kept.
Windows ==
  /\ now \in Time
  /\ hits = [p \in Path |-> hits[p]] /\ passed = [p \in Path |-> passed[p]]
  /\ \A p \in Path : Window(passed[p], hits[p], now)

\* The lockout: rows, and requests that may add one.
Checks == {r \in Request : task[r].step \in Checking}
Lockout ==
  /\ failures \in Seq(Time)
  /\ Len(Recent) + Cardinality(Checks) <= MaxFailures - 1 + Cardinality(Request)

LInv == Windows /\ Lockout

LEMMA InitLInv == Init => LInv
<1> SUFFICES ASSUME Init PROVE LInv
  OBVIOUS
<1>1. now \in Time
  BY BoundAssumption DEF Init, Time
<1>2. Windows
  BY <1>1, WindowEmpty DEF Init, Windows
<1>3. failures \in Seq(Time) /\ Len(failures) = 0
  BY EmptySeq DEF Init
<1>4. Checks = {}
  BY DEF Init, Idle, Checks, Checking
<1>5. Len(Recent) = 0
  <2>1. Recent = Trim(failures, Forgotten)
    BY DEF Recent
  <2>2. Len(Recent) \in Nat /\ Len(Recent) <= Len(failures)
    BY <2>1, <1>3, TrimType
  <2> QED
    BY <2>2, <1>3
<1>6. Cardinality(Checks) = 0 /\ Cardinality(Request) \in Nat /\ MaxFailures \in Nat \ {0}
  BY <1>4, FS_EmptySet, FS_CardinalityType, RequestAssumption, LockoutAssumption
<1> QED
  BY <1>2, <1>3, <1>5, <1>6 DEF LInv, Lockout

\* Trimming is what RateLimit does first.
LEMMA LiveIsWindow ==
  ASSUME Windows, NEW p \in Path
  PROVE  Window(passed[p], Live(p), now) /\ Len(Live(p)) = InPeriod(p)
<1>1. Live(p) = Trim(hits[p], Over(now))
  BY DEF Live, Expired, Over
<1>2. PICK full, deque, t : full = passed[p] /\ deque = hits[p] /\ t = now
  OBVIOUS
<1>3. t \in Time /\ Window(full, deque, t)
  BY <1>2 DEF Windows
<1>4. /\ Window(full, Trim(deque, Over(t)), t)
      /\ Len(Trim(deque, Over(t))) = Cardinality({i \in DOMAIN full : full[i] > t - Period})
  BY <1>3, WindowTrim
<1> QED
  BY <1>1, <1>2, <1>4 DEF InPeriod

LEMMA RefuseKeeps ==
  ASSUME Windows, NEW r \in Request, NEW p \in Path, Refuse(r, p)
  PROVE  Windows'
<1>1. hits' = [hits EXCEPT ![p] = Live(p)] /\ UNCHANGED <<now, passed>>
  BY DEF Refuse
<1>2. hits' = [q \in Path |-> hits'[q]] /\ hits'[p] = Live(p) /\ \A q \in Path \ {p} : hits'[q] = hits[q]
  BY <1>1 DEF Windows
<1>3. \A q \in Path : Window(passed[q], hits'[q], now)
  BY <1>2, LiveIsWindow DEF Windows
<1> QED
  BY <1>1, <1>2, <1>3 DEF Windows

LEMMA PassKeeps ==
  ASSUME Windows, NEW r \in Request, NEW p \in Path, Pass(r, p), now' = now
  PROVE  Windows'
<1>1. /\ hits' = [hits EXCEPT ![p] = Append(Live(p), now)]
      /\ passed' = [passed EXCEPT ![p] = Append(passed[p], now)]
  BY DEF Pass
<1>2. /\ hits' = [q \in Path |-> hits'[q]] /\ passed' = [q \in Path |-> passed'[q]]
      /\ hits'[p] = Append(Live(p), now) /\ passed'[p] = Append(passed[p], now)
      /\ \A q \in Path \ {p} : hits'[q] = hits[q] /\ passed'[q] = passed[q]
  BY <1>1 DEF Windows
<1>3. Window(passed'[p], hits'[p], now)
  BY <1>2, LiveIsWindow, WindowAppend DEF Windows
<1>4. \A q \in Path \ {p} : Window(passed'[q], hits'[q], now)
  BY <1>2 DEF Windows
<1> QED
  BY <1>2, <1>3, <1>4 DEF Windows

\* A step that leaves the failures, and adds nobody who may record one.
Calm == UNCHANGED <<now, failures>> /\ Checks' \subseteq Checks

LEMMA CalmKeeps ==
  ASSUME Lockout, Calm
  PROVE  Lockout'
<1>1. Recent' = Recent /\ failures' = failures
  BY DEF Calm, Recent, Forgotten
<1>2. IsFiniteSet(Checks) /\ IsFiniteSet(Checks')
  BY RequestAssumption, FS_Subset DEF Checks
<1>3. Cardinality(Checks') <= Cardinality(Checks)
  BY <1>2, FS_Subset DEF Calm
<1>4. /\ Cardinality(Checks) \in Nat /\ Cardinality(Checks') \in Nat /\ Cardinality(Request) \in Nat
      /\ Len(Recent) \in Nat /\ MaxFailures \in Nat
  BY <1>2, FS_CardinalityType, RequestAssumption, LockoutAssumption, TrimType DEF Lockout, Recent
<1> QED
  BY <1>1, <1>3, <1>4 DEF Lockout

LEMMA CountKeeps ==
  ASSUME Typed, Windows, Lockout, NEW r \in Request, CountFailures(r)
  PROVE  Lockout'
<1>1. failures' = Recent /\ UNCHANGED now
  BY DEF CountFailures
<1>2. failures' \in Seq(Time) /\ Len(Recent) \in Nat
  BY <1>1, TrimType DEF Lockout, Recent
<1>3. Recent' = Trim(failures', Forgotten)
  BY <1>1 DEF Recent, Forgotten
<1>4. Len(Recent') \in Nat /\ Len(Recent') <= Len(Recent)
  BY <1>1, <1>2, <1>3, TrimType
<1>5. /\ IsFiniteSet(Checks) /\ IsFiniteSet(Checks')
      /\ Cardinality(Checks') <= Cardinality(Request)
  BY RequestAssumption, FS_Subset DEF Checks
<1>6. /\ Cardinality(Checks) \in Nat /\ Cardinality(Checks') \in Nat
      /\ Cardinality(Request) \in Nat /\ MaxFailures \in Nat
  BY <1>5, FS_CardinalityType, RequestAssumption, LockoutAssumption
<1>7. CASE Locked(Len(Recent))
  <2>1. Finish(r)
    BY <1>7 DEF CountFailures
  <2>2. Checks' \subseteq Checks
    BY <2>1, SetTask, IdleTask DEF Finish, Idle, Checks, Checking, Others
  <2>3. Cardinality(Checks') <= Cardinality(Checks)
    BY <2>2, <1>5, FS_Subset
  <2> QED
    BY <2>3, <1>1, <1>2, <1>4, <1>6 DEF Lockout
<1>8. CASE ~ Locked(Len(Recent))
  <2>1. Len(Recent) < MaxFailures
    BY <1>8, <1>2, <1>6 DEF Locked
  <2> QED
    BY <2>1, <1>2, <1>4, <1>5, <1>6 DEF Lockout
<1> QED
  BY <1>7, <1>8

LEMMA MistakeKeeps ==
  ASSUME Typed, Windows, Lockout, NEW r \in Request, Mistake(r)
  PROVE  Lockout'
<1>1. failures' = Append(failures, now) /\ UNCHANGED now /\ Finish(r) /\ r \in Checks
  BY DEF Mistake, Checks
<1>2. failures' \in Seq(Time) /\ now \in Time /\ Len(Recent) \in Nat
  BY <1>1, AppendProperties, TrimType DEF Lockout, Windows, Recent
<1>3. Recent' = Trim(Append(failures, now), Forgotten)
  BY <1>1 DEF Recent, Forgotten
<1>4. Len(Recent') <= Len(Recent) + 1 /\ Len(Recent') \in Nat
  BY <1>1, <1>2, <1>3, TrimAppend, TrimType DEF Recent, Lockout
<1>5. Checks' = Checks \ {r}
  BY <1>1, SetTask, IdleTask DEF Finish, Idle, Checks, Checking, Others
<1>6. IsFiniteSet(Checks)
  BY RequestAssumption, FS_Subset DEF Checks
<1>7. Cardinality(Checks') = Cardinality(Checks) - 1
  BY <1>1, <1>5, <1>6, FS_RemoveElement
<1>8. Cardinality(Checks) \in Nat /\ Cardinality(Request) \in Nat /\ MaxFailures \in Nat
  BY <1>6, FS_CardinalityType, RequestAssumption, LockoutAssumption
<1> QED
  BY <1>2, <1>4, <1>7, <1>8 DEF Lockout

LEMMA TickKeeps ==
  ASSUME LInv, Tick
  PROVE  LInv'
<1>1. now' = now + 1 /\ now < MaxTime /\ UNCHANGED <<hits, passed, failures, task>>
  BY DEF Tick
<1>2. now \in Time /\ now' \in Time /\ now <= now' /\ now \in Int /\ now' \in Int
  BY <1>1, BoundAssumption DEF LInv, Windows, Time
<1>3. Windows'
  BY <1>1, <1>2, WindowLater DEF LInv, Windows
<1>4. Forgotten \subseteq Forgotten'
  <2>1. \A t \in Time : t < now - LockoutWindow => t < now' - LockoutWindow
    BY <1>1, <1>2, TimeInt, LockoutAssumption
  <2> QED
    BY <2>1 DEF Forgotten
<1>5. Recent' = Trim(failures, Forgotten') /\ Recent = Trim(failures, Forgotten)
  BY <1>1 DEF Recent
<1>6. Len(Recent') <= Len(Recent) /\ Len(Recent) \in Nat /\ Len(Recent') \in Nat
  BY <1>4, <1>5, TrimLess, TrimType DEF LInv, Lockout
<1>7. Checks' = Checks /\ Cardinality(Checks) \in Nat /\ Cardinality(Request) \in Nat /\ MaxFailures \in Nat
  BY <1>1, FS_CardinalityType, FS_Subset, RequestAssumption, LockoutAssumption DEF Checks
<1>8. Lockout'
  BY <1>1, <1>6, <1>7 DEF LInv, Lockout
<1> QED
  BY <1>3, <1>8 DEF LInv

\* What the step of a request can do to the limiters and to the lockout.
Limits(r) ==
  \/ UNCHANGED <<now, hits, passed>>
  \/ \E p \in Path : Refuse(r, p) \/ (Pass(r, p) /\ now' = now)
Fails(r) == Calm \/ CountFailures(r) \/ Mistake(r)

LEMMA HandleLimits ==
  ASSUME NEW r \in Request, Handle(r)
  PROVE  Limits(r)
<1> USE DEF Limits, quiet, clock
<1>1. CASE \E p \in Path : Refuse(r, p)
  BY <1>1
<1>2. CASE \E p \in {AdminLogin, UserLogin} : Login(r, p)
  BY <1>2, Paths DEF Login
<1>3. CASE SignUp(r)
  BY <1>3, Paths DEF SignUp
<1>4. CASE \E t \in SeedTokens \cup Codes : Verify(r, t)
  BY <1>4, Paths DEF Verify
<1>5. CASE CountFailures(r) \/ Mistake(r) \/ Match(r) \/ AskFactor(r)
  BY <1>5 DEF CountFailures, Mistake, Match, AskFactor
<1>6. CASE (\E a \in {"active", "disabled"} : SetDisabled(r, a)) \/ Setup(r) \/ StageSeed(r)
  BY <1>6 DEF SetDisabled, Setup, StageSeed
<1>7. CASE \E t \in SeedTokens : Prove(r, t) \/ Withdraw(r, t)
  BY <1>7 DEF Prove, Withdraw
<1>8. CASE VerifySeed(r) \/ MintCodes(r) \/ VerifyLeaving(r) \/ DropSeed(r) \/ DropCodes(r)
  BY <1>8 DEF VerifySeed, MintCodes, VerifyLeaving, DropSeed, DropCodes
<1>9. CASE SetFlag(r) \/ MatchSeed(r) \/ ReadCodes(r) \/ SpendCode(r) \/ Fail(r)
  BY <1>9 DEF SetFlag, MatchSeed, ReadCodes, SpendCode, Fail
<1> QED
  BY <1>1, <1>2, <1>3, <1>4, <1>5, <1>6, <1>7, <1>8, <1>9 DEF Handle

LEMMA HandleFails ==
  ASSUME Typed, NEW r \in Request, Handle(r)
  PROVE  Fails(r)
<1> USE DEF Fails, quiet, clock
<1>1. ASSUME UNCHANGED <<now, failures>>, NEW s \in Steps \ Checking, GoOn(r, s) PROVE Calm
  BY <1>1, GoOnTask DEF Calm, Checks, Others
<1>2. ASSUME UNCHANGED <<now, failures>>, Finish(r) PROVE Calm
  <2>1. task' = [task EXCEPT ![r] = Idle]
    BY <1>2 DEF Finish
  <2> QED
    BY <2>1, <1>2, SetTask, IdleTask DEF Calm, Checks, Others, Idle, Checking
<1>3. ASSUME UNCHANGED <<now, failures>>, NEW s \in Steps \ Checking, NEW t \in Nat \X Nat, Begin(r, s, t)
      PROVE  Calm
  <2>1. task' = [task EXCEPT ![r] = [step |-> s, token |-> t, seen |-> {}]]
    BY <1>3 DEF Begin
  <2> QED
    BY <2>1, <1>3, BegunTask, SetTask DEF Calm, Checks, Others
<1>4. ASSUME UNCHANGED <<now, failures, task>> PROVE Calm
  BY <1>4 DEF Calm, Checks
<1>5. {"asking", "counting", "counting user", "withdrawing", "reading", "staging", "proving", "leaving",
       "matching", "staged", "minting", "minted", "withdrawn", "cleared", "spending"} \subseteq Steps \ Checking
  BY DEF Steps, Checking, Changing
<1>6. CASE (\E p \in Path : Refuse(r, p)) \/ SignUp(r) \/ (\E a \in {"active", "disabled"} : SetDisabled(r, a))
  BY <1>6, <1>4 DEF Refuse, SignUp, SetDisabled
<1>7. CASE \E p \in {AdminLogin, UserLogin} : Login(r, p)
  BY <1>7, <1>3, <1>5, KnownTokens, BoundAssumption DEF Login
<1>8. CASE Match(r)
  BY <1>8, <1>1, <1>2, <1>5 DEF Match
<1>9. CASE AskFactor(r)
  BY <1>9, <1>2 DEF AskFactor
<1>10. CASE Setup(r)
  BY <1>10, <1>3, <1>5, KnownTokens, BoundAssumption DEF Setup
<1>11. CASE \E t \in SeedTokens : Prove(r, t) \/ Withdraw(r, t)
  BY <1>11, <1>3, <1>5, KnownTokens, BoundAssumption DEF Prove, Withdraw
<1>12. CASE \E t \in SeedTokens \cup Codes : Verify(r, t)
  BY <1>12, <1>3, <1>4, <1>5, KnownTokens, BoundAssumption DEF Verify
<1>13. CASE StageSeed(r) \/ VerifySeed(r) \/ MintCodes(r)
  BY <1>13, <1>1, <1>5 DEF StageSeed, VerifySeed, MintCodes
<1>14. CASE VerifyLeaving(r) \/ DropSeed(r) \/ DropCodes(r)
  BY <1>14, <1>1, <1>5 DEF VerifyLeaving, DropSeed, DropCodes
<1>15. CASE SetFlag(r) \/ SpendCode(r) \/ Fail(r)
  BY <1>15, <1>2 DEF SetFlag, SpendCode, Fail
<1>16. CASE MatchSeed(r)
  BY <1>16, <1>1, <1>2, <1>5 DEF MatchSeed
<1>17. CASE ReadCodes(r)
  <2>1. UNCHANGED <<now, failures>> /\ task' = [task EXCEPT ![r].step = "spending", ![r].seen = codes]
    BY <1>17 DEF ReadCodes
  <2>2. \A q \in Request : task'[q].step \in Checking => task[q].step \in Checking
    BY <2>1 DEF Typed, Checking
  <2> QED
    BY <2>1, <2>2 DEF Calm, Checks
<1> QED
  BY <1>6, <1>7, <1>8, <1>9, <1>10, <1>11, <1>12, <1>13, <1>14, <1>15, <1>16, <1>17 DEF Handle

LEMMA RequestKeeps ==
  ASSUME Typed, LInv, NEW r \in Request, Limits(r), Fails(r)
  PROVE  LInv'
<1>1. Windows'
  <2>1. CASE UNCHANGED <<now, hits, passed>>
    BY <2>1 DEF LInv, Windows
  <2>2. CASE \E p \in Path : Refuse(r, p) \/ (Pass(r, p) /\ now' = now)
    BY <2>2, RefuseKeeps, PassKeeps DEF LInv
  <2> QED
    BY <2>1, <2>2 DEF Limits
<1>2. Lockout'
  BY CalmKeeps, CountKeeps, MistakeKeeps DEF LInv, Fails
<1> QED
  BY <1>1, <1>2 DEF LInv

LEMMA NextLInv == Typed /\ LInv /\ [Next]_vars => LInv'
<1> SUFFICES ASSUME Typed, LInv, [Next]_vars PROVE LInv'
  OBVIOUS
<1>1. CASE UNCHANGED vars
  BY <1>1 DEF vars, clock, LInv, Windows, Lockout, Recent, Forgotten, Checks
<1>2. CASE Tick
  BY <1>2, TickKeeps
<1>3. CASE \E r \in Request : Handle(r)
  BY <1>3, HandleLimits, HandleFails, RequestKeeps
<1> QED
  BY <1>1, <1>2, <1>3 DEF Next

LEMMA LimitsInductive == Spec => [](IInv /\ LInv)
<1>1. IInv => Typed
  BY DEF IInv
<1> QED
  BY <1>1, Inductive, InitLInv, NextLInv, PTL DEF Spec

LEMMA LInvBounds == LInv => LockoutBounds
<1> SUFFICES ASSUME LInv PROVE LockoutBounds
  OBVIOUS
<1>1. /\ Cardinality(Checks) \in Nat /\ Cardinality(Request) \in Nat /\ MaxFailures \in Nat
      /\ Len(Recent) \in Nat
  BY FS_CardinalityType, FS_Subset, RequestAssumption, LockoutAssumption, TrimType
  DEF Checks, LInv, Lockout, Recent
<1> QED
  BY <1>1 DEF LInv, Lockout, LockoutBounds

\* Overlapping logins go past the lockout's maximum by one each at most.
THEOREM LockoutSafety == Spec => []LockoutBounds
BY LInvBounds, LimitsInductive, PTL

\* What a limiter lets through or refuses at a step.
Exactly ==
  \A p \in Path :
    /\ passed'[p] # passed[p] => InPeriod(p) < Limit[p]
    /\ (\E r \in Request : Refuse(r, p)) => InPeriod(p) >= Limit[p]

LEMMA StepExact ==
  ASSUME Windows, NEW r \in Request, Limits(r)
  PROVE  Exactly
<1> SUFFICES ASSUME NEW p \in Path
             PROVE  /\ passed'[p] # passed[p] => InPeriod(p) < Limit[p]
                    /\ (\E q \in Request : Refuse(q, p)) => InPeriod(p) >= Limit[p]
  BY DEF Exactly
<1>1. Len(Live(p)) = InPeriod(p) /\ Len(Live(p)) \in Nat /\ Limit[p] \in Nat
  BY LiveIsWindow, LenProperties, LimitAssumption DEF Window
<1>2. (\E q \in Request : Refuse(q, p)) => InPeriod(p) >= Limit[p]
  BY <1>1 DEF Refuse, Limited
<1>3. ASSUME passed'[p] # passed[p] PROVE InPeriod(p) < Limit[p]
  <2>1. PICK q \in Path : Pass(r, q)
    BY <1>3 DEF Limits, Refuse
  <2>2. passed' = [passed EXCEPT ![q] = Append(@, now)] /\ ~Limited(q)
    BY <2>1 DEF Pass
  <2>3. q = p
    BY <2>2, <1>3 DEF Windows
  <2> QED
    BY <2>2, <2>3, <1>1 DEF Limited
<1> QED
  BY <1>2, <1>3

LEMMA IdleExact ==
  ASSUME Windows, UNCHANGED passed
  PROVE  Exactly
<1>1. ASSUME NEW p \in Path, NEW r \in Request, Refuse(r, p) PROVE InPeriod(p) >= Limit[p]
  BY <1>1, LiveIsWindow DEF Refuse, Limited
<1> QED
  BY <1>1 DEF Exactly

\* A limiter lets a request through, or refuses it, exactly as what it has let through
\* in the period before says.
THEOREM LimiterExactness == Spec => LimiterIsExact
<1>1. LInv /\ [Next]_vars =>
        [\A p \in Path :
           /\ passed'[p] # passed[p] => InPeriod(p) < Limit[p]
           /\ (\E r \in Request : Refuse(r, p)) => InPeriod(p) >= Limit[p]]_vars
  <2> SUFFICES ASSUME LInv, Next PROVE Exactly
    BY DEF Exactly
  <2>1. CASE Tick
    BY <2>1, IdleExact DEF Tick, LInv
  <2>2. CASE \E r \in Request : Handle(r)
    BY <2>2, HandleLimits, StepExact DEF LInv
  <2> QED
    BY <2>1, <2>2 DEF Next
<1> QED
  BY <1>1, LimitsInductive, PTL DEF Spec, LimiterIsExact

----------------------------------------------------------------------------


\* What the rows and the callbacks are made of.
SsoTyped ==
  /\ flow = [r \in Request |-> flow[r]]
  /\ issued \in Nat
  /\ uses \in [State -> Nat]
  /\ people \in [Identity -> {"none", "viewer", "admin"}]
  /\ last \in [Identity -> {"none", "viewer", "admin"}]
  /\ \A r \in Request :
       /\ Stands(r, "exchanging") => flow[r].by \in Provider
       /\ Stands(r, "holding") => flow[r].by \in Provider
       /\ Stands(r, "provisioning") =>
            flow[r].who \in Identity /\ flow[r].role \in {"viewer", "admin"}

\* A state names one row, in the table and in the hands of its callbacks.
Seen == states \cup {flow[r].row : r \in {q \in Request : Stands(q, "holding")}}
Named ==
  /\ \A row \in Seen : row.state \in Nat /\ row.state <= issued
  /\ \A row, other \in Seen : row.state = other.state => row = other

\* The one write lock of SQLite.
WriteLock ==
  scene.database = "sqlite" =>
    /\ shared = {}
    /\ \A r, q \in Request : Stands(r, "holding") /\ Stands(q, "holding") => r = q

\* A state that a callback went on with is gone for all others.
Used ==
  \A s \in State :
    /\ s > issued => uses[s] = 0
    /\ s \notin shared /\ uses[s] # 0 =>
         uses[s] = 1 /\ \A row \in Seen : row.state # s

\* Whoever is about to write an identity has read it as it is.
Followed ==
  \A who \in Identity \ mixed :
    /\ people[who] = last[who]
    /\ \A r \in Request :
         Stands(r, "provisioning") /\ flow[r].who = who => flow[r].seen = people[who]

SInv == SsoTyped /\ Named /\ WriteLock /\ Used /\ Followed

LEMMA InitSInv == SsoInit => SInv
<1> SUFFICES ASSUME SsoInit PROVE SInv
  OBVIOUS
<1>1. \A r \in Request : flow[r].step = "away"
  BY DEF SsoInit, Away
<1>2. scene.role \in {"none", "viewer", "admin"}
  BY SceneAssumption DEF SsoInit
<1>3. SsoTyped
  BY <1>1, <1>2 DEF SsoInit, SsoTyped, Stands
<1>4. Seen = {}
  BY <1>1 DEF SsoInit, Seen, Stands
<1>5. Named /\ WriteLock /\ Used
  BY <1>1, <1>4 DEF SsoInit, Named, WriteLock, Used, Stands
<1>6. Followed
  BY <1>1 DEF SsoInit, Followed, Stands
<1> QED
  BY <1>3, <1>5, <1>6 DEF SInv

\* A callback that moves leaves the others where they are.
LEMMA FlowSet ==
  ASSUME SsoTyped, NEW r \in Request, NEW f, flow' = [flow EXCEPT ![r] = f]
  PROVE  /\ flow' = [q \in Request |-> flow'[q]]
         /\ flow'[r] = f
         /\ \A q \in Request : q # r => flow'[q] = flow[q]
BY DEF SsoTyped

\* A step of nobody here.
LEMMA StillKeeps ==
  ASSUME SInv, UNCHANGED <<scene, states, issued, people, flow, loginHistory>>
  PROVE  SInv'
<1>1. Seen' = Seen
  BY DEF Seen, Stands
<1> QED
  BY <1>1 DEF loginHistory, SInv, SsoTyped, Named, WriteLock, Used, Followed, Stands

LEMMA IssueKeeps ==
  ASSUME SInv, NEW p \in Provider,
         UNCHANGED <<scene, people, flow, uses, shared, last, mixed>>,
         issued' = issued + 1,
         states' = states \cup {[state |-> issued', provider |-> p, expires |-> now + StateTtl]}
  PROVE  SInv'
<1> DEFINE row == [state |-> issued', provider |-> p, expires |-> now + StateTtl]
<1>1. /\ UNCHANGED <<scene, people, flow, uses, shared, last, mixed>>
      /\ issued' = issued + 1 /\ states' = states \cup {row}
  OBVIOUS
<1>2. issued \in Nat /\ issued' \in Nat /\ issued < issued'
  BY <1>1 DEF SInv, SsoTyped
<1>3. Seen' = Seen \cup {row} /\ row.state = issued'
  BY <1>1 DEF Seen, Stands
<1>4. SsoTyped' /\ WriteLock' /\ Followed'
  BY <1>1, <1>2 DEF SInv, SsoTyped, WriteLock, Followed, Stands
<1>5. \A other \in Seen : other.state \in Nat /\ other.state <= issued
  BY DEF SInv, Named
<1>6. Named'
  BY <1>2, <1>3, <1>5 DEF SInv, Named
<1>7. Used'
  <2> SUFFICES ASSUME NEW s \in State
               PROVE  /\ s > issued' => uses[s] = 0
                      /\ s \notin shared /\ uses[s] # 0 =>
                           uses[s] = 1 /\ \A other \in Seen' : other.state # s
    BY <1>1 DEF Used
  <2>1. s \in Int
    BY DEF State
  <2>2. s > issued => uses[s] = 0
    BY DEF SInv, Used
  <2>3. s = issued' => uses[s] = 0
    BY <2>2, <1>2
  <2> QED
    BY <2>1, <2>2, <2>3, <1>2, <1>3 DEF SInv, Used
<1> QED
  BY <1>4, <1>6, <1>7 DEF SInv

LEMMA StartKeeps ==
  ASSUME SInv, NEW r \in Request, NEW p \in Provider, StartLogin(r, p)
  PROVE  SInv'
<1>1. UNCHANGED <<scene, people, flow, loginHistory>>
  BY DEF StartLogin, Arrival
<1>2. CASE UNCHANGED <<issued, states>>
  BY <1>1, <1>2, StillKeeps
<1>3. CASE /\ issued' = issued + 1
           /\ states' = states \cup {[state |-> issued', provider |-> p, expires |-> now + StateTtl]}
  BY <1>1, <1>3, IssueKeeps DEF loginHistory
<1> QED
  BY <1>2, <1>3 DEF StartLogin

LEMMA CallbackKeeps ==
  ASSUME SInv, NEW r \in Request, NEW s \in State, NEW p \in Provider, Callback(r, s, p)
  PROVE  SInv'
<1> DEFINE stale == {row \in states : Stale(row)}
           found == {row \in states \ stale : row.state = s}
<1>1. UNCHANGED <<scene, issued, people, uses, shared, last, mixed>>
  BY DEF Callback, Arrival
<1>2. Stands(r, "away") /\ Writable
  BY DEF Callback, Arrival
<1>3. CASE found = {}
  <2>1. states' = states \ stale /\ flow' = flow
    BY <1>3 DEF Callback
  <2>2. Seen' \subseteq Seen
    BY <2>1 DEF Seen, Stands
  <2> QED
    BY <1>1, <2>1, <2>2 DEF SInv, SsoTyped, Named, WriteLock, Used, Followed, Stands
<1>4. CASE found # {}
  <2>1. PICK row \in found :
          /\ flow' = [flow EXCEPT ![r] = [step |-> "holding", row |-> row, by |-> p, pruned |-> stale]]
          /\ states' = states
    BY <1>4 DEF Callback
  <2>2. /\ flow' = [q \in Request |-> flow'[q]]
        /\ flow'[r] = [step |-> "holding", row |-> row, by |-> p, pruned |-> stale]
        /\ \A q \in Request : q # r => flow'[q] = flow[q]
    BY <2>1, FlowSet DEF SInv
  <2>3. Seen' \subseteq Seen
    BY <2>1, <2>2 DEF Seen, Stands
  <2>4. SsoTyped'
    BY <1>1, <2>2 DEF SInv, SsoTyped, Stands
  <2>5. Named' /\ Used'
    BY <1>1, <2>3 DEF SInv, Named, Used
  <2>6. WriteLock'
    BY <1>1, <1>2, <2>2 DEF SInv, WriteLock, Stands, Writable
  <2>7. Followed'
    BY <1>1, <2>2 DEF SInv, Followed, Stands
  <2> QED
    BY <2>4, <2>5, <2>6, <2>7 DEF SInv
<1> QED
  BY <1>3, <1>4

LEMMA ConsumeKeeps ==
  ASSUME SInv, NEW r \in Request, Consume(r), UNCHANGED scene
  PROVE  SInv'
<1> DEFINE row == flow[r].row
           goes == row.provider = flow[r].by /\ ~Stale(row)
<1>1. /\ Stands(r, "holding")
      /\ states' = Without(r)
      /\ shared' = IF Holding(row.state) = {r} THEN shared ELSE shared \cup {row.state}
      /\ UNCHANGED <<issued, people, last, mixed>>
  BY DEF Consume
<1>2. PICK f : /\ flow' = [flow EXCEPT ![r] = f]
               /\ f.step \in {"exchanging", "away"}
               /\ f.step = "exchanging" => f.by = flow[r].by
  <2>1. CASE goes
    BY <2>1 DEF Consume
  <2>2. CASE ~goes
    BY <2>2 DEF Consume, Depart, Away
  <2> QED
    BY <2>1, <2>2
<1>3. uses' = uses \/ uses' = [uses EXCEPT ![row.state] = @ + 1]
  BY DEF Consume
<1>4. /\ flow' = [q \in Request |-> flow'[q]]
      /\ flow'[r] = f
      /\ \A q \in Request : q # r => flow'[q] = flow[q]
  BY <1>2, FlowSet DEF SInv
<1>5. \A q \in Request : ~Stands(q, "away")' /\ ~Stands(q, "exchanging")' => q # r /\ flow'[q] = flow[q]
  BY <1>2, <1>4 DEF Stands
<1>6. row \in Seen /\ row.state \in Nat /\ row.state <= issued
  BY <1>1 DEF SInv, Named, Seen
<1>7. Seen' \subseteq Seen
  BY <1>1, <1>4, <1>5 DEF Seen, Without, Stands
<1>8. SsoTyped'
  <2>1. uses' \in [State -> Nat]
    BY <1>3 DEF SInv, SsoTyped
  <2> QED
    BY <2>1, <1>1, <1>2, <1>4 DEF SInv, SsoTyped, Stands
<1>9. Named'
  BY <1>1, <1>7 DEF SInv, Named
<1>10. WriteLock'
  <2> SUFFICES ASSUME scene.database = "sqlite" PROVE WriteLock'
    BY DEF WriteLock
  <2>1. \A q \in Request : Stands(q, "holding") => q = r
    BY <1>1 DEF SInv, WriteLock
  <2>2. Holding(row.state) = {r}
    BY <2>1, <1>1 DEF Holding
  <2>3. shared' = {}
    BY <2>2, <1>1 DEF SInv, WriteLock
  <2> QED
    BY <2>1, <2>3, <1>5 DEF WriteLock, Stands
<1>11. Used'
  <2> SUFFICES ASSUME NEW s \in State
               PROVE  /\ s > issued => uses'[s] = 0
                      /\ s \notin shared' /\ uses'[s] # 0 =>
                           uses'[s] = 1 /\ \A other \in Seen' : other.state # s
    BY <1>1 DEF Used
  <2>1. CASE s # row.state
    <3>1. uses'[s] = uses[s] /\ (s \notin shared' => s \notin shared)
      BY <2>1, <1>1, <1>3 DEF SInv, SsoTyped
    <3> QED
      BY <3>1, <1>7 DEF SInv, Used
  <2>2. CASE s = row.state
    <3>1. ~(s > issued)
      BY <2>2, <1>6 DEF SInv, SsoTyped
    <3> SUFFICES ASSUME s \notin shared', uses'[s] # 0
                 PROVE  uses'[s] = 1 /\ \A other \in Seen' : other.state # s
      BY <3>1
    <3>2. s \notin shared /\ Holding(s) = {r}
      BY <2>2, <1>1
    <3>3. uses[s] = 0
      BY <3>2, <2>2, <1>6 DEF SInv, Used
    <3>4. uses'[s] = 1
      BY <3>3, <1>3 DEF SInv, SsoTyped
    <3>5. ASSUME NEW other \in Seen', other.state = s PROVE FALSE
      <4>1. other = row
        BY <3>5, <2>2, <1>6, <1>7 DEF SInv, Named
      <4>2. row \notin states'
        BY <1>1 DEF Without
      <4>3. PICK q \in Request : Stands(q, "holding")' /\ flow'[q].row = row
        BY <4>1, <4>2, <3>5 DEF Seen
      <4>4. q # r /\ Stands(q, "holding") /\ flow[q].row.state = s
        BY <4>3, <2>2, <1>5 DEF Stands
      <4> QED
        BY <4>4, <3>2 DEF Holding
    <3> QED
      BY <3>4, <3>5
  <2> QED
    BY <2>1, <2>2
<1>12. Followed'
  BY <1>1, <1>5 DEF SInv, Followed, Stands
<1> QED
  BY <1>8, <1>9, <1>10, <1>11, <1>12 DEF SInv

\* A callback that neither holds a row nor takes one leaves the states alone.
LEMMA LeaveStates ==
  ASSUME SInv, NEW r \in Request, NEW f, flow' = [flow EXCEPT ![r] = f], f.step # "holding",
         UNCHANGED <<scene, states, issued, uses, shared>>
  PROVE  Named' /\ WriteLock' /\ Used'
<1>1. /\ flow'[r] = f
      /\ \A q \in Request : q # r => flow'[q] = flow[q]
  BY FlowSet DEF SInv
<1>2. \A q \in Request : Stands(q, "holding")' => flow'[q] = flow[q]
  BY <1>1 DEF Stands
<1>3. Seen' \subseteq Seen
  BY <1>2 DEF Seen, Stands
<1> QED
  BY <1>2, <1>3 DEF SInv, Named, WriteLock, Used, Stands

LEMMA ExchangeKeeps ==
  ASSUME SInv, NEW r \in Request, NEW u \in Subject, NEW claims \in Claims,
         Exchange(r, u, claims), UNCHANGED scene
  PROVE  SInv'
<1> DEFINE who == <<flow[r].by, u>>
           f == [step |-> "provisioning", who |-> who, role |-> RoleOf(claims), seen |-> people[who]]
<1>1. /\ Stands(r, "exchanging") /\ flow' = [flow EXCEPT ![r] = f]
      /\ UNCHANGED <<states, issued, people, uses, shared, last, mixed>>
  BY DEF Exchange
<1>2. who \in Identity /\ RoleOf(claims) \in {"viewer", "admin"}
  BY <1>1 DEF SInv, SsoTyped, Identity, RoleOf
<1>3. /\ flow' = [q \in Request |-> flow'[q]]
      /\ flow'[r] = f
      /\ \A q \in Request : q # r => flow'[q] = flow[q]
  BY <1>1, FlowSet DEF SInv
<1>4. Named' /\ WriteLock' /\ Used'
  <2>1. f.step # "holding"
    OBVIOUS
  <2> HIDE DEF f
  <2> QED
    BY <2>1, <1>1, LeaveStates
<1>5. SsoTyped'
  BY <1>1, <1>2, <1>3 DEF SInv, SsoTyped, Stands
<1>6. Followed'
  BY <1>1, <1>3 DEF SInv, Followed, Stands
<1> QED
  BY <1>4, <1>5, <1>6 DEF SInv

LEMMA ProvisionKeeps ==
  ASSUME SInv, NEW r \in Request, Provision(r), UNCHANGED scene
  PROVE  SInv'
<1> DEFINE who == flow[r].who
           beside == {q \in Others(r) : Stands(q, "provisioning") /\ flow[q].who = who}
<1>1. /\ Stands(r, "provisioning") /\ flow' = [flow EXCEPT ![r] = Away]
      /\ people' = [people EXCEPT ![who] = Saved(r)]
      /\ last' = [last EXCEPT ![who] = flow[r].role]
      /\ mixed' = IF beside = {} THEN mixed ELSE mixed \cup {who}
      /\ UNCHANGED <<states, issued, uses, shared>>
  BY DEF Provision, Depart
<1>2. who \in Identity /\ flow[r].role \in {"viewer", "admin"}
  BY <1>1 DEF SInv, SsoTyped
<1>3. /\ flow' = [q \in Request |-> flow'[q]]
      /\ flow'[r].step = "away"
      /\ \A q \in Request : q # r => flow'[q] = flow[q]
  BY <1>1, FlowSet DEF SInv, Away
<1>4. Named' /\ WriteLock' /\ Used'
  <2>1. Away.step # "holding"
    BY DEF Away
  <2> QED
    BY <2>1, <1>1, LeaveStates
<1>5. Saved(r) \in {"none", "viewer", "admin"}
  BY <1>2 DEF Saved, SInv, SsoTyped
<1>6. SsoTyped'
  BY <1>1, <1>2, <1>3, <1>5 DEF SInv, SsoTyped, Stands
<1>7. Followed'
  <2> SUFFICES ASSUME NEW id \in Identity \ mixed'
               PROVE  /\ people'[id] = last'[id]
                      /\ \A q \in Request :
                           Stands(q, "provisioning")' /\ flow'[q].who = id => flow'[q].seen = people'[id]
    BY DEF Followed
  <2>1. id \notin mixed
    BY <1>1
  <2>2. CASE id # who
    BY <2>1, <2>2, <1>1, <1>2, <1>3 DEF SInv, SsoTyped, Followed, Stands
  <2>3. CASE id = who
    <3>1. beside = {}
      BY <2>3, <1>1
    <3>2. flow[r].seen = people[who]
      BY <2>1, <2>3, <1>1 DEF SInv, Followed
    <3>3. people'[who] = flow[r].role /\ last'[who] = flow[r].role
      BY <3>2, <1>1, <1>2 DEF Saved, SInv, SsoTyped
    <3>4. \A q \in Request : ~(Stands(q, "provisioning")' /\ flow'[q].who = who)
      BY <3>1, <1>3 DEF Others, Stands
    <3> QED
      BY <2>3, <3>3, <3>4
  <2> QED
    BY <2>2, <2>3
<1> QED
  BY <1>4, <1>6, <1>7 DEF SInv

LEMMA RefusedKeeps ==
  ASSUME SInv, NEW r \in Request, Refused(r), UNCHANGED scene
  PROVE  SInv'
<1>1. /\ flow' = [flow EXCEPT ![r] = Away]
      /\ UNCHANGED <<states, issued, people, uses, shared, last, mixed>>
  BY DEF Refused, Depart
<1>2. /\ flow' = [q \in Request |-> flow'[q]]
      /\ flow'[r].step = "away"
      /\ \A q \in Request : q # r => flow'[q] = flow[q]
  BY <1>1, FlowSet DEF SInv, Away
<1>3. Named' /\ WriteLock' /\ Used'
  <2>1. Away.step # "holding"
    BY DEF Away
  <2> QED
    BY <2>1, <1>1, LeaveStates
<1>4. SsoTyped' /\ Followed'
  BY <1>1, <1>2 DEF SInv, SsoTyped, Followed, Stands
<1> QED
  BY <1>3, <1>4 DEF SInv

\* Every step keeps it.
LEMMA NextSInv == SInv /\ [SsoNext]_<<vars, ssoVars>> => SInv'
<1> SUFFICES ASSUME SInv, [SsoNext]_<<vars, ssoVars>> PROVE SInv'
  OBVIOUS
<1>1. ASSUME UNCHANGED ssoVars PROVE SInv'
  BY <1>1, StillKeeps DEF ssoVars, login
<1>2. ASSUME NEW r \in Request, Proceed(r) PROVE SInv'
  BY <1>2, ConsumeKeeps, ExchangeKeeps, ProvisionKeeps, RefusedKeeps DEF Proceed
<1> QED
  BY <1>1, <1>2, StartKeeps, CallbackKeeps DEF SsoNext

LEMMA SsoInductive == SsoSpec => []SInv
BY InitSInv, NextSInv, PTL DEF SsoSpec

\* A callback touches neither the settings of the second factor nor a request of theirs.
LEMMA SsoKeepsFactor == IInv /\ [SsoNext]_<<vars, ssoVars>> => IInv'
<1> SUFFICES ASSUME IInv, [SsoNext]_<<vars, ssoVars>> PROVE IInv'
  OBVIOUS
<1>1. ASSUME UNCHANGED <<rows, minted, task, proven, spent, crossed, unsettled>> PROVE IInv'
  <2>1. Typed'
    BY <1>1 DEF IInv, Typed, At
  <2>2. Current' /\ Enrolling'
    BY <1>1 DEF IInv, Current, Enrolling, At
  <2> QED
    BY <2>1, <2>2 DEF IInv
<1>2. ASSUME NEW r \in Request, NEW p \in Path, Arrival(r, p) PROVE IInv'
  <2>1. UNCHANGED <<rows, minted, task, proven, spent, crossed, unsettled>>
    BY <1>2 DEF Arrival
  <2> QED
    BY <2>1, <1>1
<1>3. ASSUME NEW r \in Request, NEW p \in Provider, StartLogin(r, p) PROVE IInv'
  BY <1>3, <1>2, Paths DEF StartLogin
<1>4. ASSUME NEW r \in Request, NEW s \in State, NEW p \in Provider, Callback(r, s, p) PROVE IInv'
  BY <1>4, <1>2, Paths DEF Callback
<1>5. ASSUME UNCHANGED vars PROVE IInv'
  BY <1>5, NextInv
<1>6. ASSUME NEW r \in Request, Proceed(r) PROVE IInv'
  BY <1>6, <1>5 DEF Proceed
<1>7. ASSUME NEW r \in Request, Handle(r) PROVE IInv'
  BY <1>7, NextInv DEF Next
<1>8. CASE Tick
  BY <1>8, NextInv DEF Next
<1> QED
  BY <1>3, <1>4, <1>5, <1>6, <1>7, <1>8 DEF SsoNext

\* One callback goes on with a login state, on SQLite always, on PostgreSQL unless two
\* had read its row before either deleted it.
THEOREM OneShotSafety == SsoSpec => []StatesAreOneShot
<1>1. scene \in Scenes => scene.database \in {"sqlite", "postgres"}
  BY SceneAssumption
<1>2. SInv /\ scene \in Scenes => StatesAreOneShot
  BY <1>1 DEF SInv, SsoTyped, WriteLock, Used, StatesAreOneShot
<1>3. SsoInit => scene \in Scenes
  BY DEF SsoInit
<1>4. scene \in Scenes /\ [SsoNext]_<<vars, ssoVars>> => (scene \in Scenes)'
  BY DEF SsoNext, StartLogin, Callback, Arrival, Proceed, ssoVars
<1> QED
  BY <1>2, <1>3, <1>4, SsoInductive, PTL DEF SsoSpec

\* The role in the table is that of the last login, unless two of one identity were
\* provisioned at once.
THEOREM RoleSafety == SsoSpec => []RolesFollowLogins
<1>1. SInv => RolesFollowLogins
  BY DEF SInv, Followed, RolesFollowLogins
<1> QED
  BY <1>1, SsoInductive, PTL

\* Beside the callbacks, too, the second factor keeps its two promises.
THEOREM FactorSafety == SsoSpec => [](CodesAreSingleUse /\ EnrolledWithSeed)
<1>1. SsoInit => IInv
  BY InitInv DEF SsoInit
<1>2. IInv => CodesAreSingleUse /\ EnrolledWithSeed
  BY DEF IInv, Current, Enrolling, CodesAreSingleUse, EnrolledWithSeed, Clearing
<1> QED
  BY <1>1, <1>2, SsoKeepsFactor, PTL DEF SsoSpec

\* A callback passes a limiter, or leaves the limiters and the lockout alone.
LEMMA ArrivalLimits ==
  ASSUME NEW r \in Request, NEW p \in Path, Arrival(r, p)
  PROVE  Limits(r) /\ Calm
BY DEF Arrival, Limits, Calm, Checks

LEMMA ProceedLimits ==
  ASSUME NEW r \in Request, Proceed(r)
  PROVE  Limits(r) /\ Calm
BY DEF Proceed, vars, clock, Limits, Calm, Checks

LEMMA SsoStepLimits ==
  ASSUME Typed, SsoNext
  PROVE  Tick \/ \E r \in Request : Limits(r) /\ Fails(r)
<1>1. CASE Tick
  BY <1>1
<1>2. ASSUME NEW r \in Request, Handle(r) PROVE Limits(r) /\ Fails(r)
  BY <1>2, HandleLimits, HandleFails
<1>3. ASSUME NEW r \in Request, NEW p \in Provider, StartLogin(r, p) PROVE Limits(r) /\ Fails(r)
  BY <1>3, ArrivalLimits, Paths DEF StartLogin, Fails
<1>4. ASSUME NEW r \in Request, NEW s \in State, NEW p \in Provider, Callback(r, s, p)
      PROVE  Limits(r) /\ Fails(r)
  BY <1>4, ArrivalLimits, Paths DEF Callback, Fails
<1>5. ASSUME NEW r \in Request, Proceed(r) PROVE Limits(r) /\ Fails(r)
  BY <1>5, ProceedLimits DEF Fails
<1> QED
  BY <1>1, <1>2, <1>3, <1>4, <1>5 DEF SsoNext

LEMMA SsoKeepsLimits == Typed /\ LInv /\ [SsoNext]_<<vars, ssoVars>> => LInv'
<1> SUFFICES ASSUME Typed, LInv, [SsoNext]_<<vars, ssoVars>> PROVE LInv'
  OBVIOUS
<1>1. CASE UNCHANGED vars
  BY <1>1, NextLInv
<1>2. CASE SsoNext
  BY <1>2, SsoStepLimits, TickKeeps, RequestKeeps
<1> QED
  BY <1>1, <1>2

LEMMA SsoLimitsInductive == SsoSpec => [](IInv /\ LInv)
<1>1. SsoInit => IInv /\ LInv
  BY InitInv, InitLInv DEF SsoInit
<1>2. IInv => Typed
  BY DEF IInv
<1> QED
  BY <1>1, <1>2, SsoKeepsFactor, SsoKeepsLimits, PTL DEF SsoSpec

\* The limiters and the lockout keep theirs beside the callbacks, which pass a
\* limiter of the same kind.
THEOREM SsoLockoutSafety == SsoSpec => []LockoutBounds
BY LInvBounds, SsoLimitsInductive, PTL

\* ... so of each what it lets through is what its period allows, and neither more nor less.
THEOREM SsoLimiterExactness == SsoSpec => LimiterIsExact
<1>1. Typed /\ LInv /\ [SsoNext]_<<vars, ssoVars>> =>
        [\A p \in Path :
           /\ passed'[p] # passed[p] => InPeriod(p) < Limit[p]
           /\ (\E r \in Request : Refuse(r, p)) => InPeriod(p) >= Limit[p]]_vars
  <2> SUFFICES ASSUME Typed, LInv, [SsoNext]_<<vars, ssoVars>>, ~ UNCHANGED vars PROVE Exactly
    BY DEF Exactly
  <2>1. SsoNext
    OBVIOUS
  <2>2. CASE Tick
    BY <2>2, IdleExact DEF Tick, LInv
  <2>3. CASE \E r \in Request : Limits(r) /\ Fails(r)
    BY <2>3, StepExact DEF LInv
  <2> QED
    BY <2>1, <2>2, <2>3, SsoStepLimits
<1>2. IInv => Typed
  BY DEF IInv
<1> QED
  BY <1>1, <1>2, SsoLimitsInductive, PTL DEF SsoSpec, LimiterIsExact

=============================================================================
