----------------------------- MODULE Teams_proof -----------------------------
(* Proofs about Teams for every set of accounts, links and requests, and for *)
(* both databases.                                                           *)
EXTENDS Teams, TLAPS

USE DEF tables, history

\* What a task is about fits its step.
About == {"add", "adding", "founding", "remove", "counting", "removing"}
TasksFit ==
  \A r \in Request :
    /\ task[r].step # "idle" => task[r].team \in Id /\ task[r].team <= top
    /\ task[r].step \in About => task[r].who \in Email
    /\ task[r].step = "founding" => task[r].as = "admin"
    /\ task[r].step \in {"add", "adding"} => task[r].as \in Grantable

Sound == TypeOK /\ TasksFit

\* Init establishes the types.
LEMMA InitSound == Init => Sound
<1> SUFFICES ASSUME Init PROVE Sound
  OBVIOUS
<1> USE TeamAssumption DEF Init
<1>1. task \in [Request -> Task]
  BY DEF Idle, Task, Steps, Role
<1>2. link \in [Link -> Id \cup {NoTeam}]
  BY DEF Id
<1>3. TypeOK
  BY <1>1, <1>2 DEF TypeOK, Id
<1>4. TasksFit
  BY DEF TasksFit, Idle, About
<1> QED
  BY <1>3, <1>4 DEF Sound

\* A task that is replaced or moved on stays a task.
LEMMA GoType ==
  ASSUME TypeOK, NEW r \in Request, NEW t \in Task, Go(r, t)
  PROVE  task' \in [Request -> Task] /\ task'[r] = t /\ \A q \in Request \ {r} : task'[q] = task[q]
BY DEF TypeOK, Go

LEMMA GoOnType ==
  ASSUME TypeOK, NEW r \in Request, NEW s \in Steps, GoOn(r, s)
  PROVE  /\ task' \in [Request -> Task]
         /\ task'[r].step = s /\ task'[r].team = task[r].team
         /\ task'[r].who = task[r].who /\ task'[r].as = task[r].as
         /\ \A q \in Request \ {r} : task'[q] = task[q]
<1>1. task[r] \in Task /\ task \in [Request -> Task]
  BY DEF TypeOK
<1>2. [task[r] EXCEPT !.step = s] \in Task
  BY <1>1 DEF Task
<1>3. task' = [task EXCEPT ![r] = [task[r] EXCEPT !.step = s]]
  BY DEF GoOn
<1> QED
  BY <1>1, <1>2, <1>3 DEF Task

LEMMA IdleIsTask == Idle \in Task
BY DEF Idle, Task, Steps, Role

\* Every step keeps every variable within its type.
LEMMA NextSound == Sound /\ [Next]_vars => Sound'
<1> SUFFICES ASSUME Sound, [Next]_vars PROVE Sound'
  OBVIOUS
<1>0. TypeOK /\ TasksFit
  BY DEF Sound
<1> USE <1>0 DEF TasksFit, About
<1>1. ASSUME NEW r \in Request, End(r)
      PROVE  Sound'
  <2>1. Idle \in Task /\ Go(r, Idle)
    BY <1>1, IdleIsTask, TeamAssumption DEF End, Task, Steps, Role, Grantable, Idle, Caller
  <2>2. /\ task' \in [Request -> Task]
        /\ task'[r] = Idle /\ \A q \in Request \ {r} : task'[q] = task[q]
    BY <2>1, GoType
  <2>3. TypeOK'
    BY <1>1, <2>2 DEF End, TypeOK, Arrive, Id
  <2>4. TasksFit'
    BY <1>1, <2>2 DEF End, At, Idle
  <2> QED
    BY <2>3, <2>4 DEF Sound
<1>2. ASSUME NEW r \in Request, NEW founder \in Caller, NEW id \in Id, Create(r, founder, id)
      PROVE  Sound'
  <2> DEFINE t == IF founder = NoEmail THEN Idle
                  ELSE [step |-> "founding", team |-> id, who |-> founder, as |-> "admin"]
  <2>1. t \in Task /\ Go(r, t)
    BY <1>2, IdleIsTask DEF Create, Task, Steps, Role, Caller
  <2>2. task' \in [Request -> Task] /\ task'[r] = t /\ \A q \in Request \ {r} : task'[q] = task[q]
    BY <2>1, GoType
  <2>3. id \in Nat /\ id <= top' /\ top <= top' /\ top' \in Nat
    BY <1>2, TeamAssumption DEF Create, TypeOK, Id
  <2>4. TypeOK'
    <3>1. \A i \in teams' : i <= top'
      BY <1>2, <2>3, TeamAssumption DEF Create, TypeOK, Id
    <3> QED
      BY <1>2, <2>2, <2>3, <3>1 DEF Create, TypeOK, Arrive
  <2>5. TasksFit'
    <3>1. t.step # "idle" => t.team = id /\ t.who \in Email /\ t.step = "founding" /\ t.as = "admin"
      BY DEF Idle, Caller
    <3>2. t.step = "idle" \/ t.step = "founding"
      BY DEF Idle
    <3>3. \A q \in Request : task'[q].step # "idle" => task'[q].team \in Id /\ task'[q].team <= top'
      BY <2>2, <2>3, <3>1, TeamAssumption DEF TypeOK, Id
    <3> QED
      BY <2>2, <3>1, <3>2, <3>3
  <2> QED
    BY <2>4, <2>5 DEF Sound
<1>3. ASSUME NEW r \in Request, NEW by \in Caller, NEW id \in Id, NEW who \in Email, NEW as \in Grantable, Manage(r, by, "add", id, who, as)
      PROVE  Sound'
  <2> DEFINE t == [step |-> "add", team |-> id, who |-> who, as |-> as]
  <2>1. t \in Task /\ Go(r, t)
    BY <1>3 DEF Manage, Task, Steps, Role, Grantable
  <2>2. task' \in [Request -> Task] /\ task'[r] = t /\ \A q \in Request \ {r} : task'[q] = task[q]
    BY <2>1, GoType
  <2>3. TypeOK'
    BY <1>3, <2>2 DEF Manage, TypeOK, Arrive
  <2>4. TasksFit'
    <3>1. t.step = "add" /\ t.team \in Id /\ t.team <= top' /\ t.who \in Email /\ t.as \in Grantable
      BY <1>3 DEF Manage, TypeOK
    <3>2. \A q \in Request : task'[q] = t \/ task'[q] = task[q]
      BY <2>2
    <3>3. top' = top
      BY <1>3 DEF Manage
    <3> HIDE DEF t
    <3> QED
      BY <3>1, <3>2, <3>3
  <2> QED
    BY <2>3, <2>4 DEF Sound
<1>4. ASSUME NEW r \in Request, CheckMember(r)
      PROVE  Sound'
  <2>1. PICK s \in {"adding"} : GoOn(r, s)
    BY <1>4 DEF CheckMember
  <2>2. /\ task' \in [Request -> Task]
        /\ task'[r].step = s /\ task'[r].team = task[r].team
        /\ task'[r].who = task[r].who /\ task'[r].as = task[r].as
        /\ \A q \in Request \ {r} : task'[q] = task[q]
    BY <2>1, GoOnType DEF Steps
  <2>3. TypeOK'
    BY <1>4, <2>2 DEF CheckMember, TypeOK, Arrive, Id
  <2>4. TasksFit'
    BY <1>4, <2>2 DEF CheckMember, At, Idle
  <2> QED
    BY <2>3, <2>4 DEF Sound
<1>5. ASSUME NEW r \in Request, Insert(r)
      PROVE  Sound'
  <2>1. Idle \in Task /\ Go(r, Idle)
    BY <1>5, IdleIsTask, TeamAssumption DEF Insert, Task, Steps, Role, Grantable, Idle, Caller
  <2>2. /\ task' \in [Request -> Task]
        /\ task'[r] = Idle /\ \A q \in Request \ {r} : task'[q] = task[q]
    BY <2>1, GoType
  <2>3. roster' \in [Id -> [Email -> Role]]
    BY <1>5 DEF Insert, TypeOK, Role, Grantable
  <2>4. TypeOK'
    <3>1. unfounded' \subseteq Id /\ raced' \subseteq Id
      BY <1>5 DEF Insert, TypeOK, At
    <3> QED
      BY <1>5, <2>2, <2>3, <3>1 DEF Insert, TypeOK
  <2>5. TasksFit'
    BY <1>5, <2>2 DEF Insert, Idle
  <2> QED
    BY <2>4, <2>5 DEF Sound
<1>6. ASSUME NEW r \in Request, NEW by \in Caller, NEW id \in Id, NEW who \in Email, Manage(r, by, "remove", id, who, "none")
      PROVE  Sound'
  <2> DEFINE t == [step |-> "remove", team |-> id, who |-> who, as |-> "none"]
  <2>1. t \in Task /\ Go(r, t)
    BY <1>6 DEF Manage, Task, Steps, Role, Grantable
  <2>2. task' \in [Request -> Task] /\ task'[r] = t /\ \A q \in Request \ {r} : task'[q] = task[q]
    BY <2>1, GoType
  <2>3. TypeOK'
    BY <1>6, <2>2 DEF Manage, TypeOK, Arrive
  <2>4. TasksFit'
    BY <1>6, <2>2 DEF Manage, TypeOK
  <2> QED
    BY <2>3, <2>4 DEF Sound
<1>7. ASSUME NEW r \in Request, ReadRole(r)
      PROVE  Sound'
  <2>1. PICK s \in {"counting", "removing"} : GoOn(r, s)
    BY <1>7 DEF ReadRole
  <2>2. /\ task' \in [Request -> Task]
        /\ task'[r].step = s /\ task'[r].team = task[r].team
        /\ task'[r].who = task[r].who /\ task'[r].as = task[r].as
        /\ \A q \in Request \ {r} : task'[q] = task[q]
    BY <2>1, GoOnType DEF Steps
  <2>3. TypeOK'
    BY <1>7, <2>2 DEF ReadRole, TypeOK, Arrive, Id
  <2>4. TasksFit'
    BY <1>7, <2>2 DEF ReadRole, At, Idle
  <2> QED
    BY <2>3, <2>4 DEF Sound
<1>8. ASSUME NEW r \in Request, CountAdmins(r)
      PROVE  Sound'
  <2>1. PICK s \in {"removing"} : GoOn(r, s)
    BY <1>8 DEF CountAdmins
  <2>2. /\ task' \in [Request -> Task]
        /\ task'[r].step = s /\ task'[r].team = task[r].team
        /\ task'[r].who = task[r].who /\ task'[r].as = task[r].as
        /\ \A q \in Request \ {r} : task'[q] = task[q]
    BY <2>1, GoOnType DEF Steps
  <2>3. TypeOK'
    BY <1>8, <2>2 DEF CountAdmins, TypeOK, Arrive, Id
  <2>4. TasksFit'
    BY <1>8, <2>2 DEF CountAdmins, At, Idle
  <2> QED
    BY <2>3, <2>4 DEF Sound
<1>9. ASSUME NEW r \in Request, Remove(r)
      PROVE  Sound'
  <2>1. Idle \in Task /\ Go(r, Idle)
    BY <1>9, IdleIsTask, TeamAssumption DEF Remove, Task, Steps, Role, Grantable, Idle, Caller
  <2>2. /\ task' \in [Request -> Task]
        /\ task'[r] = Idle /\ \A q \in Request \ {r} : task'[q] = task[q]
    BY <2>1, GoType
  <2>3. roster' \in [Id -> [Email -> Role]] /\ raced' \subseteq Id
    BY <1>9 DEF Remove, TypeOK, Role, At
  <2>4. TypeOK'
    BY <1>9, <2>2, <2>3 DEF Remove, TypeOK
  <2>5. TasksFit'
    BY <1>9, <2>2 DEF Remove, Idle
  <2> QED
    BY <2>4, <2>5 DEF Sound
<1>10. ASSUME NEW r \in Request, NEW by \in Caller, NEW id \in Id, Manage(r, by, "delete", id, NoEmail, "none")
      PROVE  Sound'
  <2> DEFINE t == [step |-> "delete", team |-> id, who |-> NoEmail, as |-> "none"]
  <2>1. t \in Task /\ Go(r, t)
    BY <1>10 DEF Manage, Task, Steps, Role, Grantable
  <2>2. task' \in [Request -> Task] /\ task'[r] = t /\ \A q \in Request \ {r} : task'[q] = task[q]
    BY <2>1, GoType
  <2>3. TypeOK'
    BY <1>10, <2>2 DEF Manage, TypeOK, Arrive
  <2>4. TasksFit'
    BY <1>10, <2>2 DEF Manage, TypeOK
  <2> QED
    BY <2>3, <2>4 DEF Sound
<1>11. ASSUME NEW r \in Request, CountLinks(r)
      PROVE  Sound'
  <2>1. PICK s \in {"deleting"} : GoOn(r, s)
    BY <1>11 DEF CountLinks
  <2>2. /\ task' \in [Request -> Task]
        /\ task'[r].step = s /\ task'[r].team = task[r].team
        /\ task'[r].who = task[r].who /\ task'[r].as = task[r].as
        /\ \A q \in Request \ {r} : task'[q] = task[q]
    BY <2>1, GoOnType DEF Steps
  <2>3. TypeOK'
    BY <1>11, <2>2 DEF CountLinks, TypeOK, Arrive, Id
  <2>4. TasksFit'
    BY <1>11, <2>2 DEF CountLinks, At, Idle
  <2> QED
    BY <2>3, <2>4 DEF Sound
<1>12. ASSUME NEW r \in Request, Delete(r)
      PROVE  Sound'
  <2>1. Idle \in Task /\ Go(r, Idle)
    BY <1>12, IdleIsTask, TeamAssumption DEF Delete, Task, Steps, Role, Grantable, Idle, Caller
  <2>2. /\ task' \in [Request -> Task]
        /\ task'[r] = Idle /\ \A q \in Request \ {r} : task'[q] = task[q]
    BY <2>1, GoType
  <2>3. TypeOK'
    BY <1>12, <2>2 DEF Delete, TypeOK, At
  <2>4. TasksFit'
    BY <1>12, <2>2 DEF Delete, Idle
  <2> QED
    BY <2>3, <2>4 DEF Sound
<1>13. ASSUME NEW r \in Request, NEW by \in Caller, NEW id \in Id, Post(r, by, id)
      PROVE  Sound'
  <2> DEFINE t == [Idle EXCEPT !.step = "posting", !.team = id]
  <2>1. t \in Task /\ Go(r, t) /\ t.step = "posting" /\ t.team = id
    BY <1>13 DEF Post, Idle, Task, Steps, Role
  <2>2. task' \in [Request -> Task] /\ task'[r] = t /\ \A q \in Request \ {r} : task'[q] = task[q]
    BY <2>1, GoType
  <2>3. TypeOK'
    BY <1>13, <2>2 DEF Post, TypeOK, Arrive
  <2>4. TasksFit'
    BY <1>13, <2>1, <2>2 DEF Post, TypeOK
  <2> QED
    BY <2>3, <2>4 DEF Sound
<1>14. ASSUME NEW r \in Request, NEW l \in Link, CommitLink(r, l)
      PROVE  Sound'
  <2>1. Idle \in Task /\ Go(r, Idle)
    BY <1>14, IdleIsTask, TeamAssumption DEF CommitLink, Task, Steps, Role, Grantable, Idle, Caller
  <2>2. /\ task' \in [Request -> Task]
        /\ task'[r] = Idle /\ \A q \in Request \ {r} : task'[q] = task[q]
    BY <2>1, GoType
  <2>3. TypeOK'
    BY <1>14, <2>2 DEF CommitLink, TypeOK, At
  <2>4. TasksFit'
    BY <1>14, <2>2 DEF CommitLink, Idle
  <2> QED
    BY <2>3, <2>4 DEF Sound
<1>15. ASSUME NEW l \in Link, NEW id \in Id \cup {NoTeam}, Patch(l, id)
      PROVE  Sound'
  <2>1. TypeOK'
    BY <1>15 DEF Patch, TypeOK
  <2>2. TasksFit'
    BY <1>15 DEF Patch
  <2> QED
    BY <2>1, <2>2 DEF Sound
<1>16. CASE UNCHANGED vars
  BY <1>16 DEF vars, Sound, TypeOK
<1> QED
  BY <1>1, <1>2, <1>3, <1>4, <1>5, <1>6, <1>7, <1>8, <1>9, <1>10, <1>11, <1>12, <1>13, <1>14, <1>15, <1>16 DEF Next, Handle

\* Type correctness, with what every task is about.
THEOREM TypeCorrect == Spec => []TypeOK
<1>1. Init => Sound
  BY InitSound
<1>2. Sound /\ [Next]_vars => Sound'
  BY NextSound
<1>3. Sound => TypeOK
  BY DEF Sound
<1> QED
  BY <1>1, <1>2, <1>3, PTL DEF Spec

----------------------------------------------------------------------------

\* The strengthening: a team that was founded in full and saw no removals overlap
\* has an admin, and one beside the target of any removal about to delete.
Guarded(id) ==
  /\ Admins(id) # {}
  /\ \A r \in Request :
       task[r].step = "removing" /\ task[r].team = id => Admins(id) \ {task[r].who} # {}
AdminKept == \A id \in Id : id <= top /\ id \notin unfounded \cup raced => Guarded(id)

\* The existing teams have their admins initially.
LEMMA InitAdmin == Init => AdminKept
<1> SUFFICES ASSUME Init, NEW id \in Id, id <= top PROVE Guarded(id)
  BY DEF AdminKept
<1>1. id \in teams
  BY TeamAssumption DEF Init, Id
<1> QED
  BY <1>1 DEF Init, Guarded, Idle

\* What a step that leaves the rosters alone must show: no task starts to delete.
LEMMA AdminFrame ==
  ASSUME AdminKept, UNCHANGED <<top, roster, unfounded, raced>>,
         \A r \in Request : task'[r].step = "removing" => task'[r] = task[r]
  PROVE  AdminKept'
BY DEF AdminKept, Guarded, Admins

\* Every step keeps an admin in such a team.
LEMMA NextAdmin == Sound /\ AdminKept /\ [Next]_vars => AdminKept'
<1> SUFFICES ASSUME Sound, AdminKept, [Next]_vars PROVE AdminKept'
  OBVIOUS
<1>0. TypeOK /\ TasksFit
  BY DEF Sound
<1> USE <1>0
<1>1. ASSUME NEW r \in Request, NEW t \in Task, Go(r, t), t.step # "removing",
             UNCHANGED <<top, roster, unfounded, raced>>
      PROVE  AdminKept'
  <2>1. task'[r] = t /\ \A q \in Request \ {r} : task'[q] = task[q]
    BY <1>1, GoType
  <2> QED
    BY <1>1, <2>1, AdminFrame
<1>2. ASSUME NEW r \in Request, NEW s \in Steps, GoOn(r, s), s # "removing",
             UNCHANGED <<top, roster, unfounded, raced>>
      PROVE  AdminKept'
  <2>1. task'[r].step = s /\ \A q \in Request \ {r} : task'[q] = task[q]
    BY <1>2, GoOnType
  <2> QED
    BY <1>2, <2>1, AdminFrame
<1>3. ASSUME NEW r \in Request, GoOn(r, "removing"),
             UNCHANGED <<top, roster, unfounded, raced>>,
             task[r].step # "idle",
             \A id \in Id : id = task[r].team /\ Admins(id) # {} => Admins(id) \ {task[r].who} # {}
      PROVE  AdminKept'
  <2>1. /\ task'[r].step = "removing" /\ task'[r].team = task[r].team /\ task'[r].who = task[r].who
        /\ \A q \in Request \ {r} : task'[q] = task[q]
    BY <1>3, GoOnType DEF Steps
  <2>2. \A id \in Id : Admins(id)' = Admins(id)
    BY <1>3 DEF Admins
  <2> SUFFICES ASSUME NEW id \in Id, id <= top, id \notin unfounded \cup raced PROVE Guarded(id)'
    BY <1>3 DEF AdminKept
  <2>3. Guarded(id)
    BY DEF AdminKept
  <2> QED
    BY <1>3, <2>1, <2>2, <2>3 DEF Guarded
<1>4. ASSUME NEW r \in Request, End(r) PROVE AdminKept'
  BY <1>1, <1>4, IdleIsTask DEF End, Idle
<1>5. ASSUME NEW r \in Request, NEW founder \in Caller, NEW id \in Id, Create(r, founder, id)
      PROVE  AdminKept'
  <2> DEFINE t == IF founder = NoEmail THEN Idle
                  ELSE [step |-> "founding", team |-> id, who |-> founder, as |-> "admin"]
  <2>1. t \in Task /\ Go(r, t) /\ t.step # "removing"
    BY <1>5, IdleIsTask DEF Create, Task, Steps, Role, Caller, Idle
  <2>2. task'[r].step # "removing" /\ \A q \in Request \ {r} : task'[q] = task[q]
    BY <2>1, GoType
  <2>3. \A i \in Id : i <= top' /\ i # id => i <= top
    BY <1>5, TeamAssumption DEF Create, NextId, TypeOK, Id
  <2> SUFFICES ASSUME NEW i \in Id, i <= top', i \notin unfounded' \cup raced' PROVE Guarded(i)'
    BY DEF AdminKept
  <2>4. i # id /\ i \notin unfounded \cup raced
    BY <1>5 DEF Create
  <2>5. Guarded(i)
    BY <2>3, <2>4 DEF AdminKept
  <2> QED
    BY <1>5, <2>2, <2>5 DEF Create, Guarded, Admins
<1>6. ASSUME NEW r \in Request, NEW by \in Caller, NEW id \in Id, NEW s \in {"add", "remove", "delete"},
             NEW who \in Caller, NEW as \in Role, Manage(r, by, s, id, who, as)
      PROVE  AdminKept'
  <2>1. [step |-> s, team |-> id, who |-> who, as |-> as] \in Task
    BY DEF Task, Steps, Caller
  <2> QED
    BY <1>1, <1>6, <2>1 DEF Manage
<1>7. ASSUME NEW r \in Request, CheckMember(r) PROVE AdminKept'
  BY <1>2, <1>7 DEF CheckMember, Steps
<1>8. ASSUME NEW r \in Request, Insert(r) PROVE AdminKept'
  <2> DEFINE id == task[r].team  e == task[r].who
  <2>1. id \in Id /\ e \in Email /\ roster \in [Id -> [Email -> Role]]
    BY <1>8 DEF Insert, TasksFit, About, TypeOK
  <2>2. task'[r] = Idle /\ \A q \in Request \ {r} : task'[q] = task[q]
    BY <1>8, IdleIsTask, GoType DEF Insert
  <2>3. \A i \in Id, x \in Email : roster'[i][x] = IF i = id /\ x = e THEN task[r].as ELSE roster[i][x]
    BY <1>8, <2>1 DEF Insert
  <2>4. \A i \in Id : Admins(i) \subseteq Admins(i)'
    BY <1>8, <2>1, <2>3 DEF Admins, Insert
  <2> SUFFICES ASSUME NEW i \in Id, i <= top, i \notin unfounded' \cup raced' PROVE Guarded(i)'
    BY <1>8 DEF AdminKept, Insert
  <2>5. CASE i \notin unfounded
    <3>1. i \notin raced
      BY <1>8 DEF Insert
    <3>2. Guarded(i)
      BY <2>5, <3>1 DEF AdminKept
    <3> QED
      BY <2>2, <2>4, <3>2 DEF Guarded, Idle
  <2>6. CASE i \in unfounded
    <3>1. i = id /\ task[r].step = "founding"
      BY <1>8, <2>6 DEF Insert, At
    <3>2. e \in Admins(i)'
      BY <2>1, <2>3, <3>1 DEF Admins, TasksFit
    <3>3. \A s \in Request : ~Removing(s, id, e)
      BY <1>8, <3>1 DEF Insert, At
    <3> QED
      BY <2>2, <3>1, <3>2, <3>3 DEF Guarded, Removing, Idle
  <2> QED
    BY <2>5, <2>6
<1>9. ASSUME NEW r \in Request, ReadRole(r) PROVE AdminKept'
  <2>1. CASE roster[task[r].team][task[r].who] = "admin"
    BY <1>2, <1>9, <2>1 DEF ReadRole, Steps
  <2>2. CASE roster[task[r].team][task[r].who] # "admin"
    <3>1. \A id \in Id : id = task[r].team => task[r].who \notin Admins(id)
      BY <2>2 DEF Admins
    <3>2. \A id \in Id : id = task[r].team /\ Admins(id) # {} => Admins(id) \ {task[r].who} # {}
      BY <3>1
    <3> QED
      BY <1>3, <1>9, <2>2, <3>2 DEF ReadRole, At
  <2> QED
    BY <2>1, <2>2
<1>10. ASSUME NEW r \in Request, CountAdmins(r) PROVE AdminKept'
  <2>1. \A id \in Id : id = task[r].team => Admins(id) \ {task[r].who} # {}
    BY <1>10 DEF CountAdmins, Spare
  <2> QED
    BY <1>3, <1>10, <2>1 DEF CountAdmins, At
<1>11. ASSUME NEW r \in Request, Remove(r) PROVE AdminKept'
  <2> DEFINE id == task[r].team  e == task[r].who
  <2>1. id \in Id /\ e \in Email /\ roster \in [Id -> [Email -> Role]] /\ task[r].step = "removing"
    BY <1>11 DEF Remove, TasksFit, About, TypeOK, At
  <2>2. task'[r] = Idle /\ \A q \in Request \ {r} : task'[q] = task[q]
    BY <1>11, IdleIsTask, GoType DEF Remove
  <2>3. \A i \in Id, x \in Email : roster'[i][x] = IF i = id /\ x = e THEN "none" ELSE roster[i][x]
    BY <1>11, <2>1 DEF Remove
  <2> SUFFICES ASSUME NEW i \in Id, i <= top, i \notin unfounded \cup raced' PROVE Guarded(i)'
    BY <1>11 DEF AdminKept, Remove
  <2>4. i \notin raced
    BY <1>11 DEF Remove
  <2>5. Guarded(i)
    BY <2>4 DEF AdminKept
  <2>6. CASE i # id \/ roster[id][e] # "admin"
    <3>1. Admins(i)' = Admins(i)
      BY <2>1, <2>3, <2>6 DEF Admins
    <3> QED
      BY <2>2, <2>5, <3>1 DEF Guarded, Idle
  <2>7. CASE i = id /\ roster[id][e] = "admin"
    <3>1. Admins(i)' = Admins(i) \ {e}
      BY <2>1, <2>3, <2>7 DEF Admins
    <3>2. Admins(i) \ {e} # {}
      BY <2>1, <2>5, <2>7 DEF Guarded
    <3>3. \A s \in Request, f \in Email \ {e} : ~Removing(s, id, f)
      BY <1>11, <2>4, <2>7 DEF Remove
    <3>4. \A s \in Request : task[s].step = "removing" /\ task[s].team = id => task[s].who = e
      BY <3>3 DEF Removing, TasksFit, About
    <3> QED
      BY <2>2, <2>7, <3>1, <3>2, <3>4 DEF Guarded, Idle
  <2> QED
    BY <2>6, <2>7
<1>12. ASSUME NEW r \in Request, CountLinks(r) PROVE AdminKept'
  BY <1>2, <1>12 DEF CountLinks, Steps
<1>13. ASSUME NEW r \in Request, Delete(r) PROVE AdminKept'
  BY <1>1, <1>13, IdleIsTask DEF Delete, Idle
<1>14. ASSUME NEW r \in Request, NEW by \in Caller, NEW id \in Id, Post(r, by, id) PROVE AdminKept'
  <2> DEFINE t == [Idle EXCEPT !.step = "posting", !.team = id]
  <2>1. t \in Task /\ t.step = "posting"
    BY DEF Task, Steps, Idle, Role
  <2> QED
    BY <1>1, <1>14, <2>1 DEF Post
<1>15. ASSUME NEW r \in Request, NEW l \in Link, CommitLink(r, l) PROVE AdminKept'
  BY <1>1, <1>15, IdleIsTask DEF CommitLink, Idle
<1>16. ASSUME NEW l \in Link, NEW id \in Id \cup {NoTeam}, Patch(l, id) PROVE AdminKept'
  BY <1>16, AdminFrame DEF Patch
<1>17. CASE UNCHANGED vars
  BY <1>17, AdminFrame DEF vars
<1>18. Email \subseteq Caller /\ NoEmail \in Caller /\ Grantable \subseteq Role /\ "none" \in Role
  BY DEF Caller, Grantable, Role
<1> QED
  BY <1>4, <1>5, <1>6, <1>7, <1>8, <1>9, <1>10, <1>11, <1>12, <1>13, <1>14, <1>15, <1>16, <1>17, <1>18
  DEF Next, Handle

\* A team without an admin never had its founder's row, or removals overlapped in it.
THEOREM AdminSafety == Spec => []AdminlessHasCause
<1>1. Init => Sound /\ AdminKept
  BY InitSound, InitAdmin
<1>2. Sound /\ AdminKept /\ [Next]_vars => (Sound /\ AdminKept)'
  BY NextSound, NextAdmin
<1>3. Sound /\ AdminKept => AdminlessHasCause
  BY DEF Sound, TypeOK, AdminKept, Guarded, AdminlessHasCause
<1> QED
  BY <1>1, <1>2, <1>3, PTL DEF Spec

----------------------------------------------------------------------------

\* The strengthening: a team about to be deleted has no link that was not patched,
\* and a link about to be committed has its team, unless the two overlapped.
LinksKept ==
  /\ DanglingHasCause
  /\ \A r \in Request : task[r].step = "deleting" /\ task[r].team \notin squeezed =>
       \A l \in Link : link[l] = task[r].team => l \in patched
  /\ \A r \in Request : task[r].step = "posting" /\ task[r].team \notin squeezed => task[r].team \in teams

\* The links there are have their teams, and no request runs.
LEMMA InitLinks == Init => LinksKept
BY DEF Init, LinksKept, DanglingHasCause, Idle

\* A step that loses no team and changes no link keeps the rest, if it brings no
\* task to the point of deleting or posting.
LEMMA LinksFrame ==
  ASSUME LinksKept, UNCHANGED <<link, patched, squeezed>>, teams \subseteq teams',
         \A r \in Request : task'[r].step \in {"deleting", "posting"} => task'[r] = task[r]
  PROVE  LinksKept'
BY DEF LinksKept, DanglingHasCause

\* Every step keeps the links with their teams, but for the two causes.
LEMMA NextLinks == Sound /\ LinksKept /\ [Next]_vars => LinksKept'
<1> SUFFICES ASSUME Sound, LinksKept, [Next]_vars PROVE LinksKept'
  OBVIOUS
<1>0. TypeOK /\ TasksFit
  BY DEF Sound
<1> USE <1>0
<1>1. ASSUME NEW r \in Request, NEW t \in Task, Go(r, t), t.step \notin {"deleting", "posting"},
             UNCHANGED <<link, patched, squeezed>>, teams \subseteq teams'
      PROVE  LinksKept'
  <2>1. task'[r] = t /\ \A q \in Request \ {r} : task'[q] = task[q]
    BY <1>1, GoType
  <2> QED
    BY <1>1, <2>1, LinksFrame
<1>2. ASSUME NEW r \in Request, NEW s \in Steps, GoOn(r, s), s \notin {"deleting", "posting"},
             UNCHANGED <<teams, link, patched, squeezed>>
      PROVE  LinksKept'
  <2>1. task'[r].step = s /\ \A q \in Request \ {r} : task'[q] = task[q]
    BY <1>2, GoOnType
  <2> QED
    BY <1>2, <2>1, LinksFrame
<1>3. ASSUME NEW r \in Request, End(r) PROVE LinksKept'
  BY <1>1, <1>3, IdleIsTask DEF End, Idle
<1>4. ASSUME NEW r \in Request, NEW founder \in Caller, NEW id \in Id, Create(r, founder, id)
      PROVE  LinksKept'
  <2> DEFINE t == IF founder = NoEmail THEN Idle
                  ELSE [step |-> "founding", team |-> id, who |-> founder, as |-> "admin"]
  <2>1. t \in Task /\ Go(r, t) /\ t.step \notin {"deleting", "posting"}
    BY <1>4, IdleIsTask DEF Create, Task, Steps, Role, Caller, Idle
  <2> QED
    BY <1>1, <1>4, <2>1 DEF Create
<1>5. ASSUME NEW r \in Request, NEW by \in Caller, NEW id \in Id, NEW s \in {"add", "remove", "delete"},
             NEW who \in Caller, NEW as \in Role, Manage(r, by, s, id, who, as)
      PROVE  LinksKept'
  <2>1. [step |-> s, team |-> id, who |-> who, as |-> as] \in Task
    BY DEF Task, Steps, Caller
  <2> QED
    BY <1>1, <1>5, <2>1 DEF Manage
<1>6. ASSUME NEW r \in Request, CheckMember(r) PROVE LinksKept'
  BY <1>2, <1>6 DEF CheckMember, Steps
<1>7. ASSUME NEW r \in Request, Insert(r) PROVE LinksKept'
  BY <1>1, <1>7, IdleIsTask DEF Insert, Idle
<1>8. ASSUME NEW r \in Request, ReadRole(r) PROVE LinksKept'
  BY <1>2, <1>8 DEF ReadRole, Steps
<1>9. ASSUME NEW r \in Request, CountAdmins(r) PROVE LinksKept'
  BY <1>2, <1>9 DEF CountAdmins, Steps
<1>10. ASSUME NEW r \in Request, Remove(r) PROVE LinksKept'
  BY <1>1, <1>10, IdleIsTask DEF Remove, Idle
<1>11. ASSUME NEW r \in Request, CountLinks(r) PROVE LinksKept'
  <2>1. /\ task'[r].step = "deleting" /\ task'[r].team = task[r].team
        /\ \A q \in Request \ {r} : task'[q] = task[q]
    BY <1>11, GoOnType DEF CountLinks, Steps
  <2> QED
    BY <1>11, <2>1 DEF CountLinks, Unused, LinksKept, DanglingHasCause
<1>12. ASSUME NEW r \in Request, Delete(r) PROVE LinksKept'
  <2> DEFINE id == task[r].team
  <2>1. task'[r] = Idle /\ \A q \in Request \ {r} : task'[q] = task[q]
    BY <1>12, IdleIsTask, GoType DEF Delete
  <2>2. squeezed \subseteq squeezed' /\ task[r].step = "deleting"
    BY <1>12 DEF Delete, At
  <2>3. DanglingHasCause'
    BY <1>12, <2>2 DEF Delete, LinksKept, DanglingHasCause
  <2>4. \A s \in Request : task'[s].step = "posting" /\ task'[s].team \notin squeezed' => task'[s].team \in teams'
    BY <1>12, <2>1, <2>2 DEF Delete, LinksKept, At, Idle
  <2> QED
    BY <1>12, <2>1, <2>2, <2>3, <2>4 DEF Delete, LinksKept, Idle
<1>13. ASSUME NEW r \in Request, NEW by \in Caller, NEW id \in Id, Post(r, by, id) PROVE LinksKept'
  <2> DEFINE t == [Idle EXCEPT !.step = "posting", !.team = id]
  <2>1. t \in Task /\ t.step = "posting" /\ t.team = id
    BY DEF Task, Steps, Idle, Role
  <2>2. task'[r] = t /\ \A q \in Request \ {r} : task'[q] = task[q]
    BY <1>13, <2>1, GoType DEF Post
  <2> QED
    BY <1>13, <2>1, <2>2 DEF Post, LinksKept, DanglingHasCause
<1>14. ASSUME NEW r \in Request, NEW l \in Link, CommitLink(r, l) PROVE LinksKept'
  <2> DEFINE id == task[r].team
  <2>1. task'[r] = Idle /\ \A q \in Request \ {r} : task'[q] = task[q]
    BY <1>14, IdleIsTask, GoType DEF CommitLink
  <2>2. /\ squeezed \subseteq squeezed' /\ task[r].step = "posting"
        /\ \A k \in Link : link'[k] = IF k = l THEN id ELSE link[k]
    BY <1>14 DEF CommitLink, At, TypeOK
  <2>3. DanglingHasCause'
    BY <1>14, <2>2 DEF CommitLink, LinksKept, DanglingHasCause
  <2>4. \A s \in Request : task'[s].step = "deleting" /\ task'[s].team \notin squeezed' =>
          \A k \in Link : link'[k] = task'[s].team => k \in patched'
    BY <1>14, <2>1, <2>2 DEF CommitLink, LinksKept, At, Idle
  <2> QED
    BY <1>14, <2>1, <2>2, <2>3, <2>4 DEF CommitLink, LinksKept, Idle
<1>15. ASSUME NEW l \in Link, NEW id \in Id \cup {NoTeam}, Patch(l, id) PROVE LinksKept'
  <2>1. \A k \in Link : link'[k] = IF k = l THEN id ELSE link[k]
    BY <1>15 DEF Patch, TypeOK
  <2> QED
    BY <1>15, <2>1 DEF Patch, LinksKept, DanglingHasCause
<1>16. CASE UNCHANGED vars
  BY <1>16, LinksFrame DEF vars
<1>17. Email \subseteq Caller /\ NoEmail \in Caller /\ Grantable \subseteq Role /\ "none" \in Role
  BY DEF Caller, Grantable, Role
<1> QED
  BY <1>3, <1>4, <1>5, <1>6, <1>7, <1>8, <1>9, <1>10, <1>11, <1>12, <1>13, <1>14, <1>15, <1>16, <1>17
  DEF Next, Handle

\* A link without its team was patched, or posted while that team was deleted.
THEOREM LinkSafety == Spec => []DanglingHasCause
<1>1. Init => Sound /\ LinksKept
  BY InitSound, InitLinks
<1>2. Sound /\ LinksKept /\ [Next]_vars => (Sound /\ LinksKept)'
  BY NextSound, NextLinks
<1>3. LinksKept => DanglingHasCause
  BY DEF LinksKept
<1> QED
  BY <1>1, <1>2, <1>3, PTL DEF Spec

=============================================================================
