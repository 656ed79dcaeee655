-------------------------------- MODULE Teams --------------------------------
(***************************************************************************)
(* Teams, their rosters and their links: routers/teams.py,                 *)
(* modules/teams/repository.py and the team part of routers/shortcuts.py.  *)
(* A request reads in some awaits what it writes in a later one.  SQLite   *)
(* runs with foreign keys off and gives a deleted id out again; PostgreSQL *)
(* enforces them and never does.                                           *)
(***************************************************************************)
EXTENDS Integers

CONSTANTS Email,      \* accounts; addresses without one are refused
          NoEmail,    \* a site admin without an address
          Link,       \* slots for team links
          Request,    \* slots for requests
          MaxTeams, MaxRequests

NoTeam == 0
Id == 1 .. MaxTeams
Role == {"none", "member", "admin"}

ASSUME EmailAssumption == NoEmail \notin Email
ASSUME TeamAssumption == MaxTeams \in Nat /\ MaxRequests \in Nat

VARIABLES
  database,
  teams,    \* table teams: the ids in use
  top,      \* the highest id ever given out
  roster,   \* table team_members, by team and address
  link,     \* team_id of a shortcut, NoTeam also when there is no such link
  task,     \* where a request stands and what it is about
  requests

\* History, read by no guard.
VARIABLES
  unfounded,  \* teams whose founder has no row yet
  raced,      \* teams in which a removal overlapped another, or the founding
  patched,    \* links that got their team by PATCH
  squeezed    \* teams whose deletion overlapped the posting of a link

tables == <<teams, top, roster, link>>
history == <<unfounded, raced, patched, squeezed>>
vars == <<database, tables, task, requests, history>>

Steps == {"idle", "founding", "add", "adding", "remove", "counting", "removing",
          "delete", "deleting", "posting"}
Task == [step : Steps, team : Id \cup {NoTeam}, who : Email \cup {NoEmail}, as : Role]
Idle == [step |-> "idle", team |-> NoTeam, who |-> NoEmail, as |-> "none"]

Admins(id) == {e \in Email : roster[id][e] = "admin"}

Init ==
  /\ database \in {"sqlite", "postgres"}
  /\ top \in Id /\ teams = 1 .. top
  /\ roster \in [Id -> [Email -> Role]]
  /\ \A id \in Id : IF id \in teams THEN Admins(id) # {} ELSE \A e \in Email : roster[id][e] = "none"
  /\ link \in [Link -> teams \cup {NoTeam}]
  /\ task = [r \in Request |-> Idle]
  /\ requests = 0
  /\ unfounded = {} /\ raced = {} /\ patched = {} /\ squeezed = {}

----------------------------------------------------------------------------

At(r, s) == task[r].step = s
Enforced == database = "postgres"   \* foreign keys

Arrive(r) == At(r, "idle") /\ requests < MaxRequests /\ requests' = requests + 1
Go(r, t) == task' = [task EXCEPT ![r] = t]
GoOn(r, s) == task' = [task EXCEPT ![r].step = s]

\* A request ends with an answer, an error status, or a statement that raised:
\* the database refused it or was gone.
End(r) ==
  /\ ~At(r, "idle")
  /\ Go(r, Idle)
  /\ UNCHANGED <<database, tables, requests, history>>

NextId(id) ==
  IF Enforced THEN id = top + 1
  ELSE /\ \A t \in teams : t < id
       /\ id = 1 \/ id - 1 \in teams

\* The team is committed, then the founder's row; a site admin may have no address.
Create(r, founder, id) ==
  /\ Arrive(r)
  /\ NextId(id)
  /\ teams' = teams \cup {id}
  /\ top' = IF id > top THEN id ELSE top
  /\ unfounded' = unfounded \cup {id}
  /\ Go(r, IF founder = NoEmail THEN Idle
           ELSE [step |-> "founding", team |-> id, who |-> founder, as |-> "admin"])
  /\ UNCHANGED <<database, roster, link, raced, patched, squeezed>>

\* Outsiders and plain members get a 404.
MayManage(by, id) == by \in Admins(id) \cup {NoEmail}

Grantable == {"member", "admin"}

\* The team is there and the caller its admin or a site admin.
Manage(r, by, s, id, who, as) ==
  /\ Arrive(r)
  /\ id \in teams
  /\ MayManage(by, id)
  /\ Go(r, [step |-> s, team |-> id, who |-> who, as |-> as])
  /\ UNCHANGED <<database, tables, history>>

\* "Already a member" is a 409.
CheckMember(r) ==
  /\ At(r, "add")
  /\ roster[task[r].team][task[r].who] = "none"
  /\ GoOn(r, "adding")
  /\ UNCHANGED <<database, tables, requests, history>>

\* A removal that has read what it decides by, and not deleted.
Removing(s, id, e) == task[s].step \in {"counting", "removing"} /\ task[s].team = id /\ task[s].who = e

\* The row of a new member or of the founder: one per team and address.
Insert(r) ==
  LET id == task[r].team  e == task[r].who IN
  /\ task[r].step \in {"founding", "adding"}
  /\ roster[id][e] = "none"
  /\ Enforced => id \in teams
  /\ roster' = [roster EXCEPT ![id][e] = task[r].as]
  /\ IF At(r, "founding")
       THEN /\ unfounded' = unfounded \ {id}
            /\ raced' = IF \E s \in Request : Removing(s, id, e) THEN raced \cup {id} ELSE raced
       ELSE UNCHANGED <<unfounded, raced>>
  /\ Go(r, Idle)
  /\ UNCHANGED <<database, teams, top, link, requests, patched, squeezed>>

\* The target's role; a target off the roster is a 404.
ReadRole(r) ==
  LET role == roster[task[r].team][task[r].who] IN
  /\ At(r, "remove")
  /\ role # "none"
  /\ GoOn(r, IF role = "admin" THEN "counting" ELSE "removing")
  /\ UNCHANGED <<database, tables, requests, history>>

\* Mutant: the last admin may go.
AnyAdmin(id) == Admins(id) # {}

\* admin_count > 1.
Spare(id) == \E e, f \in Admins(id) : e # f

\* "A team always keeps one admin": otherwise a 409.
CountAdmins(r) ==
  /\ At(r, "counting")
  /\ Spare(task[r].team)
  /\ GoOn(r, "removing")
  /\ UNCHANGED <<database, tables, requests, history>>

\* The row is read again and deleted; without one the assertion fails.
Remove(r) ==
  LET id == task[r].team  e == task[r].who IN
  /\ At(r, "removing")
  /\ roster[id][e] # "none"
  /\ roster' = [roster EXCEPT ![id][e] = "none"]
  /\ raced' = IF /\ roster[id][e] = "admin"
                 /\ \E s \in Request, f \in Email \ {e} : Removing(s, id, f)
              THEN raced \cup {id} ELSE raced
  /\ Go(r, Idle)
  /\ UNCHANGED <<database, teams, top, link, requests, unfounded, patched, squeezed>>

----------------------------------------------------------------------------

\* Mutant: links do not keep their team.
AlwaysUnused(id) == TRUE

\* link_count = 0: otherwise a 409.
Unused(id) == \A l \in Link : link[l] # id

CountLinks(r) ==
  /\ At(r, "delete")
  /\ Unused(task[r].team)
  /\ GoOn(r, "deleting")
  /\ UNCHANGED <<database, tables, requests, history>>

\* Only the team's row goes. Foreign keys refuse that while a member or link is left.
Delete(r) ==
  LET id == task[r].team IN
  /\ At(r, "deleting")
  /\ Enforced => Unused(id) /\ \A e \in Email : roster[id][e] = "none"
  /\ teams' = teams \ {id}
  /\ squeezed' = IF \E s \in Request : At(s, "posting") /\ task[s].team = id
                   THEN squeezed \cup {id} ELSE squeezed
  /\ Go(r, Idle)
  /\ UNCHANGED <<database, top, roster, link, requests, unfounded, raced, patched>>

\* A team link needs the team and, but for a site admin, membership in it.
Post(r, by, id) ==
  /\ Arrive(r)
  /\ id \in teams
  /\ by \in {e \in Email : roster[id][e] # "none"} \cup {NoEmail}
  /\ Go(r, [Idle EXCEPT !.step = "posting", !.team = id])
  /\ UNCHANGED <<database, tables, history>>

CommitLink(r, l) ==
  LET id == task[r].team IN
  /\ At(r, "posting")
  /\ link[l] = NoTeam
  /\ Enforced => id \in teams
  /\ link' = [link EXCEPT ![l] = id]
  /\ patched' = patched \ {l}
  /\ squeezed' = IF \E s \in Request : At(s, "deleting") /\ task[s].team = id
                   THEN squeezed \cup {id} ELSE squeezed
  /\ Go(r, Idle)
  /\ UNCHANGED <<database, teams, top, roster, requests, unfounded, raced>>

\* PATCH takes any team_id, and DELETE or PATCH takes the link away.
Patch(l, id) ==
  /\ requests < MaxRequests /\ requests' = requests + 1
  /\ Enforced => id \in teams \cup {NoTeam}
  /\ link' = [link EXCEPT ![l] = id]
  /\ patched' = patched \cup {l}
  /\ UNCHANGED <<database, teams, top, roster, task, unfounded, raced, squeezed>>

----------------------------------------------------------------------------

Caller == Email \cup {NoEmail}

Handle(r) ==
  \/ End(r)
  \/ \E founder \in Caller, id \in Id : Create(r, founder, id)
  \/ \E by \in Caller, id \in Id, who \in Email, as \in Grantable : Manage(r, by, "add", id, who, as)
  \/ CheckMember(r)
  \/ Insert(r)
  \/ \E by \in Caller, id \in Id, who \in Email : Manage(r, by, "remove", id, who, "none")
  \/ ReadRole(r)
  \/ CountAdmins(r)
  \/ Remove(r)
  \/ \E by \in Caller, id \in Id : Manage(r, by, "delete", id, NoEmail, "none")
  \/ CountLinks(r)
  \/ Delete(r)
  \/ \E by \in Caller, id \in Id : Post(r, by, id)
  \/ \E l \in Link : CommitLink(r, l)

Next ==
  \/ \E r \in Request : Handle(r)
  \/ \E l \in Link, id \in Id \cup {NoTeam} : Patch(l, id)

Spec == Init /\ [][Next]_vars

----------------------------------------------------------------------------

TypeOK ==
  /\ database \in {"sqlite", "postgres"}
  /\ top \in Nat /\ teams \subseteq Id /\ \A id \in teams : id <= top
  /\ roster \in [Id -> [Email -> Role]]
  /\ link \in [Link -> Id \cup {NoTeam}]
  /\ task \in [Request -> Task]
  /\ requests \in Nat
  /\ unfounded \subseteq Id /\ raced \subseteq Id /\ squeezed \subseteq Id
  /\ patched \subseteq Link

\* "A team always keeps one admin" (remove_member), but for two causes: the row of
\* its founder was never committed (create), or a removal was committed while one
\* of somebody else, or of the founder, stood between its reads and its DELETE.
AdminlessHasCause == \A id \in teams : Admins(id) = {} => id \in unfounded \cup raced

\* "Move or delete the team's links before deleting it" (delete_team): a link whose
\* team is gone got it by PATCH, or was posted while that team was being deleted.
DanglingHasCause ==
  \A l \in Link : link[l] \notin teams \cup {NoTeam} => l \in patched \/ link[l] \in squeezed

=============================================================================
