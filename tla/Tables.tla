------------------------------- MODULE Tables -------------------------------
(***************************************************************************)
(* The domain tables as the bulk operations see them: TABLE_MODELS of      *)
(* modules/backup/service.py, and the edits the API commits meanwhile.     *)
(* "keyed" stands for the tables between shortcuts and teams, which differ *)
(* in their natural key only.                                              *)
(***************************************************************************)
EXTENDS Naturals, Sequences

CONSTANTS Pattern, Key, Team, Email, \* natural keys
          Value,                     \* the other columns of a row
          NoRow,
          MaxId,                     \* ids that teams get
          ForeignKeys,               \* enforced: PostgreSQL; not: SQLite as configured
          StartDb,                   \* databases to start from
          MaxEdits

Id == 1..MaxId

\* In the order of TABLE_MODELS: dumped and applied one by one.
TableNames == <<"shortcuts", "keyed", "teams", "team_members">>
Table == {TableNames[n] : n \in DOMAIN TableNames}

\* A shortcut may belong to a team, 0 for none; a team has an id, 0 for no team;
\* a member is the id of a team and an email.
Db == [shortcuts : [Pattern -> {NoRow} \cup [value : Value, team : {0} \cup Id]],
       keyed : [Key -> {NoRow} \cup Value],
       teams : [Team -> {0} \cup Id],
       team_members : SUBSET (Id \X Email)]

ASSUME RowAssumption == NoRow \notin Value \cup [value : Value, team : {0} \cup Id]
ASSUME BoundAssumption == MaxId \in Nat /\ MaxEdits \in Nat /\ ForeignKeys \in BOOLEAN
ASSUME StartAssumption == StartDb \subseteq Db

VARIABLES db, edits

HasTeam(d, id) == \E t \in Team : d.teams[t] = id

\* The database numbers rows upwards; SQLite may give the number of a deleted
\* last row again.
FreeIds(d) == {id \in Id : \A t \in Team : d.teams[t] < id}

Edit(d) == edits < MaxEdits /\ edits' = edits + 1 /\ db' = d

\* POST and PUT of a shortcut.
PutShortcut(p, v, id) ==
  /\ id = 0 \/ HasTeam(db, id)
  /\ Edit([db EXCEPT !.shortcuts[p] = [value |-> v, team |-> id]])

DeleteShortcut(p) == db.shortcuts[p] # NoRow /\ Edit([db EXCEPT !.shortcuts[p] = NoRow])

PutKeyed(k, v) == Edit([db EXCEPT !.keyed[k] = v])

DeleteKeyed(k) == db.keyed[k] # NoRow /\ Edit([db EXCEPT !.keyed[k] = NoRow])

\* A team with its first admin.
CreateTeam(t, e) ==
  /\ db.teams[t] = 0
  /\ \E id \in FreeIds(db) : Edit([db EXCEPT !.teams[t] = id, !.team_members = @ \cup {<<id, e>>}])

\* A team goes without its members; where keys are enforced only an empty one.
DeleteTeam(t) ==
  /\ db.teams[t] # 0
  /\ \A p \in Pattern : db.shortcuts[p] # NoRow => db.shortcuts[p].team # db.teams[t]
  /\ ForeignKeys => \A m \in db.team_members : m[1] # db.teams[t]
  /\ Edit([db EXCEPT !.teams[t] = 0])

ApiEdit ==
  \/ \E p \in Pattern, v \in Value, id \in {0} \cup Id : PutShortcut(p, v, id)
  \/ \E p \in Pattern : DeleteShortcut(p)
  \/ \E k \in Key, v \in Value : PutKeyed(k, v)
  \/ \E k \in Key : DeleteKeyed(k)
  \/ \E t \in Team, e \in Email : CreateTeam(t, e)
  \/ \E t \in Team : DeleteTeam(t)

=============================================================================
