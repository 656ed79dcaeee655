------------------------------- MODULE Backup -------------------------------
(***************************************************************************)
(* Backup and restore: modules/backup/service.py as the jobs of            *)
(* modules/jobs/runner.py, the routes of routers/backup.py and the command *)
(* line run it.  A step lies between two awaits, or is a statement another *)
(* process can see: one SELECT per table, one COMMIT per table, the file   *)
(* created and then filled by a thread.                                    *)
(***************************************************************************)
EXTENDS Tables

CONSTANTS Job,          \* backups and restores, each runs once
          Old,          \* archives found on disk
          StartArchive, \* their contents
          Torn, NoFile,
          Second,       \* what a clock may say
          MaxSuffix

\* An archive: the tables it has, whether all of it is valid, and its rows.
Archive == [has : SUBSET Table, sound : BOOLEAN, rows : Db]
Label == {"none", "pre-restore"}
Name == Old \cup (Label \X Second \X (1..MaxSuffix))

ASSUME ArchiveAssumption == StartArchive \subseteq Archive

VARIABLES
  disk,     \* the backups directory
  stage, kind,
  at,       \* the table a job is at
  dump,     \* tables_data
  name,     \* the file it chose
  source    \* what a restore read

\* History, read by no guard.
VARIABLES
  quiet,    \* restores since whose first SELECT nobody else wrote the tables
  spoiled   \* names deleted, or chosen by two jobs at once

work == <<stage, kind, at, dump, name, source>>
backupVars == <<disk, work, quiet, spoiled>>

EmptyDb == [shortcuts |-> [p \in Pattern |-> NoRow], keyed |-> [k \in Key |-> NoRow],
            teams |-> [t \in Team |-> 0], team_members |-> {}]

BackupInit ==
  /\ disk \in {[f \in Name |-> IF f \in Old THEN a ELSE NoFile] : a \in StartArchive}
  /\ stage = [j \in Job |-> "idle"]
  /\ kind = [j \in Job |-> "backup"]
  /\ at = [j \in Job |-> 1]
  /\ dump = [j \in Job |-> EmptyDb]
  /\ name = [j \in Job |-> NoFile]
  /\ source = [j \in Job |-> NoFile]
  /\ quiet = {} /\ spoiled = {}

----------------------------------------------------------------------------

Goto(j, s) == stage' = [stage EXCEPT ![j] = s]
Unwritten == UNCHANGED <<db, edits>>

\* POST /backup, or the command line.
BeginBackup(j) ==
  /\ stage[j] = "idle"
  /\ Goto(j, "dumping")
  /\ UNCHANGED <<disk, kind, at, dump, name, source, quiet, spoiled>> /\ Unwritten

\* _read_archive and _validated_rows: all of it, before anything is written.
Readable(f) == disk[f] \notin {NoFile, Torn} /\ disk[f].sound

\* POST /backup/{name}:restore; the file may be gone or still unfinished.
BeginRestore(j, f) ==
  /\ stage[j] = "idle"
  /\ kind' = [kind EXCEPT ![j] = "restore"]
  /\ IF Readable(f) THEN Goto(j, "dumping") /\ source' = [source EXCEPT ![j] = disk[f]]
     ELSE Goto(j, "failed") /\ UNCHANGED source
  /\ UNCHANGED <<disk, at, dump, name, quiet, spoiled>> /\ Unwritten

Last == Len(TableNames)

\* One SELECT: a table as it is now.
Dump(j) ==
  /\ stage[j] = "dumping"
  /\ at[j] <= Last
  /\ dump' = [dump EXCEPT ![j][TableNames[at[j]]] = db[TableNames[at[j]]]]
  /\ quiet' = IF at[j] = 1 /\ kind[j] = "restore" THEN quiet \cup {j} ELSE quiet
  /\ at' = [at EXCEPT ![j] = @ + 1]
  /\ UNCHANGED <<disk, stage, kind, name, source, spoiled>> /\ Unwritten

LabelOf(j) == IF kind[j] = "restore" THEN "pre-restore" ELSE "none"

\* Mutant: the plain name, whatever is there.
AnyName(j) == {<<LabelOf(j), s, 1>> : s \in Second}

\* The first name of this second and label that no file has.
FreeNames(j) ==
  {f \in {LabelOf(j)} \X Second \X (1..MaxSuffix) :
     disk[f] = NoFile /\ \A n \in 1..(f[3] - 1) : disk[<<f[1], f[2], n>>] # NoFile}

Writing == {"named", "filling"}

ChooseName(j) ==
  /\ stage[j] = "dumping"
  /\ at[j] > Last
  /\ \E f \in FreeNames(j) :
       /\ name' = [name EXCEPT ![j] = f]
       /\ spoiled' = IF \E i \in Job : name[i] = f /\ stage[i] \in Writing
                       THEN spoiled \cup {f} ELSE spoiled
  /\ Goto(j, "named")
  /\ UNCHANGED <<disk, kind, at, dump, source, quiet>> /\ Unwritten

\* Path.write_bytes creates or empties the file ...
OpenFile(j) ==
  /\ stage[j] = "named"
  /\ disk' = [disk EXCEPT ![name[j]] = Torn]
  /\ Goto(j, "filling")
  /\ UNCHANGED <<kind, at, dump, name, source, quiet, spoiled>> /\ Unwritten

Made(j) == [has |-> Table, sound |-> TRUE, rows |-> dump[j]]

\* ... and writes it. Nothing appears if it was unlinked; two writers may mix.
Filled(j) ==
  IF disk[name[j]] = NoFile THEN {NoFile}
  ELSE IF name[j] \in spoiled THEN {Made(j), Torn} ELSE {Made(j)}

\* The job is over and its variables are gone.
Leave(j, s) ==
  /\ Goto(j, s)
  /\ at' = [at EXCEPT ![j] = 1]
  /\ dump' = [dump EXCEPT ![j] = EmptyDb]
  /\ name' = [name EXCEPT ![j] = NoFile]
  /\ source' = [source EXCEPT ![j] = NoFile]

\* A restore goes on to its tables.
FillFile(j) ==
  /\ stage[j] = "filling"
  /\ \E c \in Filled(j) : disk' = [disk EXCEPT ![name[j]] = c]
  /\ IF kind[j] = "backup" THEN Leave(j, "ended")
     ELSE Goto(j, "applying") /\ at' = [at EXCEPT ![j] = 1] /\ UNCHANGED <<dump, name, source>>
  /\ UNCHANGED <<kind, quiet, spoiled>> /\ Unwritten

----------------------------------------------------------------------------

\* A shortcut takes every dumped column but its team.
MergeShortcuts(live, rows) ==
  [p \in Pattern |-> IF rows[p] = NoRow THEN live[p]
     ELSE [value |-> rows[p].value, team |-> IF live[p] = NoRow THEN 0 ELSE live[p].team]]

\* Mutant: rows missing in the archive are deleted.
ReplaceKeyed(live, rows) == rows

MergeKeyed(live, rows) == [k \in Key |-> IF rows[k] = NoRow THEN live[k] ELSE rows[k]]

\* Missing teams are inserted with ids the database gives them.
MergeTeams(live, rows) ==
  {new \in [Team -> {0} \cup Id] : \A t \in Team :
     IF live[t] # 0 \/ rows[t] = 0 THEN new[t] = live[t]
     ELSE /\ \A u \in Team : live[u] < new[t]
          /\ \A u \in Team \ {t} : new[u] # new[t]}

\* Members go by the dumped team id.
MergeMembers(live, rows) == live \cup rows

\* _apply_table: all rows of a table in one transaction.
Applied(d, table, rows) ==
  CASE table = "shortcuts" -> {[d EXCEPT !.shortcuts = MergeShortcuts(@, rows.shortcuts)]}
    [] table = "keyed" -> {[d EXCEPT !.keyed = MergeKeyed(@, rows.keyed)]}
    [] table = "teams" -> {[d EXCEPT !.teams = new] : new \in MergeTeams(d.teams, rows.teams)}
    [] table = "team_members" ->
         IF ForeignKeys /\ \E m \in rows.team_members : ~HasTeam(d, m[1]) THEN {}
         ELSE {[d EXCEPT !.team_members = MergeMembers(@, rows.team_members)]}

\* Somebody other than j wrote the tables.
Disturb(j) == quiet' = quiet \cap {j}

\* The next table, if the archive has it.
Apply(j) ==
  /\ stage[j] = "applying"
  /\ at[j] <= Last
  /\ at' = [at EXCEPT ![j] = @ + 1]
  /\ IF TableNames[at[j]] \in source[j].has
       THEN db' \in Applied(db, TableNames[at[j]], source[j].rows) /\ Disturb(j)
       ELSE UNCHANGED <<db, quiet>>
  /\ UNCHANGED <<edits, disk, stage, kind, dump, name, source, spoiled>>

EndRestore(j) ==
  /\ stage[j] = "applying"
  /\ at[j] > Last
  /\ Goto(j, "ended")
  /\ UNCHANGED <<disk, kind, at, dump, name, source, quiet, spoiled>> /\ Unwritten

\* A statement raises, the job is cancelled or the process dies: what was
\* committed stays. The thread that writes the file may still finish it.
Stop(j) ==
  /\ stage[j] \in {"dumping", "applying"} \cup Writing
  /\ IF stage[j] = "applying" THEN Goto(j, "stopped") /\ UNCHANGED <<at, dump, name, source>>
     ELSE Leave(j, "failed")
  /\ IF stage[j] = "filling"
       THEN \E c \in {disk[name[j]]} \cup Filled(j) : disk' = [disk EXCEPT ![name[j]] = c]
       ELSE UNCHANGED disk
  /\ UNCHANGED <<kind, quiet, spoiled>> /\ Unwritten

\* DELETE /backup/{name}.
DeleteBackup(f) ==
  /\ disk[f] # NoFile
  /\ disk' = [disk EXCEPT ![f] = NoFile]
  /\ spoiled' = spoiled \cup {f}
  /\ UNCHANGED <<work, quiet>> /\ Unwritten

BackupStep ==
  \/ \E j \in Job : BeginBackup(j) \/ Dump(j) \/ ChooseName(j) \/ OpenFile(j) \/ FillFile(j)
  \/ \E j \in Job : Apply(j) \/ EndRestore(j) \/ Stop(j)
  \/ \E j \in Job, f \in Name : BeginRestore(j, f)
  \/ \E f \in Name : DeleteBackup(f)

----------------------------------------------------------------------------

\* Restores that are past their safety backup.
Restored == {j \in Job : kind[j] = "restore" /\ stage[j] \in {"applying", "ended", "stopped"}}

\* The tables j has applied so far.
Covered(j, table) ==
  table \in source[j].has /\ \E n \in 1..(at[j] - 1) : TableNames[n] = table

\* What a restore and its safety archive say of the database.
Merged(j) ==
  LET rows == source[j].rows
      FromArchive(table, row, none) == Covered(j, table) /\ row # none
  IN
  /\ source[j].sound
  /\ \A k \in Key :
       db.keyed[k] = IF FromArchive("keyed", rows.keyed[k], NoRow) THEN rows.keyed[k] ELSE dump[j].keyed[k]
  /\ \A p \in Pattern :
       IF FromArchive("shortcuts", rows.shortcuts[p], NoRow)
         THEN db.shortcuts[p] # NoRow /\ db.shortcuts[p].value = rows.shortcuts[p].value
         ELSE db.shortcuts[p] = dump[j].shortcuts[p]
  /\ \A t \in Team :
       IF dump[j].teams[t] # 0 THEN db.teams[t] = dump[j].teams[t]
       ELSE (db.teams[t] # 0) = FromArchive("teams", rows.teams[t], 0)
  /\ db.team_members = dump[j].team_members \cup
       IF Covered(j, "team_members") THEN rows.team_members ELSE {}

\* "merge-upsert by natural key": with no other writer, the database holds the rows
\* of the tables applied so far as the archive has them and every other row as the
\* safety archive has it; so restoring that one undoes every overwrite. A restore
\* that stopped half way is no exception, and one of a defective archive applied nothing.
\* Left open is the team of a shortcut from the archive (see MatchesUpdateEveryColumn);
\* members are those of the archive's team ids, whatever teams have them now.
RestoreMerges == \A j \in quiet \cap Restored : Merged(j)

\* "Matches update every column except the key" (_apply_table): with no other writer, a
\* shortcut of the archive that is matched has every column as dumped, its team included
\* if that was still the same team.
MatchesUpdateEveryColumn ==
  \A j \in quiet \cap Restored, p \in Pattern :
    LET row == source[j].rows.shortcuts[p]
        SameTeam(t) == source[j].rows.teams[t] = row.team /\ dump[j].teams[t] = row.team
    IN
    /\ Covered(j, "shortcuts")
    /\ row # NoRow /\ dump[j].shortcuts[p] # NoRow
    /\ row.team = 0 \/ \E t \in Team : SameTeam(t)
    => db.shortcuts[p] = row

\* "a new archive": a whole archive on disk never changes but by DELETE, or when two
\* jobs chose its name before either wrote it (create_backup).
ArchivesStand ==
  [][\A f \in Name : disk[f] \notin {NoFile, Torn} /\ f \notin spoiled' => disk'[f] = disk[f]]_<<disk, spoiled>>

=============================================================================
