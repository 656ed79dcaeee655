---------------------------- MODULE BulkData_proof ----------------------------
(* Proofs about BulkData for every database, archive, v2 directory and number *)
(* of jobs: what archives, imports and restores leave, whatever runs beside.  *)
EXTENDS BulkData, WellFoundedInduction, TLAPS

USE DEF backupVars, importVars, work, Unwritten

Shortcuts == [Pattern -> {NoRow} \cup [value : Value, team : {0} \cup Id]]
Keyed == [Key -> {NoRow} \cup Value]
Teams == [Team -> {0} \cup Id]
Members == SUBSET (Id \X Email)

Busy == {"dumping", "named", "filling", "applying", "ended", "stopped"}

Typed ==
  /\ db \in Db
  /\ disk \in [Name -> Archive \cup {NoFile, Torn}]
  /\ stage \in [Job -> {"idle", "failed"} \cup Busy]
  /\ kind \in [Job -> {"backup", "restore"}]
  /\ at \in [Job -> 1 .. 5]
  /\ dump \in [Job -> Db]
  /\ name \in [Job -> Name \cup {NoFile}]
  /\ source \in [Job -> Archive \cup {NoFile}]
  /\ v2 \in Sources
  /\ \A j \in Job : stage[j] \in Writing => name[j] \in Name
  /\ \A j \in Job : stage[j] = "idle" => kind[j] = "backup"
  /\ \A j \in Job : stage[j] = "applying" => kind[j] = "restore"
  /\ \A j \in Job : kind[j] = "restore" /\ stage[j] \in Busy
                      => source[j] \in Archive /\ source[j].sound

----------------------------------------------------------------------------

\* The four tables, and replacing one.
LEMMA TableFacts ==
  /\ Last = 4
  /\ TableNames[1] = "shortcuts" /\ TableNames[2] = "keyed"
  /\ TableNames[3] = "teams" /\ TableNames[4] = "team_members"
  /\ Table = {"shortcuts", "keyed", "teams", "team_members"}
BY DEF Last, TableNames, Table

LEMMA Fields ==
  ASSUME NEW d \in Db
  PROVE  /\ d.shortcuts \in Shortcuts /\ d.keyed \in Keyed
         /\ d.teams \in Teams /\ d.team_members \in Members
         /\ d = [shortcuts |-> d.shortcuts, keyed |-> d.keyed,
                 teams |-> d.teams, team_members |-> d.team_members]
BY DEF Db, Shortcuts, Keyed, Teams, Members

LEMMA Replace ==
  ASSUME NEW d \in Db
  PROVE  /\ \A x \in Shortcuts : [d EXCEPT !.shortcuts = x] \in Db
         /\ \A x \in Keyed : [d EXCEPT !.keyed = x] \in Db
         /\ \A x \in Teams : [d EXCEPT !.teams = x] \in Db
         /\ \A x \in Members : [d EXCEPT !.team_members = x] \in Db
BY DEF Db, Shortcuts, Keyed, Teams, Members

LEMMA EmptyTyped == EmptyDb \in Db
BY DEF EmptyDb, Db

\* A key of the v2 directory has a first row.
LEMMA Least ==
  ASSUME NEW T \in SUBSET Nat, T # {}
  PROVE  \E n \in T : \A m \in T : n <= m
<1>1. PICK n \in T : \A m \in T : ~ (<<m, n>> \in OpToRel(<, Nat))
  BY NatLessThanWellFounded, WFMin
<1>2. \A m \in T : ~ (m < n)
  BY <1>1 DEF OpToRel
<1> QED
  BY <1>2

LEMMA RowTypes ==
  ASSUME v2 \in Sources
  PROVE  Rows(v2) \in Seq((Pattern \cup Key \cup {NoKey}) \X Value)
<1>1. /\ v2.shortcuts \in Seq((Pattern \cup {NoKey}) \X Value)
      /\ v2.keyed \in Seq((Key \cup {NoKey}) \X Value)
  BY SourceAssumption
<1>2. /\ v2.shortcuts \in Seq((Pattern \cup Key \cup {NoKey}) \X Value)
      /\ v2.keyed \in Seq((Pattern \cup Key \cup {NoKey}) \X Value)
  BY <1>1
<1> QED
  BY <1>2 DEF Rows

LEMMA FirstRows ==
  ASSUME v2 \in Sources, NEW k \in Given
  PROVE  /\ FirstRow(k) \in Value
         /\ k \in Pattern \cup Key
         /\ \E n \in DOMAIN Rows(v2) :
              Rows(v2)[n] = <<k, FirstRow(k)>> /\ \A m \in 1 .. (n - 1) : Rows(v2)[m][1] # k
<1> DEFINE rs == Rows(v2)
           T == {n \in DOMAIN rs : rs[n][1] = k}
<1>1. rs \in Seq((Pattern \cup Key \cup {NoKey}) \X Value)
  BY RowTypes
<1> HIDE DEF rs
<1>2. DOMAIN rs = 1 .. Len(rs) /\ Len(rs) \in Nat
  BY <1>1
<1>3. T # {} /\ k # NoKey
  BY DEF Given, rs
<1>4. T \in SUBSET Nat
  BY <1>2
<1>5. PICK n \in T : \A m \in T : n <= m
  BY <1>3, <1>4, Least
<1> DEFINE first == CHOOSE i \in DOMAIN rs : rs[i][1] = k /\ \A m \in DOMAIN rs : rs[m][1] = k => i <= m
<1>6. first \in DOMAIN rs /\ rs[first][1] = k /\ \A m \in DOMAIN rs : rs[m][1] = k => first <= m
  BY <1>5
<1>7. FirstRow(k) = rs[first][2]
  BY DEF FirstRow, rs
<1> HIDE DEF first
<1>8. rs[first] \in (Pattern \cup Key \cup {NoKey}) \X Value
  BY <1>1, <1>2, <1>6
<1>9. rs[first] = <<k, FirstRow(k)>> /\ FirstRow(k) \in Value /\ k \in Pattern \cup Key
  BY <1>3, <1>6, <1>7, <1>8
<1>10. \A m \in 1 .. (first - 1) : rs[m][1] # k
  BY <1>2, <1>6
<1> QED
  BY <1>6, <1>9, <1>10 DEF rs

----------------------------------------------------------------------------

\* Every step keeps the tables, the archives and the jobs what they are.
LEMMA InitTyped == Init => Typed
<1> SUFFICES ASSUME Init PROVE Typed
  OBVIOUS
<1>1. db \in Db
  BY StartAssumption DEF Init
<1>2. disk \in [Name -> Archive \cup {NoFile, Torn}]
  BY ArchiveAssumption DEF Init, BackupInit
<1>3. v2 \in Sources
  BY DEF Init, ImportInit
<1> QED
  BY <1>1, <1>2, <1>3, EmptyTyped DEF Init, BackupInit, Typed, Writing, Busy

LEMMA EditTyped ==
  ASSUME Typed, ApiEdit
  PROVE  db' \in Db
<1>1. db \in Db /\ db.shortcuts \in Shortcuts /\ db.keyed \in Keyed /\ db.teams \in Teams
      /\ db.team_members \in Members
  BY Fields DEF Typed
<1>2. ASSUME NEW p \in Pattern, NEW v \in Value, NEW id \in {0} \cup Id, PutShortcut(p, v, id)
      PROVE  db' \in Db
  <2>1. [db.shortcuts EXCEPT ![p] = [value |-> v, team |-> id]] \in Shortcuts
    BY <1>1 DEF Shortcuts
  <2> QED
    BY <2>1, <1>1, <1>2, Replace DEF PutShortcut, Edit
<1>3. ASSUME NEW p \in Pattern, DeleteShortcut(p) PROVE db' \in Db
  <2>1. [db.shortcuts EXCEPT ![p] = NoRow] \in Shortcuts
    BY <1>1 DEF Shortcuts
  <2> QED
    BY <2>1, <1>1, <1>3, Replace DEF DeleteShortcut, Edit
<1>4. ASSUME NEW k \in Key, NEW v \in Value \cup {NoRow}, Edit([db EXCEPT !.keyed[k] = v])
      PROVE  db' \in Db
  <2>1. [db.keyed EXCEPT ![k] = v] \in Keyed
    BY <1>1 DEF Keyed
  <2> QED
    BY <2>1, <1>1, <1>4, Replace DEF Edit
<1>5. ASSUME NEW t \in Team, NEW e \in Email, CreateTeam(t, e) PROVE db' \in Db
  <2>1. PICK id \in Id : db' = [db EXCEPT !.teams[t] = id, !.team_members = @ \cup {<<id, e>>}]
    BY <1>5 DEF CreateTeam, Edit, FreeIds
  <2>2. [db.teams EXCEPT ![t] = id] \in Teams /\ db.team_members \cup {<<id, e>>} \in Members
    BY <1>1 DEF Teams, Members
  <2>3. [db EXCEPT !.teams = [db.teams EXCEPT ![t] = id]] \in Db
    BY <2>2, <1>1, Replace
  <2>4. [[db EXCEPT !.teams = [db.teams EXCEPT ![t] = id]]
           EXCEPT !.team_members = db.team_members \cup {<<id, e>>}] \in Db
    BY <2>2, <2>3, Replace
  <2>5. db' = [[db EXCEPT !.teams = [db.teams EXCEPT ![t] = id]]
                 EXCEPT !.team_members = db.team_members \cup {<<id, e>>}]
    BY <2>1, <1>1 DEF Db
  <2> QED
    BY <2>4, <2>5
<1>6. ASSUME NEW t \in Team, DeleteTeam(t) PROVE db' \in Db
  <2>1. [db.teams EXCEPT ![t] = 0] \in Teams
    BY <1>1 DEF Teams
  <2> QED
    BY <2>1, <1>1, <1>6, Replace DEF DeleteTeam, Edit
<1> QED
  BY <1>2, <1>3, <1>4, <1>5, <1>6 DEF ApiEdit, PutKeyed, DeleteKeyed

LEMMA ImportTyped ==
  ASSUME Typed, ImportStep
  PROVE  db' \in Db /\ v2' = v2
<1>1. db \in Db /\ db.shortcuts \in Shortcuts /\ db.keyed \in Keyed
  BY Fields DEF Typed
<1>2. CASE db' = db
  BY <1>1, <1>2 DEF ImportStep, Start, ProbeShortcuts, ProbeKeyed, Commit, Abort, Reach
<1>3. CASE Commit /\ db' = With(db)
  <2> DEFINE s == [p \in Pattern |-> IF p \in New THEN [value |-> FirstRow(p), team |-> 0] ELSE db.shortcuts[p]]
             y == [k \in Key |-> IF k \in New THEN FirstRow(k) ELSE db.keyed[k]]
  <2>1. \A k \in New : FirstRow(k) \in Value
    BY FirstRows DEF Typed, New
  <2>2. s \in Shortcuts /\ y \in Keyed
    BY <1>1, <2>1 DEF Shortcuts, Keyed
  <2>3. With(db) = [[db EXCEPT !.shortcuts = s] EXCEPT !.keyed = y]
    BY <1>1 DEF With, Db
  <2> HIDE DEF s, y
  <2>4. [db EXCEPT !.shortcuts = s] \in Db
    BY <1>1, <2>2, Replace
  <2>5. With(db) \in Db
    BY <2>2, <2>3, <2>4, Replace
  <2> QED
    BY <1>3, <2>5 DEF Commit
<1> QED
  BY <1>2, <1>3 DEF ImportStep, Start, ProbeShortcuts, ProbeKeyed, Commit, Abort, Reach

\* What applying a table may leave.
LEMMA AppliedTyped ==
  ASSUME NEW d \in Db, NEW rows \in Db, NEW table \in Table, NEW e \in Applied(d, table, rows)
  PROVE  e \in Db
<1>1. /\ d.shortcuts \in Shortcuts /\ d.keyed \in Keyed /\ d.team_members \in Members
      /\ rows.shortcuts \in Shortcuts /\ rows.keyed \in Keyed /\ rows.team_members \in Members
  BY Fields
<1>2. MergeShortcuts(d.shortcuts, rows.shortcuts) \in Shortcuts
  BY <1>1 DEF MergeShortcuts, Shortcuts
<1>3. MergeKeyed(d.keyed, rows.keyed) \in Keyed
  BY <1>1 DEF MergeKeyed, Keyed
<1>4. \A new \in MergeTeams(d.teams, rows.teams) : new \in Teams
  BY DEF MergeTeams, Teams
<1>5. MergeMembers(d.team_members, rows.team_members) \in Members
  BY <1>1 DEF MergeMembers, Members
<1>6. CASE table = "shortcuts"
  BY <1>6, <1>2, Replace DEF Applied
<1>7. CASE table = "keyed"
  BY <1>7, <1>3, Replace DEF Applied
<1>8. CASE table = "teams"
  BY <1>8, <1>4, Replace DEF Applied
<1>9. CASE table = "team_members"
  BY <1>9, <1>5, Replace DEF Applied
<1> QED
  BY <1>6, <1>7, <1>8, <1>9, TableFacts

\* A dump with one more table.
LEMMA DumpTyped ==
  ASSUME NEW d \in Db, NEW now \in Db, NEW n \in 1 .. 4
  PROVE  [d EXCEPT ![TableNames[n]] = now[TableNames[n]]] \in Db
<1>1. /\ now.shortcuts \in Shortcuts /\ now.keyed \in Keyed
      /\ now.teams \in Teams /\ now.team_members \in Members
  BY Fields
<1>2. n = 1 \/ n = 2 \/ n = 3 \/ n = 4
  OBVIOUS
<1> QED
  BY <1>1, <1>2, TableFacts, Replace

LEMMA StepTyped == Typed /\ [Next]_vars => Typed'
<1> SUFFICES ASSUME Typed, [Next]_vars PROVE Typed'
  OBVIOUS
<1> USE DEF Typed
<1>1. CASE UNCHANGED vars
  BY <1>1 DEF vars
<1>2. CASE Edits
  BY <1>2, EditTyped DEF Edits
<1>3. CASE Imports
  BY <1>3, ImportTyped DEF Imports
<1>4. CASE Backups
  <2>0. v2' = v2
    BY <1>4, TableFacts DEF Backups
  <2>1. ASSUME NEW j \in Job, BeginBackup(j) PROVE Typed'
    BY <2>0, <2>1 DEF BeginBackup, Goto, Busy, Writing
  <2>2. ASSUME NEW j \in Job, Dump(j) PROVE Typed'
    <3>1. at[j] \in 1 .. 4
      BY <2>2, TableFacts DEF Dump
    <3>2. [dump[j] EXCEPT ![TableNames[at[j]]] = db[TableNames[at[j]]]] \in Db
      BY <3>1, DumpTyped
    <3>3. dump' = [dump EXCEPT ![j] = [dump[j] EXCEPT ![TableNames[at[j]]] = db[TableNames[at[j]]]]]
      BY <2>2 DEF Dump
    <3>4. dump' \in [Job -> Db]
      BY <3>2, <3>3
    <3>5. at' \in [Job -> 1 .. 5]
      BY <2>2, <3>1 DEF Dump
    <3> QED
      BY <2>0, <2>2, <3>4, <3>5 DEF Dump
  <2>3. ASSUME NEW j \in Job, ChooseName(j) PROVE Typed'
    <3>1. PICK f \in FreeNames(j) : name' = [name EXCEPT ![j] = f]
      BY <2>3 DEF ChooseName
    <3>2. f \in Name
      BY DEF FreeNames, Name, Label, LabelOf
    <3> QED
      BY <2>0, <2>3, <3>1, <3>2 DEF ChooseName, Goto, Busy, Writing
  <2>4. ASSUME NEW j \in Job, OpenFile(j) PROVE Typed'
    BY <2>0, <2>4 DEF OpenFile, Goto, Busy, Writing
  <2>5. \A j \in Job : Made(j) \in Archive
    BY DEF Made, Archive
  <2>6. \A j \in Job : Filled(j) \subseteq Archive \cup {NoFile, Torn}
    BY <2>5 DEF Filled
  <2>7. ASSUME NEW j \in Job, FillFile(j) PROVE Typed'
    <3>1. stage[j] = "filling" /\ UNCHANGED <<db, v2, kind>>
      BY <2>0, <2>7 DEF FillFile
    <3>2. disk' \in [Name -> Archive \cup {NoFile, Torn}]
      BY <2>6, <2>7 DEF FillFile
    <3>3. CASE kind[j] = "backup"
      BY <2>7, <3>1, <3>2, <3>3, EmptyTyped DEF FillFile, Leave, Goto, Busy, Writing
    <3>4. CASE kind[j] = "restore"
      BY <2>7, <3>1, <3>2, <3>4 DEF FillFile, Goto, Busy, Writing
    <3> QED
      BY <3>3, <3>4
  <2>8. ASSUME NEW j \in Job, Apply(j) PROVE Typed'
    <3>1. at[j] \in 1 .. 4 /\ source[j] \in Archive
      BY <2>8, TableFacts DEF Apply
    <3>2. at' \in [Job -> 1 .. 5] /\ TableNames[at[j]] \in Table /\ source[j].rows \in Db
      BY <2>8, <3>1 DEF Apply, Archive, Table, TableNames
    <3>3. db' \in Db
      BY <2>8, <3>2, AppliedTyped DEF Apply
    <3> QED
      BY <2>0, <2>8, <3>2, <3>3 DEF Apply
  <2>9. ASSUME NEW j \in Job, EndRestore(j) PROVE Typed'
    BY <2>0, <2>9 DEF EndRestore, Goto, Busy, Writing
  <2>10. ASSUME NEW j \in Job, Stop(j) PROVE Typed'
    <3>1. UNCHANGED <<db, v2, kind>>
      BY <2>0, <2>10 DEF Stop
    <3>2. disk' \in [Name -> Archive \cup {NoFile, Torn}]
      BY <2>6, <2>10 DEF Stop, Writing
    <3>3. CASE stage[j] = "applying"
      BY <2>10, <3>1, <3>2, <3>3 DEF Stop, Goto, Busy, Writing
    <3>4. CASE stage[j] # "applying"
      BY <2>10, <3>1, <3>2, <3>4, EmptyTyped DEF Stop, Leave, Goto, Busy, Writing
    <3> QED
      BY <3>3, <3>4
  <2>11. ASSUME NEW j \in Job, NEW f \in Name, BeginRestore(j, f) PROVE Typed'
    <3>1. CASE Readable(f)
      <4>1. disk[f] \in Archive /\ disk[f].sound
        BY <3>1 DEF Readable
      <4> QED
        BY <2>0, <2>11, <3>1, <4>1 DEF BeginRestore, Goto, Busy, Writing
    <3>2. CASE ~Readable(f)
      BY <2>0, <2>11, <3>2 DEF BeginRestore, Goto, Busy, Writing
    <3> QED
      BY <3>1, <3>2
  <2>12. ASSUME NEW f \in Name, DeleteBackup(f) PROVE Typed'
    BY <2>0, <2>12 DEF DeleteBackup
  <2> QED
    BY <1>4, <2>1, <2>2, <2>3, <2>4, <2>7, <2>8, <2>9, <2>10, <2>11, <2>12 DEF Backups, BackupStep
<1> QED
  BY <1>1, <1>2, <1>3, <1>4 DEF Next

LEMMA AlwaysTyped == Spec => []Typed
BY InitTyped, StepTyped, PTL DEF Spec

----------------------------------------------------------------------------

\* A job writes to a name that was free when it took it, and a name that two jobs
\* took is spoiled.
Filing ==
  /\ \A j \in Job :
       name[j] \notin spoiled =>
         /\ stage[j] = "named" => disk[name[j]] = NoFile
         /\ stage[j] = "filling" => disk[name[j]] = Torn
  /\ \A i, j \in Job :
       i # j /\ stage[i] \in Writing /\ stage[j] \in Writing /\ name[i] = name[j]
         => name[i] \in spoiled

LEMMA InitFiling == Init => Filing
BY DEF Init, BackupInit, Filing, Writing

LEMMA StepFiling == Typed /\ Filing /\ [Next]_vars => Filing'
<1> SUFFICES ASSUME Typed, Filing, [Next]_vars PROVE Filing'
  OBVIOUS
<1> USE DEF Typed, Filing
<1>1. CASE UNCHANGED <<disk, stage, name, spoiled>>
  BY <1>1 DEF Writing
<1>2. ASSUME NEW j \in Job, BeginBackup(j) PROVE Filing'
  BY <1>2 DEF BeginBackup, Goto, Writing
<1>3. ASSUME NEW j \in Job, NEW f \in Name, BeginRestore(j, f) PROVE Filing'
  <2>1. PICK s \in {"dumping", "failed"} : stage' = [stage EXCEPT ![j] = s]
    BY <1>3 DEF BeginRestore, Goto
  <2> QED
    BY <1>3, <2>1 DEF BeginRestore, Writing
<1>4. ASSUME NEW j \in Job, ChooseName(j) PROVE Filing'
  <2>1. PICK f \in FreeNames(j) :
          /\ name' = [name EXCEPT ![j] = f]
          /\ spoiled' = IF \E i \in Job : name[i] = f /\ stage[i] \in Writing
                          THEN spoiled \cup {f} ELSE spoiled
    BY <1>4 DEF ChooseName
  <2>2. disk[f] = NoFile /\ disk' = disk /\ stage' = [stage EXCEPT ![j] = "named"]
    BY <1>4 DEF FreeNames, ChooseName, Goto
  <2>3. \A i \in Job : i # j => stage'[i] = stage[i] /\ name'[i] = name[i]
    BY <2>1, <2>2
  <2>4. stage'[j] = "named" /\ name'[j] = f
    BY <2>1, <2>2
  <2>5. \A i \in Job : i # j /\ stage[i] \in Writing /\ name[i] = f => f \in spoiled'
    BY <2>1
  <2>6. spoiled \subseteq spoiled'
    BY <2>1
  <2> QED
    BY <2>2, <2>3, <2>4, <2>5, <2>6
<1>5. ASSUME NEW j \in Job, OpenFile(j) PROVE Filing'
  <2>1. /\ stage[j] = "named" /\ name[j] \in Name /\ UNCHANGED <<name, spoiled>>
        /\ disk' = [disk EXCEPT ![name[j]] = Torn] /\ stage' = [stage EXCEPT ![j] = "filling"]
    BY <1>5 DEF OpenFile, Goto, Writing
  <2>2. \A i \in Job : i # j /\ stage[i] \in Writing /\ name[i] \notin spoiled => name[i] # name[j]
    BY <2>1 DEF Writing
  <2> QED
    BY <2>1, <2>2 DEF Writing
<1>6. ASSUME NEW j \in Job, FillFile(j) \/ Stop(j) PROVE Filing'
  <2>1. /\ \E s \in {"ended", "applying", "failed", "stopped"} : stage' = [stage EXCEPT ![j] = s]
        /\ spoiled' = spoiled
        /\ \A i \in Job : i # j => name'[i] = name[i]
    BY <1>6 DEF FillFile, Stop, Leave, Goto
  <2>2. \A i \in Job : i # j => stage'[i] = stage[i]
    BY <2>1
  <2>3. stage'[j] \notin Writing
    BY <2>1 DEF Writing
  <2>4. disk' = disk \/ (stage[j] = "filling" /\ \E c : disk' = [disk EXCEPT ![name[j]] = c])
    BY <1>6 DEF FillFile, Stop
  <2>5. \A i \in Job : i # j /\ stage[i] \in Writing /\ name[i] \notin spoiled => disk'[name[i]] = disk[name[i]]
    BY <2>4 DEF Writing
  <2> QED
    BY <2>1, <2>2, <2>3, <2>5 DEF Writing
<1>7. ASSUME NEW j \in Job, EndRestore(j) PROVE Filing'
  BY <1>7 DEF EndRestore, Goto, Writing
<1>8. ASSUME NEW f \in Name, DeleteBackup(f) PROVE Filing'
  BY <1>8 DEF DeleteBackup, Writing
<1>9. CASE Edits \/ Imports
  BY <1>9, <1>1 DEF Edits, Imports
<1>10. ASSUME NEW j \in Job, Dump(j) \/ Apply(j) PROVE Filing'
  BY <1>10, <1>1 DEF Dump, Apply
<1> QED
  BY <1>1, <1>2, <1>3, <1>4, <1>5, <1>6, <1>7, <1>8, <1>9, <1>10 DEF Next, Backups, BackupStep, vars

\* A whole archive on disk changes only by DELETE, or when two jobs chose its name
\* before either wrote it.
THEOREM ArchiveSafety == Spec => ArchivesStand
<1>1. Init => Filing
  BY InitFiling
<1>2. Typed /\ Filing /\ [Next]_vars =>
        [\A f \in Name : disk[f] \notin {NoFile, Torn} /\ f \notin spoiled' => disk'[f] = disk[f]]_<<disk, spoiled>>
  <2> SUFFICES ASSUME Typed, Filing, [Next]_vars, NEW f \in Name, disk[f] \notin {NoFile, Torn}, f \notin spoiled'
               PROVE  disk'[f] = disk[f]
    OBVIOUS
  <2> USE DEF Typed, Filing
  <2>1. ASSUME NEW j \in Job, OpenFile(j) PROVE disk'[f] = disk[f]
    BY <2>1 DEF OpenFile, Writing
  <2>2. ASSUME NEW j \in Job, FillFile(j) \/ Stop(j) PROVE disk'[f] = disk[f]
    <3>1. disk' = disk \/ (stage[j] = "filling" /\ \E c : disk' = [disk EXCEPT ![name[j]] = c])
      BY <2>2 DEF FillFile, Stop
    <3>2. spoiled' = spoiled
      BY <2>2 DEF FillFile, Stop
    <3> QED
      BY <3>1, <3>2 DEF Writing
  <2>3. ASSUME NEW g \in Name, DeleteBackup(g) PROVE disk'[f] = disk[f]
    BY <2>3 DEF DeleteBackup
  <2>4. CASE UNCHANGED disk
    BY <2>4
  <2> QED
    BY <2>1, <2>2, <2>3, <2>4 DEF Next, Edits, Imports, Backups, BackupStep, vars,
       BeginBackup, BeginRestore, Dump, ChooseName, Apply, EndRestore
<1> QED
  BY <1>1, <1>2, StepFiling, AlwaysTyped, PTL DEF Spec, ArchivesStand

----------------------------------------------------------------------------

\* What a step of an import or a restore leaves in the tables.
LEMMA ExistingKept ==
  ASSUME Typed, Backups
  PROVE  Existing(db) \subseteq Existing(db)'
<1> USE DEF Typed
<1>1. CASE db' = db
  BY <1>1 DEF Existing
<1>2. ASSUME NEW j \in Job, Apply(j), db' # db PROVE Existing(db) \subseteq Existing(db)'
  <2> DEFINE rows == source[j].rows
  <2>1. at[j] \in 1 .. 4 /\ source[j] \in Archive /\ db' \in Applied(db, TableNames[at[j]], rows)
    BY <1>2, TableFacts DEF Apply, Busy
  <2>2. /\ rows.shortcuts \in Shortcuts /\ rows.keyed \in Keyed
        /\ db.shortcuts \in Shortcuts /\ db.keyed \in Keyed /\ db \in Db
    BY <2>1, Fields DEF Archive
  <2>3. at[j] = 1 \/ at[j] = 2 \/ at[j] = 3 \/ at[j] = 4
    BY <2>1
  <2> HIDE DEF rows
  <2>4. CASE TableNames[at[j]] = "shortcuts"
    <3>1. db'.shortcuts = MergeShortcuts(db.shortcuts, rows.shortcuts) /\ db'.keyed = db.keyed
      BY <2>1, <2>2, <2>4 DEF Applied, Db
    <3>2. \A p \in Pattern : db.shortcuts[p] # NoRow => db'.shortcuts[p] # NoRow
      BY <2>2, <3>1, RowAssumption DEF MergeShortcuts, Shortcuts
    <3> QED
      BY <3>1, <3>2 DEF Existing
  <2>5. CASE TableNames[at[j]] = "keyed"
    <3>1. db'.keyed = MergeKeyed(db.keyed, rows.keyed) /\ db'.shortcuts = db.shortcuts
      BY <2>1, <2>2, <2>5 DEF Applied, Db
    <3>2. \A k \in Key : db.keyed[k] # NoRow => db'.keyed[k] # NoRow
      BY <3>1 DEF MergeKeyed
    <3> QED
      BY <3>1, <3>2 DEF Existing
  <2>6. CASE TableNames[at[j]] \in {"teams", "team_members"}
    <3>1. db'.keyed = db.keyed /\ db'.shortcuts = db.shortcuts
      BY <2>1, <2>2, <2>6 DEF Applied, Db
    <3> QED
      BY <3>1 DEF Existing
  <2> QED
    BY <2>3, <2>4, <2>5, <2>6, TableFacts
<1> QED
  BY <1>1, <1>2 DEF Backups, BackupStep, BeginBackup, BeginRestore, Dump, ChooseName, OpenFile,
     FillFile, EndRestore, Stop, DeleteBackup

\* The commit of an import that meets nobody.
LEMMA Imported ==
  ASSUME Typed, Commit, db' # db
  PROVE  /\ phase' = "done" /\ ~Clash
         /\ db'.shortcuts = [p \in Pattern |-> IF p \in New THEN [value |-> FirstRow(p), team |-> 0]
                                                ELSE db.shortcuts[p]]
         /\ db'.keyed = [k \in Key |-> IF k \in New THEN FirstRow(k) ELSE db.keyed[k]]
<1>1. db' = With(db) /\ ~Clash /\ ~dryRun /\ db \in Db
  BY DEF Commit, Typed
<1> QED
  BY <1>1 DEF Commit, With, Db

\* Keys that an import found are there, or somebody deleted them since.
Finding ==
  /\ known \subseteq Existing(db) \cup gone
  /\ ImportIsComplete

LEMMA StepFinding == Typed /\ Finding /\ [Next]_vars => Finding'
<1> SUFFICES ASSUME Typed, Finding, [Next]_vars PROVE Finding'
  OBVIOUS
<1> USE DEF Finding, ImportIsComplete
<1>1. CASE UNCHANGED vars
  BY <1>1 DEF vars, Existing, Given, Rows
<1>2. CASE Edits
  <2>1. phase' = phase /\ known' = known /\ Given' = Given
    BY <1>2 DEF Edits, Given, Rows
  <2>2. CASE db' = db
    <3>1. gone' = gone /\ Existing(db)' = Existing(db)
      BY <1>2, <2>2 DEF Edits, Disturbed, Existing
    <3> QED
      BY <2>1, <3>1
  <2>3. CASE db' # db
    <3>1. gone' = gone \cup (Existing(db) \ Existing(db'))
      BY <1>2, <2>3 DEF Edits, Disturbed
    <3>2. Existing(db)' = Existing(db')
      BY DEF Existing
    <3> QED
      BY <2>1, <3>1, <3>2
  <2> QED
    BY <2>2, <2>3
<1>3. CASE Backups
  BY <1>3, ExistingKept DEF Backups, Given, Rows
<1>4. CASE Imports
  <2>0. ImportStep /\ Given' = Given
    BY <1>4, ImportTyped DEF Imports, Given, Rows
  <2>1. CASE Start \/ Abort
    BY <2>0, <2>1 DEF Start, Abort, Reach, Existing
  <2>2. CASE ProbeShortcuts \/ ProbeKeyed
    BY <2>0, <2>2 DEF ProbeShortcuts, ProbeKeyed, Reach, Existing
  <2>3. CASE Commit /\ db' = db
    <3>1. phase' = "done" => ~Clash /\ ~dryRun
      BY <2>3 DEF Commit
    <3>2. ~Clash /\ ~dryRun => With(db) = db
      BY <2>3 DEF Commit
    <3>3. With(db) = db => New \subseteq Existing(db)
      <4> SUFFICES ASSUME With(db) = db, NEW k \in New PROVE k \in Existing(db)
        OBVIOUS
      <4>1. k \in Pattern \cup Key /\ FirstRow(k) \in Value
        BY FirstRows DEF Typed, New
      <4>2. /\ k \in Pattern => db.shortcuts[k] = [value |-> FirstRow(k), team |-> 0]
            /\ k \in Key => db.keyed[k] = FirstRow(k)
        <5>1. With(db).shortcuts = [p \in Pattern |-> IF p \in New THEN [value |-> FirstRow(p), team |-> 0]
                                                       ELSE db.shortcuts[p]]
              /\ With(db).keyed = [y \in Key |-> IF y \in New THEN FirstRow(y) ELSE db.keyed[y]]
          BY DEF With, Typed, Db
        <5> QED
          BY <5>1
      <4> QED
        BY <4>1, <4>2, RowAssumption DEF Existing
    <3>4. known' = known /\ gone' = gone /\ Existing(db)' = Existing(db)
      BY <2>3 DEF Commit, Existing
    <3>5. phase' = "done" => Given \subseteq Existing(db) \cup gone
      BY <3>1, <3>2, <3>3 DEF New
    <3> QED
      BY <2>0, <3>4, <3>5
  <2>4. CASE Commit /\ db' # db
    <3>1. known' = known /\ gone' = gone
      BY <2>4 DEF Commit
    <3>2. \A k \in New : FirstRow(k) \in Value /\ k \in Pattern \cup Key
      BY FirstRows DEF Typed, New
    <3>3. New \subseteq Existing(db)'
      BY <2>4, <3>2, Imported, RowAssumption DEF Existing
    <3>4. Existing(db) \subseteq Existing(db)'
      BY <2>4, <3>2, Imported, RowAssumption DEF Existing
    <3> QED
      BY <2>0, <3>1, <3>3, <3>4 DEF New
  <2> QED
    BY <2>0, <2>1, <2>2, <2>3, <2>4 DEF ImportStep
<1> QED
  BY <1>1, <1>2, <1>3, <1>4 DEF Next

\* Once an import is through, each v2 key has a row until somebody deletes it.
THEOREM ImportSafety == Spec => []ImportIsComplete
<1>1. Init => Finding
  BY DEF Init, ImportInit, Finding, ImportIsComplete
<1>2. Finding => ImportIsComplete
  BY DEF Finding
<1> QED
  BY <1>1, <1>2, StepFinding, AlwaysTyped, PTL DEF Spec

\* An import changes no row that is there when it commits, and takes the first v2 row
\* of a key.
THEOREM ClobberSafety == Spec => ImportNeverClobbers
<1>1. Typed /\ Commit =>
       /\ \A k \in Key : db.keyed[k] # NoRow => db'.keyed[k] = db.keyed[k]
       /\ \A p \in Pattern :
            IF db.shortcuts[p] # NoRow \/ db'.shortcuts[p] = NoRow
              THEN db'.shortcuts[p] = db.shortcuts[p]
              ELSE \E n \in DOMAIN Rows(v2) :
                     /\ Rows(v2)[n] = <<p, db'.shortcuts[p].value>>
                     /\ \A m \in 1..(n - 1) : Rows(v2)[m][1] # p
  <2> SUFFICES ASSUME Typed, Commit
               PROVE  /\ \A k \in Key : db.keyed[k] # NoRow => db'.keyed[k] = db.keyed[k]
                      /\ \A p \in Pattern :
                           IF db.shortcuts[p] # NoRow \/ db'.shortcuts[p] = NoRow
                             THEN db'.shortcuts[p] = db.shortcuts[p]
                             ELSE \E n \in DOMAIN Rows(v2) :
                                    /\ Rows(v2)[n] = <<p, db'.shortcuts[p].value>>
                                    /\ \A m \in 1..(n - 1) : Rows(v2)[m][1] # p
    OBVIOUS
  <2>1. CASE db' = db
    BY <2>1
  <2>2. CASE db' # db
    <3>1. New \cap Existing(db) = {}
      BY <2>2, Imported DEF Clash
    <3>2. ASSUME NEW k \in Key, db.keyed[k] # NoRow PROVE db'.keyed[k] = db.keyed[k]
      BY <2>2, <3>1, <3>2, Imported DEF Existing
    <3>3. ASSUME NEW p \in Pattern, db.shortcuts[p] # NoRow PROVE db'.shortcuts[p] = db.shortcuts[p]
      BY <2>2, <3>1, <3>3, Imported DEF Existing
    <3>4. ASSUME NEW p \in Pattern, db.shortcuts[p] = NoRow, db'.shortcuts[p] # NoRow
          PROVE  \E n \in DOMAIN Rows(v2) :
                   /\ Rows(v2)[n] = <<p, db'.shortcuts[p].value>>
                   /\ \A m \in 1..(n - 1) : Rows(v2)[m][1] # p
      <4>1. p \in New /\ db'.shortcuts[p].value = FirstRow(p)
        BY <2>2, <3>4, Imported
      <4> QED
        BY <4>1, FirstRows DEF New, Typed
    <3> QED
      BY <3>2, <3>3, <3>4
  <2> QED
    BY <2>1, <2>2
<1> QED
  BY <1>1, AlwaysTyped, PTL DEF ImportNeverClobbers

----------------------------------------------------------------------------

\* A table after a restore that has applied it or not.
KeyedOk(d, safe, rows, covered) ==
  \A k \in Key : d.keyed[k] = IF covered /\ rows.keyed[k] # NoRow THEN rows.keyed[k] ELSE safe.keyed[k]

ShortcutsOk(d, safe, rows, covered) ==
  \A p \in Pattern :
    IF covered /\ rows.shortcuts[p] # NoRow
      THEN d.shortcuts[p] # NoRow /\ d.shortcuts[p].value = rows.shortcuts[p].value
      ELSE d.shortcuts[p] = safe.shortcuts[p]

TeamsOk(d, safe, rows, covered) ==
  \A t \in Team : IF safe.teams[t] # 0 THEN d.teams[t] = safe.teams[t]
                  ELSE (d.teams[t] # 0) = (covered /\ rows.teams[t] # 0)

MembersOk(d, safe, rows, covered) ==
  d.team_members = safe.team_members \cup IF covered THEN rows.team_members ELSE {}

\* Before a table is applied all four are as the safety archive has them.
LEMMA Untouched ==
  ASSUME NEW d \in Db, NEW rows \in Db
  PROVE  KeyedOk(d, d, rows, FALSE) /\ ShortcutsOk(d, d, rows, FALSE)
         /\ TeamsOk(d, d, rows, FALSE) /\ MembersOk(d, d, rows, FALSE)
BY DEF KeyedOk, ShortcutsOk, TeamsOk, MembersOk

\* e is d with a table merged and the other three as they were.
OnlyMerges(d, safe, rows, table, e) ==
  /\ table = "keyed" /\ KeyedOk(d, safe, rows, FALSE) => KeyedOk(e, safe, rows, TRUE)
  /\ table = "shortcuts" /\ ShortcutsOk(d, safe, rows, FALSE) => ShortcutsOk(e, safe, rows, TRUE)
  /\ table = "teams" /\ TeamsOk(d, safe, rows, FALSE) => TeamsOk(e, safe, rows, TRUE)
  /\ table = "team_members" /\ MembersOk(d, safe, rows, FALSE) => MembersOk(e, safe, rows, TRUE)
  /\ table # "keyed" => e.keyed = d.keyed
  /\ table # "shortcuts" => e.shortcuts = d.shortcuts
  /\ table # "teams" => e.teams = d.teams
  /\ table # "team_members" => e.team_members = d.team_members

LEMMA MergesOne ==
  ASSUME NEW d \in Db, NEW safe \in Db, NEW rows \in Db, NEW table \in Table, NEW e \in Applied(d, table, rows)
  PROVE  OnlyMerges(d, safe, rows, table, e)
<1> USE DEF OnlyMerges
<1>1. /\ d.shortcuts \in Shortcuts /\ d.keyed \in Keyed /\ d.teams \in Teams /\ d.team_members \in Members
      /\ rows.shortcuts \in Shortcuts /\ rows.teams \in Teams
  BY Fields
<1>2. CASE table = "keyed"
  <2>1. e = [d EXCEPT !.keyed = MergeKeyed(d.keyed, rows.keyed)]
    BY <1>2 DEF Applied
  <2>2. e.keyed = MergeKeyed(d.keyed, rows.keyed) /\ e.shortcuts = d.shortcuts
        /\ e.teams = d.teams /\ e.team_members = d.team_members
    BY <2>1 DEF Db
  <2> QED
    BY <1>2, <2>2 DEF MergeKeyed, KeyedOk
<1>3. CASE table = "shortcuts"
  <2>1. e = [d EXCEPT !.shortcuts = MergeShortcuts(d.shortcuts, rows.shortcuts)]
    BY <1>3 DEF Applied
  <2>2. e.shortcuts = MergeShortcuts(d.shortcuts, rows.shortcuts) /\ e.keyed = d.keyed
        /\ e.teams = d.teams /\ e.team_members = d.team_members
    BY <2>1 DEF Db
  <2>3. \A p \in Pattern, team \in {0} \cup Id :
          rows.shortcuts[p] # NoRow => [value |-> rows.shortcuts[p].value, team |-> team] # NoRow
    BY <1>1, RowAssumption DEF Shortcuts
  <2>4. \A p \in Pattern : d.shortcuts[p] # NoRow => d.shortcuts[p].team \in {0} \cup Id
    BY <1>1 DEF Shortcuts
  <2>5. \A p \in Pattern : rows.shortcuts[p] # NoRow =>
          e.shortcuts[p] # NoRow /\ e.shortcuts[p].value = rows.shortcuts[p].value
    BY <2>2, <2>3, <2>4 DEF MergeShortcuts
  <2>6. \A p \in Pattern : rows.shortcuts[p] = NoRow => e.shortcuts[p] = d.shortcuts[p]
    BY <2>2 DEF MergeShortcuts
  <2> QED
    BY <1>3, <2>2, <2>5, <2>6 DEF ShortcutsOk
<1>4. CASE table = "teams"
  <2>1. PICK new \in MergeTeams(d.teams, rows.teams) : e = [d EXCEPT !.teams = new]
    BY <1>4 DEF Applied
  <2>2. e.teams = new /\ e.shortcuts = d.shortcuts /\ e.keyed = d.keyed /\ e.team_members = d.team_members
    BY <2>1 DEF Db
  <2>3. \A t \in Team : IF d.teams[t] # 0 \/ rows.teams[t] = 0 THEN new[t] = d.teams[t]
                        ELSE d.teams[t] < new[t]
    BY DEF MergeTeams
  <2>4. \A t \in Team : d.teams[t] = 0 /\ rows.teams[t] # 0 => new[t] # 0
    BY <2>3
  <2> QED
    BY <1>4, <2>2, <2>3, <2>4 DEF TeamsOk
<1>5. CASE table = "team_members"
  <2>1. e = [d EXCEPT !.team_members = MergeMembers(d.team_members, rows.team_members)]
    BY <1>5 DEF Applied
  <2>2. e.team_members = d.team_members \cup rows.team_members /\ e.shortcuts = d.shortcuts
        /\ e.keyed = d.keyed /\ e.teams = d.teams
    BY <2>1 DEF Db, MergeMembers
  <2> QED
    BY <1>5, <2>2 DEF MembersOk
<1> QED
  BY <1>2, <1>3, <1>4, <1>5, TableFacts

\* A restore nobody disturbs: what it dumped is what the tables hold, and the tables it
\* has applied are merged.
Faithful(j) ==
  /\ stage[j] # "idle" /\ kind[j] = "restore"
  /\ stage[j] = "dumping" => \A n \in 1 .. (at[j] - 1) : dump[j][TableNames[n]] = db[TableNames[n]]
  /\ stage[j] \in Writing => dump[j] = db
  /\ j \in Restored => Merged(j)

Undisturbed == \A j \in quiet : j \in Job /\ Faithful(j)

\* The tables among the first n.
Past(n, has, T) == T \in has /\ \E m \in 1 .. n : TableNames[m] = T

LEMMA FaithfulKept ==
  ASSUME NEW j \in Job, Faithful(j),
         UNCHANGED <<db, stage[j], kind[j], at[j], dump[j], source[j]>>
  PROVE  Faithful(j)'
<1>1. (\A T \in Table : Covered(j, T)' = Covered(j, T)) /\ (j \in Restored)' = (j \in Restored)
  BY DEF Covered, Restored
<1>2. Merged(j)' <=> Merged(j)
  BY <1>1, TableFacts DEF Merged
<1> QED
  BY <1>1, <1>2 DEF Faithful

LEMMA FaithfulApply ==
  ASSUME Typed, NEW j \in Job, Faithful(j), Apply(j)
  PROVE  Faithful(j)'
<1>1. /\ stage[j] = "applying" /\ at[j] \in 1 .. 4 /\ at'[j] = at[j] + 1
      /\ UNCHANGED <<stage, kind, dump, source>>
  BY TableFacts DEF Apply, Typed
<1>2. source[j] \in Archive /\ source[j].sound /\ source[j].rows \in Db /\ dump[j] \in Db /\ db \in Db
  BY <1>1 DEF Typed, Busy, Archive
<1>3. Merged(j) /\ (j \in Restored)' /\ kind[j] = "restore"
  BY <1>1 DEF Faithful, Restored
<1>4. PICK i \in 1 .. 4 : i = at[j]
  BY <1>1
<1>5. PICK has : has = source[j].has
  OBVIOUS
<1>6. PICK rows \in Db : rows = source[j].rows
  BY <1>2
<1>7. PICK safe \in Db : safe = dump[j]
  BY <1>2
<1> DEFINE Before(T) == Past(i - 1, has, T)
           After(T) == Past(i, has, T)
<1>8. /\ KeyedOk(db, safe, rows, Before("keyed"))
      /\ ShortcutsOk(db, safe, rows, Before("shortcuts"))
      /\ TeamsOk(db, safe, rows, Before("teams"))
      /\ MembersOk(db, safe, rows, Before("team_members"))
  BY <1>3, <1>4, <1>5, <1>6, <1>7
     DEF Merged, Covered, Past, KeyedOk, ShortcutsOk, TeamsOk, MembersOk
<1>9. ASSUME KeyedOk(db', safe, rows, After("keyed")),
             ShortcutsOk(db', safe, rows, After("shortcuts")),
             TeamsOk(db', safe, rows, After("teams")),
             MembersOk(db', safe, rows, After("team_members"))
      PROVE  Faithful(j)'
  <2>1. source'[j] = source[j] /\ dump'[j] = dump[j] /\ at'[j] - 1 = i
    BY <1>1, <1>4
  <2>2. Merged(j)'
    BY <2>1, <1>2, <1>5, <1>6, <1>7, <1>9
       DEF Merged, Covered, Past, KeyedOk, ShortcutsOk, TeamsOk, MembersOk
  <2> QED
    BY <1>1, <1>3, <2>2 DEF Faithful, Writing
<1>10. PICK table \in Table : table = TableNames[i]
  BY <1>4, TableFacts
<1>11. /\ \A T \in Table \ {table} : After(T) = Before(T)
       /\ Before(table) = FALSE
       /\ After(table) = (table \in has)
  <2>1. i = 1 \/ i = 2 \/ i = 3 \/ i = 4
    BY <1>4
  <2>2. \A m \in 1 .. (i - 1) : TableNames[m] # table
    BY <1>10, <2>1, TableFacts
  <2>3. \A m \in 1 .. i : m = i \/ m \in 1 .. (i - 1)
    BY <1>4
  <2>4. i \in 1 .. i /\ \A m \in 1 .. (i - 1) : m \in 1 .. i
    BY <1>4
  <2> QED
    BY <1>10, <2>2, <2>3, <2>4 DEF Past
<1> HIDE DEF Before, After
<1>12. CASE table \notin has
  <2>1. db' = db
    BY <1>4, <1>5, <1>10, <1>12 DEF Apply
  <2>2. ASSUME NEW T \in Table PROVE After(T) = Before(T)
    <3>1. CASE T = table
      BY <3>1, <1>11, <1>12 DEF After, Before, Past
    <3>2. CASE T # table
      BY <3>2, <1>11
    <3> QED
      BY <3>1, <3>2
  <2> QED
    BY <1>8, <1>9, <2>1, <2>2, TableFacts
<1>13. CASE table \in has
  <2>1. PICK e \in Applied(db, table, rows) : e = db'
    BY <1>4, <1>5, <1>6, <1>10, <1>13 DEF Apply
  <2>2. Before(table) = FALSE /\ After(table) = TRUE
    BY <1>11, <1>13
  <2>3. OnlyMerges(db, safe, rows, table, e)
    BY <1>2, MergesOne
  <2>4. KeyedOk(e, safe, rows, After("keyed"))
    <3>1. CASE table = "keyed"
      BY <3>1, <1>8, <2>2, <2>3 DEF OnlyMerges
    <3>2. CASE table # "keyed"
      BY <3>2, <1>8, <1>11, <2>3, TableFacts DEF OnlyMerges, KeyedOk
    <3> QED
      BY <3>1, <3>2
  <2>5. ShortcutsOk(e, safe, rows, After("shortcuts"))
    <3>1. CASE table = "shortcuts"
      BY <3>1, <1>8, <2>2, <2>3 DEF OnlyMerges
    <3>2. CASE table # "shortcuts"
      BY <3>2, <1>8, <1>11, <2>3, TableFacts DEF OnlyMerges, ShortcutsOk
    <3> QED
      BY <3>1, <3>2
  <2>6. TeamsOk(e, safe, rows, After("teams"))
    <3>1. CASE table = "teams"
      BY <3>1, <1>8, <2>2, <2>3 DEF OnlyMerges
    <3>2. CASE table # "teams"
      BY <3>2, <1>8, <1>11, <2>3, TableFacts DEF OnlyMerges, TeamsOk
    <3> QED
      BY <3>1, <3>2
  <2>7. MembersOk(e, safe, rows, After("team_members"))
    <3>1. CASE table = "team_members"
      BY <3>1, <1>8, <2>2, <2>3 DEF OnlyMerges
    <3>2. CASE table # "team_members"
      BY <3>2, <1>8, <1>11, <2>3, TableFacts DEF OnlyMerges, MembersOk
    <3> QED
      BY <3>1, <3>2
  <2> QED
    BY <1>9, <2>1, <2>4, <2>5, <2>6, <2>7
<1> QED
  BY <1>12, <1>13

LEMMA StepUndisturbed == Typed /\ Undisturbed /\ [Next]_vars => Undisturbed'
<1> SUFFICES ASSUME Typed, Undisturbed, [Next]_vars, NEW j \in quiet' PROVE j \in Job /\ Faithful(j)'
  BY DEF Undisturbed
<1>0. j \in quiet => j \in Job /\ Faithful(j)
  BY DEF Undisturbed
<1>1. ASSUME j \in quiet, UNCHANGED <<db, stage[j], kind[j], at[j], dump[j], source[j]>>
      PROVE  j \in Job /\ Faithful(j)'
  BY <1>0, <1>1, FaithfulKept
<1>2. CASE UNCHANGED vars
  BY <1>1, <1>2 DEF vars
<1>3. CASE Edits
  BY <1>1, <1>3 DEF Edits, Disturbed
<1>4. CASE Imports
  BY <1>1, <1>4 DEF Imports
<1>5. ASSUME NEW i \in Job, BeginBackup(i) PROVE j \in Job /\ Faithful(j)'
  <2>1. j \in quiet /\ j # i
    BY <1>0, <1>5 DEF BeginBackup, Faithful
  <2> QED
    BY <1>1, <1>5, <2>1 DEF BeginBackup, Goto, Typed
<1>6. ASSUME NEW i \in Job, NEW f \in Name, BeginRestore(i, f) PROVE j \in Job /\ Faithful(j)'
  <2>1. j \in quiet /\ j # i
    BY <1>0, <1>6 DEF BeginRestore, Faithful
  <2>2. UNCHANGED <<db, stage[j], kind[j], at[j], dump[j]>>
    BY <1>0, <1>6, <2>1 DEF BeginRestore, Goto, Typed
  <2>3. source'[j] = source[j]
    BY <1>0, <1>6, <2>1 DEF BeginRestore, Typed
  <2> QED
    BY <1>1, <2>1, <2>2, <2>3
<1>7. ASSUME NEW i \in Job, Dump(i) PROVE j \in Job /\ Faithful(j)'
  <2>1. CASE j # i
    BY <1>1, <1>7, <2>1 DEF Dump, Typed
  <2>2. CASE j = i
    <3>1. at[i] \in 1 .. 4 /\ stage[i] = "dumping" /\ UNCHANGED <<db, stage, kind>> /\ at'[i] = at[i] + 1
      BY <1>7, TableFacts DEF Dump, Typed
    <3>2. kind[i] = "restore"
      BY <1>0, <1>7, <2>2 DEF Dump, Faithful
    <3>3. PICK T \in Table : T = TableNames[at[i]]
      BY <3>1 DEF Table, TableNames
    <3>4. dump'[i] = [dump[i] EXCEPT ![T] = db[T]] /\ dump[i] \in Db /\ db \in Db
      BY <1>7, <3>3 DEF Dump, Typed
    <3>5. dump'[i][T] = db[T] /\ \A U \in Table \ {T} : dump'[i][U] = dump[i][U]
      BY <3>3, <3>4, TableFacts DEF Db
    <3>6. \A n \in 1 .. (at[i] - 1) : dump[i][TableNames[n]] = db[TableNames[n]]
      BY <1>0, <1>7, <2>2, <3>1 DEF Dump, Faithful
    <3>7. \A n \in 1 .. at[i] : TableNames[n] \in Table /\ (n = at[i] \/ n \in 1 .. (at[i] - 1))
      BY <3>1 DEF Table, TableNames
    <3>8. \A n \in 1 .. at[i] : dump'[i][TableNames[n]] = db[TableNames[n]]
      BY <3>3, <3>5, <3>6, <3>7
    <3>9. at'[i] - 1 = at[i]
      BY <3>1
    <3> QED
      BY <2>2, <3>1, <3>2, <3>8, <3>9 DEF Faithful, Writing, Restored
  <2> QED
    BY <2>1, <2>2
<1>8. ASSUME NEW i \in Job, ChooseName(i) PROVE j \in Job /\ Faithful(j)'
  <2>1. j \in quiet /\ UNCHANGED <<db, kind, at, dump, source>> /\ stage' = [stage EXCEPT ![i] = "named"]
    BY <1>8 DEF ChooseName, Goto
  <2>2. CASE j # i
    BY <1>1, <2>1, <2>2 DEF Typed
  <2>3. CASE j = i
    <3>1. at[i] = 5 /\ stage[i] = "dumping"
      BY <1>8, TableFacts DEF ChooseName, Typed
    <3>2. \A n \in 1 .. 4 : dump[i][TableNames[n]] = db[TableNames[n]]
      BY <1>0, <2>1, <2>3, <3>1 DEF Faithful
    <3>3. dump[i].shortcuts = db.shortcuts /\ dump[i].keyed = db.keyed
          /\ dump[i].teams = db.teams /\ dump[i].team_members = db.team_members
      BY <3>2, TableFacts
    <3>4. dump[i] = db
      BY <3>3, Fields DEF Typed
    <3>5. stage'[i] = "named"
      BY <2>1 DEF Typed
    <3> QED
      BY <1>0, <2>1, <2>3, <3>4, <3>5 DEF Faithful, Restored
  <2> QED
    BY <2>2, <2>3
<1>9. ASSUME NEW i \in Job, OpenFile(i) PROVE j \in Job /\ Faithful(j)'
  <2>1. j \in quiet /\ UNCHANGED <<db, kind, at, dump, source>> /\ stage[i] = "named"
        /\ stage' = [stage EXCEPT ![i] = "filling"]
    BY <1>9 DEF OpenFile, Goto
  <2>2. CASE j # i
    BY <1>1, <2>1, <2>2 DEF Typed
  <2>3. CASE j = i
    BY <1>0, <2>1, <2>3 DEF Faithful, Restored, Writing, Typed
  <2> QED
    BY <2>2, <2>3
<1>10. ASSUME NEW i \in Job, FillFile(i) PROVE j \in Job /\ Faithful(j)'
  <2>1. j \in quiet /\ UNCHANGED <<db, kind>> /\ stage[i] = "filling"
    BY <1>10 DEF FillFile
  <2>2. CASE j # i
    <3>1. \/ Leave(i, "ended")
          \/ Goto(i, "applying") /\ at' = [at EXCEPT ![i] = 1] /\ UNCHANGED <<dump, name, source>>
      BY <1>10 DEF FillFile
    <3>2. UNCHANGED <<stage[j], at[j], dump[j], source[j]>>
      BY <1>0, <2>1, <2>2, <3>1 DEF Leave, Goto, Typed
    <3> QED
      BY <1>1, <2>1, <3>2
  <2>3. CASE j = i
    <3>1. kind[i] = "restore" /\ dump[i] = db /\ source[i] \in Archive /\ source[i].sound
      BY <1>0, <2>1, <2>3 DEF Faithful, Writing, Typed, Busy
    <3>2. stage'[i] = "applying" /\ at'[i] = 1 /\ UNCHANGED <<dump, source>>
      BY <1>10, <3>1 DEF FillFile, Goto, Typed
    <3>3. source[i].rows \in Db /\ db \in Db
      BY <3>1 DEF Archive, Typed
    <3>4. \A T : ~ (T \in source'[i].has /\ \E n \in 1 .. (at'[i] - 1) : TableNames[n] = T)
      BY <3>2
    <3>5. Merged(i)'
      BY <2>1, <3>1, <3>2, <3>3, <3>4, Untouched
         DEF Merged, Covered, KeyedOk, ShortcutsOk, TeamsOk, MembersOk
    <3> QED
      BY <2>1, <2>3, <3>1, <3>2, <3>5 DEF Faithful, Writing
  <2> QED
    BY <2>2, <2>3
<1>11. ASSUME NEW i \in Job, Apply(i) PROVE j \in Job /\ Faithful(j)'
  <2>1. CASE j = i
    <3>1. j \in quiet
      BY <1>11, <2>1 DEF Apply, Disturb
    <3> QED
      BY <1>0, <1>11, <2>1, <3>1, FaithfulApply
  <2>2. CASE j # i
    <3>1. j \in quiet /\ UNCHANGED <<db, stage, kind, dump, source>> /\ at' = [at EXCEPT ![i] = @ + 1]
      BY <1>11, <2>2 DEF Apply, Disturb
    <3> QED
      BY <1>1, <2>2, <3>1 DEF Typed
  <2> QED
    BY <2>1, <2>2
<1>12. ASSUME NEW i \in Job, EndRestore(i) PROVE j \in Job /\ Faithful(j)'
  <2>1. j \in quiet /\ UNCHANGED <<db, kind, at, dump, source>> /\ stage[i] = "applying"
        /\ stage' = [stage EXCEPT ![i] = "ended"]
    BY <1>12 DEF EndRestore, Goto
  <2>2. CASE j # i
    BY <1>1, <2>1, <2>2 DEF Typed
  <2>3. CASE j = i
    <3>1. Merged(j)
      BY <1>0, <2>1, <2>3 DEF Faithful, Restored
    <3>2. Merged(j)'
      BY <3>1, <2>1 DEF Merged, Covered
    <3>3. stage'[i] = "ended"
      BY <2>1 DEF Typed
    <3> QED
      BY <1>0, <2>1, <2>3, <3>2, <3>3 DEF Faithful, Writing
  <2> QED
    BY <2>2, <2>3
<1>13. ASSUME NEW i \in Job, Stop(i) PROVE j \in Job /\ Faithful(j)'
  <2>1. j \in quiet /\ UNCHANGED <<db, kind>>
    BY <1>13 DEF Stop
  <2>2. CASE j # i
    <3>1. \/ Leave(i, "failed")
          \/ Goto(i, "stopped") /\ UNCHANGED <<at, dump, name, source>>
      BY <1>13 DEF Stop
    <3>2. UNCHANGED <<stage[j], at[j], dump[j], source[j]>>
      BY <1>0, <2>1, <2>2, <3>1 DEF Leave, Goto, Typed
    <3> QED
      BY <1>1, <2>1, <3>2
  <2>3. CASE j = i /\ stage[i] = "applying"
    <3>1. UNCHANGED <<at, dump, source>> /\ stage'[i] = "stopped"
      BY <1>13, <2>3 DEF Stop, Goto, Typed
    <3>2. Merged(j)
      BY <1>0, <2>1, <2>3 DEF Faithful, Restored
    <3>3. Merged(j)'
      BY <2>1, <3>1, <3>2 DEF Merged, Covered
    <3> QED
      BY <1>0, <2>1, <2>3, <3>1, <3>3 DEF Faithful, Writing
  <2>4. CASE j = i /\ stage[i] # "applying"
    <3>1. stage'[i] = "failed"
      BY <1>13, <2>4 DEF Stop, Leave, Goto, Typed
    <3> QED
      BY <1>0, <2>1, <2>4, <3>1 DEF Faithful, Writing, Restored
  <2> QED
    BY <2>2, <2>3, <2>4
<1>14. ASSUME NEW f \in Name, DeleteBackup(f) PROVE j \in Job /\ Faithful(j)'
  BY <1>1, <1>14 DEF DeleteBackup
<1> QED
  BY <1>2, <1>3, <1>4, <1>5, <1>6, <1>7, <1>8, <1>9, <1>10, <1>11, <1>12, <1>13, <1>14
     DEF Next, Backups, BackupStep

\* A restore that nobody else wrote beside leaves the archive's rows over those of its
\* safety archive, for the tables it got to, also when it is stopped half way.
THEOREM RestoreSafety == Spec => []RestoreMerges
<1>1. Init => Undisturbed
  BY DEF Init, BackupInit, Undisturbed
<1>2. Undisturbed => RestoreMerges
  BY DEF Undisturbed, RestoreMerges, Faithful
<1> QED
  BY <1>1, <1>2, StepUndisturbed, AlwaysTyped, PTL DEF Spec

=============================================================================
