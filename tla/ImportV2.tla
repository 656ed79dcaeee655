------------------------------ MODULE ImportV2 ------------------------------
(***************************************************************************)
(* The import of a v2 data directory: migrations/import_v2.py.  It reads   *)
(* the keys that exist, in sessions of their own, and then commits all it  *)
(* has to add at once.  It is run by hand, beside a server that may serve. *)
(***************************************************************************)
EXTENDS Tables

CONSTANTS Sources,   \* v2 directories: the rows of each table in their order
          MaxImports \* how often it is run

\* A row is a key and what the value becomes once it is normalized; rows without
\* a key are skipped.
NoKey == "blank"

ASSUME KeyAssumption == Pattern \cap Key = {} /\ NoKey \notin Pattern \cup Key
ASSUME SourceAssumption ==
  Sources \subseteq [shortcuts : Seq((Pattern \cup {NoKey}) \X Value),
                     keyed : Seq((Key \cup {NoKey}) \X Value)]

VARIABLES
  phase,      \* of the import
  v2,         \* the directory
  dryRun,
  known,      \* keys found in the tables
  imports,
  gone        \* history: keys deleted since the import began

importVars == <<phase, v2, dryRun, known, imports, gone>>

Rows(s) == s.shortcuts \o s.keyed

ImportInit ==
  /\ phase = "idle"
  /\ v2 \in Sources
  /\ dryRun = FALSE
  /\ known = {}
  /\ imports = 0
  /\ gone = {}

Reach(p) == phase' = p /\ UNCHANGED <<db, edits, v2, dryRun, imports>>

Start ==
  /\ phase \in {"idle", "done", "failed"}
  /\ imports < MaxImports
  /\ imports' = imports + 1
  /\ phase' = "shortcuts"
  /\ dryRun' \in BOOLEAN
  /\ known' = {}
  /\ gone' = {}
  /\ UNCHANGED <<db, edits, v2>>

Existing(d) ==
  {p \in Pattern : d.shortcuts[p] # NoRow} \cup {k \in Key : d.keyed[k] # NoRow}

\* known(Shortcut, "pattern").
ProbeShortcuts ==
  /\ phase = "shortcuts"
  /\ known' = known \cup (Existing(db) \cap Pattern)
  /\ Reach("keyed") /\ UNCHANGED gone

\* The probes of the other tables, each before its rows are read.
ProbeKeyed ==
  /\ phase = "keyed"
  /\ known' = known \cup (Existing(db) \cap Key)
  /\ Reach("commit") /\ UNCHANGED gone

\* The first row with a key is taken, the rest is skipped.
FirstRow(k) ==
  Rows(v2)[CHOOSE n \in DOMAIN Rows(v2) :
    Rows(v2)[n][1] = k /\ \A m \in DOMAIN Rows(v2) : Rows(v2)[m][1] = k => n <= m][2]

Given == {Rows(v2)[n][1] : n \in DOMAIN Rows(v2)} \ {NoKey}

\* Mutant: only shortcuts are collected.
NewShortcuts == (Given \cap Pattern) \ known

\* What this run adds.
New == Given \ known

\* Mutant: no key is in the way.
NoClash == FALSE

\* Unique keys: somebody else inserted one since the probe.
Clash == New \cap Existing(db) # {}

With(d) ==
  [d EXCEPT
    !.shortcuts = [p \in Pattern |-> IF p \in New THEN [value |-> FirstRow(p), team |-> 0] ELSE @[p]],
    !.keyed = [k \in Key |-> IF k \in New THEN FirstRow(k) ELSE @[k]]]

\* One commit of everything, or an IntegrityError that rolls it all back. With
\* --dry-run nothing is flushed, so nothing can clash.
Commit ==
  /\ phase = "commit"
  /\ phase' = IF dryRun THEN "idle" ELSE IF Clash THEN "failed" ELSE "done"
  /\ db' = IF dryRun \/ Clash THEN db ELSE With(db)
  /\ UNCHANGED <<edits, v2, dryRun, known, imports, gone>>

\* Anything else raises, or the process is stopped.
Abort ==
  /\ phase \in {"shortcuts", "keyed", "commit"}
  /\ Reach("failed")
  /\ UNCHANGED <<known, gone>>

ImportStep == Start \/ ProbeShortcuts \/ ProbeKeyed \/ Commit \/ Abort

----------------------------------------------------------------------------

\* "existing patterns/names/keys are skipped": an import changes no row that is there,
\* whoever put it there and when, and takes the first v2 row of a key (run_import).
ImportNeverClobbers ==
  [][Commit =>
       /\ \A k \in Key : db.keyed[k] # NoRow => db'.keyed[k] = db.keyed[k]
       /\ \A p \in Pattern :
            IF db.shortcuts[p] # NoRow \/ db'.shortcuts[p] = NoRow
              THEN db'.shortcuts[p] = db.shortcuts[p]
              ELSE \E n \in DOMAIN Rows(v2) :
                     /\ Rows(v2)[n] = <<p, db'.shortcuts[p].value>>
                     /\ \A m \in 1..(n - 1) : Rows(v2)[m][1] # p]_<<db, phase>>

\* "Safe to re-run": once an import is through, each v2 key has a row until somebody
\* deletes it, and a second run finds nothing to add (run_import).
ImportIsComplete == phase = "done" => Given \subseteq Existing(db) \cup gone

=============================================================================
