------------------------------ MODULE BulkData ------------------------------
(***************************************************************************)
(* Backups, restores, imports and the edits of the API on one database.    *)
(***************************************************************************)
EXTENDS Backup, ImportV2, FiniteSets

CONSTANT MaxBulk \* bulk operations begun

vars == <<db, edits, backupVars, importVars>>

Init == db \in StartDb /\ edits = 0 /\ BackupInit /\ ImportInit

\* Restores that somebody else disturbed, keys that lost their row under an import.
Disturbed ==
  IF db' = db THEN UNCHANGED <<quiet, gone>>
  ELSE quiet' = {} /\ gone' = gone \cup (Existing(db) \ Existing(db'))

Edits ==
  /\ ApiEdit
  /\ Disturbed
  /\ UNCHANGED <<disk, work, spoiled, phase, v2, dryRun, known, imports>>

Backups == BackupStep /\ UNCHANGED importVars

Imports == ImportStep /\ UNCHANGED <<disk, work, spoiled>> /\ quiet' = IF db' = db THEN quiet ELSE {}

Bulk == Cardinality({j \in Job : stage[j] # "idle"}) + imports

Next == (Edits \/ Backups \/ Imports) /\ Bulk' <= MaxBulk

Spec == Init /\ [][Next]_vars

=============================================================================
