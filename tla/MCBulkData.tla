----------------------------- MODULE MCBulkData -----------------------------
(* A database with one team or none, archives from other times, one of them *)
(* of an older version and one defective, and a v2 directory.               *)
EXTENDS BulkData, TLC

CONSTANTS p1, k1, t1, e1, v1, v2x

Blank == EmptyDb
Served ==
  [shortcuts |-> [p \in Pattern |-> [value |-> v1, team |-> 1]], keyed |-> [k \in Key |-> v1],
   teams |-> t1 :> 1, team_members |-> {<<1, e1>>}]
MCStartDb == {Blank, Served}

Dumped ==
  [shortcuts |-> [p \in Pattern |-> [value |-> v2x, team |-> 2]], keyed |-> [k \in Key |-> v2x],
   teams |-> t1 :> 2, team_members |-> {<<2, e1>>}]
MCStartArchive ==
  {[has |-> Table, sound |-> TRUE, rows |-> Dumped],
   [has |-> {"shortcuts", "keyed"}, sound |-> TRUE, rows |-> [EmptyDb EXCEPT !.keyed = [k \in Key |-> v2x]]],
   [has |-> Table, sound |-> FALSE, rows |-> Dumped]}

\* One pattern twice, a row without a key, and a key of another table.
MCSources ==
  {[shortcuts |-> <<<<p1, v1>>, <<NoKey, v1>>, <<p1, v2x>>>>, keyed |-> <<<<k1, v1>>>>]}

\* Jobs are interchangeable.
Symmetry == Permutations(Job)

=============================================================================
