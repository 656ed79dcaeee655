-------------------------------- MODULE MCSso --------------------------------
(* Request slots and providers are interchangeable. *)
EXTENDS Sso, TLC

Scene(d, g, n, m, t) ==
  [database |-> d, role |-> g, local |-> n, sso |-> m, until |-> t]

\* Local logins alone, both side by side, and the callbacks alone on either database.
SomeScenes ==
  {Scene("sqlite", "none", 3, 0, 2), Scene("postgres", "admin", 1, 2, 2),
   Scene("postgres", "none", 0, 4, 2), Scene("sqlite", "admin", 0, 3, 3)}

\* The account routes alone.
UserScenes == {Scene("sqlite", "none", 4, 0, 0)}

Budgets == [p \in Path |-> 2]

Symmetry == Permutations(Request) \cup Permutations(Provider)

===============================================================================
