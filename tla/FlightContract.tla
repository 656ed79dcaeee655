--------------------------- MODULE FlightContract ---------------------------
(***************************************************************************)
(* What miss coalescing promises, whatever implements it: for each key at  *)
(* most one shared run of the miss factory, parties that wait on a run     *)
(* only while it is live, and every party released by the step that        *)
(* settles the run, whether it succeeded or failed.                        *)
(***************************************************************************)
CONSTANTS Caller, Key, Nobody   \* Nobody is not a Caller

VARIABLES
  runner,   \* runner[k]: the caller whose run of the factory is shared, or Nobody
  party     \* party[k]: the callers waiting for the result of that run

vars == <<runner, party>>

Engaged(c) == \E k \in Key : runner[k] = c \/ c \in party[k]

Init ==
  /\ runner = [k \in Key |-> Nobody]
  /\ party = [k \in Key |-> {}]

Start(c, k) ==
  /\ ~Engaged(c)
  /\ runner[k] = Nobody
  /\ runner' = [runner EXCEPT ![k] = c]
  /\ UNCHANGED party

Join(c, k) ==
  /\ ~Engaged(c)
  /\ runner[k] # Nobody
  /\ party' = [party EXCEPT ![k] = @ \cup {c}]
  /\ UNCHANGED runner

Settle(k) ==
  /\ runner[k] # Nobody
  /\ runner' = [runner EXCEPT ![k] = Nobody]
  /\ party' = [party EXCEPT ![k] = {}]

Next ==
  \/ \E c \in Caller, k \in Key : Start(c, k) \/ Join(c, k)
  \/ \E k \in Key : Settle(k)

Spec == Init /\ [][Next]_vars

FairSpec == Spec /\ \A k \in Key : WF_vars(Settle(k))
=============================================================================
