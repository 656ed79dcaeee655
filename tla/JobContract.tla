----------------------------- MODULE JobContract -----------------------------
(***************************************************************************)
(* Who may write a job row, whatever runs the jobs.  The row is claimed by *)
(* those who have read it unfinished: its execution, a cancel request, the *)
(* boot.  Only a claim writes the row, each with verdicts of its own and   *)
(* one verdict at most.  A settled row without a claim is final.           *)
(***************************************************************************)
EXTENDS Naturals

CONSTANTS Job, Canceller   \* Canceller holds neither "task" nor "boot"

VARIABLES
  status, done,   \* the rows
  claims          \* claims[j]: who may still write the row of j

vars == <<status, done, claims>>

Writer == Canceller \cup {"task", "boot"}
Unfinished(j) == status[j] \in {"queued", "running"}

Verdicts(w) ==
  CASE w = "task" -> {"succeeded", "failed"}
    [] w = "boot" -> {"failed"}
    [] OTHER      -> {"cancelled"}

Init ==
  /\ status = [j \in Job |-> "absent"]
  /\ done = [j \in Job |-> 0]
  /\ claims = [j \in Job |-> {}]

Enter(j) ==
  /\ status[j] = "absent"
  /\ status' = [status EXCEPT ![j] = "queued"]
  /\ UNCHANGED <<done, claims>>

Claim(j, w) ==
  /\ Unfinished(j)
  /\ w \notin claims[j]
  /\ claims' = [claims EXCEPT ![j] = @ \cup {w}]
  /\ UNCHANGED <<status, done>>

\* A claim that is given up for good.
Release(j, w) == claims' = [claims EXCEPT ![j] = @ \ {w}]

\* The execution starts the row or counts its progress, and may end with that.
Report(j) ==
  /\ "task" \in claims[j]
  /\ \/ /\ status' = [status EXCEPT ![j] = "running"]
        /\ done' = [done EXCEPT ![j] = 0]
     \/ /\ UNCHANGED status
        /\ done' \in {[done EXCEPT ![j] = 0], [done EXCEPT ![j] = @ + 1]}
  /\ Release(j, "task") \/ UNCHANGED claims

Decide(j, w) ==
  /\ w \in claims[j]
  /\ \E v \in Verdicts(w) : status' = [status EXCEPT ![j] = v]
  /\ Release(j, w)
  /\ UNCHANGED done

\* A boot claims every unfinished row in one statement, and decides them in one.
ClaimAll ==
  /\ \A j \in Job : "boot" \notin claims[j]
  /\ claims' = [j \in Job |-> claims[j] \cup (IF Unfinished(j) THEN {"boot"} ELSE {})]
  /\ UNCHANGED <<status, done>>

DecideAll ==
  /\ status' = [j \in Job |-> IF "boot" \in claims[j] THEN "failed" ELSE status[j]]
  /\ claims' = [j \in Job |-> claims[j] \ {"boot"}]
  /\ UNCHANGED done

\* Errors, timeouts and crashes lose claims, and write nothing.
Lose ==
  /\ \E kept \in [Job -> SUBSET Writer] : claims' = [j \in Job |-> claims[j] \cap kept[j]]
  /\ UNCHANGED <<status, done>>

Next ==
  \/ \E j \in Job : Enter(j) \/ Report(j)
  \/ \E j \in Job, w \in Writer : Claim(j, w) \/ Decide(j, w)
  \/ ClaimAll \/ DecideAll \/ Lose

Spec == Init /\ [][Next]_vars
=============================================================================
