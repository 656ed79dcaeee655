------------------------------ MODULE Upstreams ------------------------------
(***************************************************************************)
(* Upstream checks and the upstream cache: modules/upstreams/service.py    *)
(* and repository.py, routers/upstreams.py.  A run is one resync of an     *)
(* upstream (request or job) or one fan-out of a pattern over all          *)
(* upstreams (check stream, browser 404 page).  Its checks are concurrent  *)
(* tasks on one database session.  A step lies between two awaits.         *)
(***************************************************************************)
EXTENDS Integers, FiniteSets

CONSTANTS Name,             \* upstream names
          Baseless,         \* those without a base_url
          Pattern,
          PlainUrl, SsoUrl, \* where a check can end; is_sso_url tells them apart
          NoUrl,
          Run,              \* slots for runs
          MaxRuns, MaxEdits

Url == PlainUrl \cup SsoUrl
Item == Pattern \X Name

ASSUME NameAssumption == Baseless \subseteq Name
ASSUME UrlAssumption == NoUrl \notin Url /\ PlainUrl \cap SsoUrl = {}
ASSUME VerdictAssumption == {"absent", "skipped"} \cap Url = {}
ASSUME LimitAssumption == MaxRuns \in Nat /\ MaxEdits \in Nat

VARIABLES
  live,     \* table upstreams, by name
  cache,    \* table upstream_cache, by primary key
  log,      \* table upstream_check_log: the count of a row, 0 for no row
  run,      \* stage of a run
  stage,    \* stage of each of its items
  verdict,  \* what the check of an item concluded
  seen,     \* what the last SELECT for an item returned: a count, or 0 and 1
  runs, edits

\* History, read by no guard.
VARIABLES
  orphaned, \* names renamed, or deleted while a resync of them was running
  checks,   \* checks logged for an item since its log was cleared
  raced,    \* items whose log row changed between a SELECT and its COMMIT
  foreign   \* items that somebody else changed during a run

tables == <<live, cache, log>>
tasks == <<run, stage, verdict, seen>>
history == <<orphaned, checks, raced, foreign>>
vars == <<tables, tasks, runs, edits, history>>

Stages == {"none", "http", "selected", "ready", "reading", "done"}
Working == {"resync", "fanout"}
Answer == Url \cup {"fails", "raises"}
Verdict == Url \cup {"absent", "skipped"}
InSession == {"selected", "reading"}   \* between a SELECT and its COMMIT

Init ==
  /\ live \in SUBSET Name
  /\ cache \in {c \in [Item -> PlainUrl \cup {NoUrl}] : \A i \in Item : c[i] # NoUrl => i[2] \in live}
  /\ log = [i \in Item |-> 0]
  /\ run = [w \in Run |-> "idle"]
  /\ stage = [w \in Run |-> [i \in Item |-> "none"]]
  /\ verdict = [w \in Run |-> [i \in Item |-> "skipped"]]
  /\ seen = [w \in Run |-> [i \in Item |-> 0]]
  /\ runs = 0 /\ edits = 0
  /\ orphaned = {} /\ raced = {}
  /\ checks = [i \in Item |-> 0]
  /\ foreign = [w \in Run |-> {}]

----------------------------------------------------------------------------

In(w, S) == {i \in Item : stage[w][i] \in S}
Items(w) == In(w, Stages \ {"none"})
Move(w, i, s) == stage' = [stage EXCEPT ![w][i] = s]

\* All checks are asked at once; without base_url one is skipped and not logged.
FirstStage(i, items) ==
  IF i \notin items THEN "none" ELSE IF i[2] \in Baseless THEN "ready" ELSE "http"

Begin(w, kind, items) ==
  /\ run[w] = "idle"
  /\ runs < MaxRuns
  /\ runs' = runs + 1
  /\ run' = [run EXCEPT ![w] = kind]
  /\ stage' = [stage EXCEPT ![w] = [i \in Item |-> FirstStage(i, items)]]
  /\ UNCHANGED <<tables, verdict, seen, edits, history>>

\* One given pattern, or every pattern the upstream has a row for; with nothing
\* to check the resync returns at once, and it is a 404 without the upstream.
Resync(w, u, P) ==
  /\ u \in live
  /\ \/ \E p \in Pattern : P = {p}
     \/ P # {} /\ P = {p \in Pattern : cache[<<p, u>>] # NoUrl}
  /\ Begin(w, "resync", P \X {u})

\* The fan-out asks every upstream for one pattern.
FanOut(w, p) == live # {} /\ Begin(w, "fanout", {p} \X live)

\* Mutants: the writes of a run are not serialized; a failed task keeps the lock.
NoLock(w) == w \in Run
LeakedLock(w) == In(w, InSession) = {} /\ run[w] # "failed"

\* UpstreamCheckService._lock: no other task of the run is inside the session.
Unlocked(w) == In(w, InSession) = {}

\* Mutant: a login page counts as the target it was asked for.
JudgeLogin(a) == IF a \in Url THEN a ELSE "absent"

\* A login page, the fail URL or status, and an exception are all no target.
Judge(a) == IF a \in PlainUrl THEN a ELSE "absent"

\* The answer is in and the session free: log_check selects the row ...
Check(w, i, a) ==
  /\ stage[w][i] = "http"
  /\ Unlocked(w)
  /\ verdict' = [verdict EXCEPT ![w][i] = Judge(a)]
  /\ seen' = [seen EXCEPT ![w][i] = log[i]]
  /\ Move(w, i, "selected")
  /\ UNCHANGED <<tables, run, runs, edits, history>>

\* The session drops what it had selected.
Forget(w, i) == seen' = [seen EXCEPT ![w][i] = 0]

\* Some run has selected the log row of i and not committed.
LogInUse(i, W) == \E v \in W : stage[v][i] = "selected"

\* Mutants: the count starts again; it counts down.
CountFromOne(w, i) == 1
CountDown(w, i) == seen[w][i] - 1

Counted(w, i) == seen[w][i] + 1

\* ... and writes the count it read plus one. The UPDATE needs its row, the
\* INSERT must not meet another.
CommitLog(w, i) ==
  /\ stage[w][i] = "selected"
  /\ (seen[w][i] = 0) = (log[i] = 0)
  /\ log' = [log EXCEPT ![i] = Counted(w, i)]
  /\ checks' = [checks EXCEPT ![i] = @ + 1]
  /\ raced' = IF LogInUse(i, Run \ {w}) THEN raced \cup {i} ELSE raced
  /\ Move(w, i, IF run[w] = "failed" THEN "done" ELSE "ready")
  /\ Forget(w, i)
  /\ UNCHANGED <<live, cache, run, verdict, runs, edits, orphaned, foreign>>

----------------------------------------------------------------------------

\* Every check is in: gather returned.
Checked(w) == \A i \in Items(w) : stage[w][i] \in {"ready", "reading", "done"}

\* The first hit in configured order, or the report.
AnswerFanOut(w) ==
  /\ run[w] = "fanout"
  /\ Checked(w)
  /\ run' = [run EXCEPT ![w] = "answered"]
  /\ UNCHANGED <<tables, stage, verdict, seen, runs, edits, history>>

\* save_cache and clear_cache_entry select the row; a skipped item is left alone.
SelectRow(w, i) ==
  /\ run[w] = "resync"
  /\ Checked(w)
  /\ Unlocked(w)
  /\ stage[w][i] = "ready"
  /\ IF verdict[w][i] = "skipped" THEN Move(w, i, "done") /\ UNCHANGED seen
     ELSE Move(w, i, "reading") /\ seen' = [seen EXCEPT ![w][i] = IF cache[i] = NoUrl THEN 0 ELSE 1]
  /\ UNCHANGED <<tables, run, verdict, runs, edits, history>>

\* Rows in I changed under resyncs of them, in V.
Changed(I, V) == foreign' = [v \in Run |-> IF v \in V THEN foreign[v] \cup (I \cap Items(v)) ELSE foreign[v]]

\* save_cache inserts or updates, according to what it saw.
Save(w, i) ==
  /\ stage[w][i] = "reading"
  /\ verdict[w][i] \in Url
  /\ (seen[w][i] = 0) = (cache[i] = NoUrl)
  /\ cache' = [cache EXCEPT ![i] = verdict[w][i]]
  /\ Changed({i}, Run \ {w})
  /\ Move(w, i, "done")
  /\ Forget(w, i)
  /\ UNCHANGED <<live, log, run, verdict, runs, edits, orphaned, checks, raced>>

\* Mutant: an entry whose check failed keeps its row.
KeepRow(w, i) == FALSE

\* clear_cache_entry deletes the row it saw.
Stored(w, i) == seen[w][i] = 1

Clear(w, i) ==
  /\ stage[w][i] = "reading"
  /\ verdict[w][i] = "absent"
  /\ IF Stored(w, i) THEN cache' = [cache EXCEPT ![i] = NoUrl] /\ Changed({i}, Run \ {w})
     ELSE UNCHANGED <<cache, foreign>>
  /\ Move(w, i, "done")
  /\ Forget(w, i)
  /\ UNCHANGED <<live, log, run, verdict, runs, edits, orphaned, checks, raced>>

Finish(w) ==
  /\ run[w] = "resync"
  /\ Items(w) = In(w, {"done"})
  /\ run' = [run EXCEPT ![w] = "finished"]
  /\ UNCHANGED <<tables, stage, verdict, seen, runs, edits, history>>

\* Where a statement can raise: a lost row, a duplicate key, the database.
AtDatabase(w, i) ==
  \/ stage[w][i] \in InSession
  \/ Unlocked(w) /\ stage[w][i] = "http"
  \/ Unlocked(w) /\ stage[w][i] = "ready" /\ run[w] = "resync" /\ Checked(w)

\* The run fails with what it committed. gather cancels nothing: the other checks go on.
Fail(w, i) ==
  /\ run[w] \in Working
  /\ AtDatabase(w, i)
  /\ run' = [run EXCEPT ![w] = "failed"]
  /\ stage' = [stage EXCEPT ![w] = [j \in Item |->
       IF stage[w][j] = "none" \/ (j # i /\ stage[w][j] \in {"http", "selected"})
         THEN stage[w][j] ELSE "done"]]
  /\ UNCHANGED <<tables, verdict, seen, runs, edits, history>>

\* Each of those ends too, logged or not.
Drop(w, i) ==
  /\ run[w] = "failed"
  /\ AtDatabase(w, i)
  /\ Move(w, i, "done")
  /\ UNCHANGED <<tables, run, verdict, seen, runs, edits, history>>

\* The slot is free again.
Leave(w) ==
  /\ \/ run[w] \in {"answered", "finished"}
     \/ run[w] = "failed" /\ Items(w) = In(w, {"done"})
  /\ run' = [run EXCEPT ![w] = "idle"]
  /\ stage' = [stage EXCEPT ![w] = [i \in Item |-> "none"]]
  /\ verdict' = [verdict EXCEPT ![w] = [i \in Item |-> "skipped"]]
  /\ seen' = [seen EXCEPT ![w] = [i \in Item |-> 0]]
  /\ foreign' = [foreign EXCEPT ![w] = {}]
  /\ UNCHANGED <<tables, runs, edits, orphaned, checks, raced>>

----------------------------------------------------------------------------

Edit == edits < MaxEdits /\ edits' = edits + 1 /\ UNCHANGED <<tasks, runs>>

\* Rows of the cache go away.
Remove(I) ==
  /\ cache' = [i \in Item |-> IF i \in I THEN NoUrl ELSE cache[i]]
  /\ Changed(I, Run)

\* A name is taken once: a second create is a 409, by the check or the constraint.
Create(u) ==
  /\ Edit
  /\ u \notin live
  /\ live' = live \cup {u}
  /\ UNCHANGED <<cache, log, history>>

\* PATCH may rename: cache rows and running resyncs keep the old name.
Rename(u, v) ==
  /\ Edit
  /\ u \in live /\ v \notin live
  /\ live' = (live \ {u}) \cup {v}
  /\ orphaned' = orphaned \cup {u}
  /\ UNCHANGED <<cache, log, checks, raced, foreign>>

\* Mutant: the rows of a deleted upstream stay.
NoRows(u) == {}

\* The rows of an upstream.
RowsOf(u) == Pattern \X {u}

\* A resync of u is under way.
Resyncing(u) == \E w \in Run : run[w] = "resync" /\ \E i \in Items(w) : i[2] = u

\* SELECT, DELETE and COMMIT of the upstream and its rows, one transaction and one step:
\* a resync that begins and ends inside it, as PostgreSQL allows, is left out.
Delete(u) ==
  /\ Edit
  /\ u \in live
  /\ live' = live \ {u}
  /\ Remove(RowsOf(u))
  /\ orphaned' = IF Resyncing(u) THEN orphaned \cup {u} ELSE orphaned
  /\ UNCHANGED <<log, checks, raced>>

\* DELETE /cache: everything, one upstream, or one entry.
Purge(I) ==
  /\ Edit
  /\ Remove(I)
  /\ UNCHANGED <<live, log, orphaned, checks, raced>>

\* DELETE /check-logs, of all upstreams or one.
ClearLogs(U) ==
  /\ Edit
  /\ log' = [i \in Item |-> IF i[2] \in U THEN 0 ELSE log[i]]
  /\ checks' = [i \in Item |-> IF i[2] \in U THEN 0 ELSE checks[i]]
  /\ raced' = raced \cup {i \in Item : i[2] \in U /\ LogInUse(i, Run)}
  /\ UNCHANGED <<live, cache, orphaned, foreign>>

----------------------------------------------------------------------------

Work(w) ==
  \/ AnswerFanOut(w)
  \/ Finish(w)
  \/ Leave(w)
  \/ \E i \in Item, a \in Answer : Check(w, i, a)
  \/ \E i \in Item : CommitLog(w, i)
  \/ \E i \in Item : SelectRow(w, i)
  \/ \E i \in Item : Save(w, i)
  \/ \E i \in Item : Clear(w, i)
  \/ \E i \in Item : Fail(w, i)
  \/ \E i \in Item : Drop(w, i)

Start(w) ==
  \/ \E u \in Name, P \in SUBSET Pattern : Resync(w, u, P)
  \/ \E p \in Pattern : FanOut(w, p)

Admin ==
  \/ \E u \in Name : Create(u)
  \/ \E u, v \in Name : Rename(u, v)
  \/ \E u \in Name : Delete(u)
  \/ \E I \in {Item} \cup {RowsOf(u) : u \in Name} \cup {{i} : i \in Item} : Purge(I)
  \/ \E U \in {Name} \cup {{u} : u \in Name} : ClearLogs(U)

Next == (\E w \in Run : Work(w) \/ Start(w)) \/ Admin

Spec == Init /\ [][Next]_vars

----------------------------------------------------------------------------

TypeOK ==
  /\ live \subseteq Name
  /\ cache \in [Item -> Url \cup {NoUrl}]
  /\ log \in [Item -> Nat] /\ checks \in [Item -> Nat]
  /\ run \in [Run -> {"idle", "answered", "finished", "failed"} \cup Working]
  /\ stage \in [Run -> [Item -> Stages]]
  /\ verdict \in [Run -> [Item -> Verdict]]
  /\ seen \in [Run -> [Item -> Nat]]
  /\ runs \in Nat /\ edits \in Nat
  /\ orphaned \subseteq Name /\ raced \subseteq Item
  /\ foreign \in [Run -> SUBSET Item]

\* The checks of a run share one AsyncSession, which is not safe for concurrent
\* use: no two of its tasks are between a SELECT and its COMMIT (_lock).
SessionsAreSerial ==
  \A w \in Run, i, j \in Item : stage[w][i] \in InSession /\ stage[w][j] \in InSession => i = j

\* SSO/login targets are never cached, for any upstream (check_single, save_cache).
LoginsAreNotCached == \A i \in Item : cache[i] \notin SsoUrl

\* A cached row without its upstream has one of two causes: a rename, or a delete
\* that a running resync of that upstream outlived (delete, save_cache).
OrphansHaveCause == \A i \in Item : cache[i] # NoUrl /\ i[2] \notin live => i[2] \in orphaned

\* A log row counts every check, unless it changed between a SELECT and its
\* COMMIT: two runs overlapped on it, or it was cleared (log_check).
LogCountsChecks == \A i \in Item : i \notin raced => log[i] = checks[i]

\* "stale entries must not survive": when a resync is through, each of its rows
\* that nobody else changed holds what the check found, or is gone (refresh_patterns).
ResyncHasLastWord ==
  \A w \in Run, i \in Item :
    run[w] = "finished" /\ i \in Items(w) \ foreign[w] /\ verdict[w][i] # "skipped"
      => cache[i] = IF verdict[w][i] = "absent" THEN NoUrl ELSE verdict[w][i]

\* No run waits for ever, a failed one included: it is over, its checks are all in, or
\* one of its tasks is at the database, where a statement runs or raises (_lock).
RunsCanProceed ==
  \A w \in Run :
    \/ run[w] \in {"idle", "answered", "finished"}
    \/ run[w] = "fanout" /\ Checked(w)
    \/ Items(w) = In(w, {"done"})
    \/ \E i \in Item : AtDatabase(w, i)

=============================================================================
