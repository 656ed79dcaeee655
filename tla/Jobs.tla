-------------------------------- MODULE Jobs --------------------------------
(***************************************************************************)
(* Background jobs: the job rows, the executions that move them (asyncio   *)
(* tasks of the API process under JobRunner, deliveries to arq workers     *)
(* under ArqJobRunner), the cancel requests, and the restarts of the one   *)
(* API process, which reaps rows at boot. Each database read or commit is  *)
(* one step. A session writes only the columns that differ from what it    *)
(* read, so an execution carries the status it last saw (`seen`).          *)
(***************************************************************************)
EXTENDS Naturals

CONSTANTS
  Job,          \* job ids
  Canceller,    \* concurrent DELETE requests per job
  Total,        \* progress units of a job (patterns or tables)
  MaxFaults,    \* bound: database and broker errors, timeouts, dead workers
  MaxRestarts   \* bound: times the API process goes down

ASSUME CancellerAssumption == Canceller \cap {"task", "boot"} = {}
ASSUME BoundAssumption == Total \in Nat /\ MaxFaults \in Nat /\ MaxRestarts \in Nat

Active == {"queued", "running"}
Terminal == {"succeeded", "failed", "cancelled"}
Status == Active \cup Terminal \cup {"absent"}

Executing == {"starting", "working", "failing"}   \* the row was read and active
Deciding == {"writing", "sealing"}                \* a cancel about to write
Cancelling == {"asked", "waiting", "alone"} \cup Deciding

VARIABLES
  arq,        \* job_backend = "arq"; a deployment keeps its runner
  api,        \* the API process: reaping (boot), up, closing or down
  status, done,   \* the job rows
  sending,    \* rows committed by an enqueue that has not handed them over
  tasks,      \* JobRunner._tasks
  stopping,   \* tasks told to cancel
  broker,     \* jobs arq holds a message for, delivered or not
  at, seen,   \* the execution of each job, the status in its session
  cancel,     \* the cancel requests
  doomed,     \* rows the boot has read and is about to fail
  faults, restarts,
  broken      \* history: jobs whose last step to a terminal row was lost

server == <<arq, api>>
rows == <<status, done>>
work == <<at, seen, tasks, stopping, broker>>
vars == <<server, rows, sending, work, cancel, doomed, faults, restarts, broken>>

Init ==
  /\ arq \in BOOLEAN
  /\ api = "up"
  /\ status = [j \in Job |-> "absent"]
  /\ done = [j \in Job |-> 0]
  /\ sending = {} /\ tasks = {} /\ stopping = {} /\ broker = {}
  /\ at = [j \in Job |-> "none"]
  /\ seen = [j \in Job |-> "absent"]
  /\ cancel = [c \in Canceller |-> [j \in Job |-> "idle"]]
  /\ doomed = {}
  /\ faults = 0 /\ restarts = 0
  /\ broken = {}

Fault == faults < MaxFaults /\ faults' = faults + 1

----------------------------------------------------------------------------
(* Enqueue: the row first, then the task or the broker message. *)

Enqueue(j) ==
  /\ api = "up"
  /\ status[j] = "absent"
  /\ status' = [status EXCEPT ![j] = "queued"]
  /\ sending' = sending \cup {j}
  /\ UNCHANGED <<server, done, work, cancel, doomed, faults, restarts, broken>>

HandOver(j) ==
  /\ j \in sending
  /\ sending' = sending \ {j}
  /\ IF arq
       THEN broker' = broker \cup {j} /\ UNCHANGED <<at, tasks>>
       ELSE /\ tasks' = tasks \cup {j}
            /\ at' = [at EXCEPT ![j] = "ready"]
            /\ UNCHANGED broker
  /\ UNCHANGED <<server, rows, seen, stopping, cancel, doomed, faults, restarts, broken>>

\* The broker cannot be reached: the request fails, the row stays.
HandOverFails(j) ==
  /\ arq
  /\ j \in sending
  /\ Fault
  /\ sending' = sending \ {j}
  /\ broken' = broken \cup {j}
  /\ UNCHANGED <<server, rows, work, cancel, doomed, restarts>>

\* arq hands a message to a free worker; one execution per job at a time.
Deliver(j) ==
  /\ arq
  /\ j \in broker
  /\ at[j] = "none"
  /\ at' = [at EXCEPT ![j] = "ready"]
  /\ UNCHANGED <<server, rows, sending, seen, tasks, stopping, broker, cancel, doomed, faults,
                 restarts, broken>>

----------------------------------------------------------------------------
(* One execution (execute_job). *)

\* It returns or raises: the task is forgotten, the message acknowledged.
End(j) ==
  /\ at' = [at EXCEPT ![j] = "none"]
  /\ seen' = [seen EXCEPT ![j] = "absent"]
  /\ tasks' = tasks \ {j}
  /\ stopping' = stopping \ {j}
  /\ broker' = broker \ {j}

\* On to the next stage, unless the task was told to cancel meanwhile.
Onward(j, stage, found) ==
  IF j \in stopping
    THEN End(j)
    ELSE /\ at' = [at EXCEPT ![j] = stage]
         /\ seen' = [seen EXCEPT ![j] = found]
         /\ UNCHANGED <<tasks, stopping, broker>>

\* Mutant: a row that left QUEUED/RUNNING is executed again.
FetchAny(j) ==
  /\ at[j] = "ready"
  /\ Onward(j, "starting", status[j])
  /\ UNCHANGED <<server, rows, sending, cancel, doomed, faults, restarts, broken>>

\* Mutant: only QUEUED rows are executed, so a redelivered one is dropped.
FetchQueued(j) ==
  /\ at[j] = "ready"
  /\ IF status[j] = "queued" THEN Onward(j, "starting", status[j]) ELSE End(j)
  /\ UNCHANGED <<server, rows, sending, cancel, doomed, faults, restarts, broken>>

Fetch(j) ==
  /\ at[j] = "ready"
  /\ IF status[j] \in Active THEN Onward(j, "starting", status[j]) ELSE End(j)
  /\ UNCHANGED <<server, rows, sending, cancel, doomed, faults, restarts, broken>>

\* The session writes a status only when it differs from the one it read.
Saved(j, s) == [status EXCEPT ![j] = IF seen[j] = s THEN @ ELSE s]

MarkRunning(j) ==
  /\ at[j] = "starting"
  /\ status' = Saved(j, "running")
  /\ done' = [done EXCEPT ![j] = 0]
  /\ Onward(j, "working", status'[j])
  /\ UNCHANGED <<server, sending, cancel, doomed, faults, restarts, broken>>

\* Mutant: progress is reported once too often.
ProgressOver(j) ==
  /\ at[j] = "working"
  /\ done[j] <= Total
  /\ done' = [done EXCEPT ![j] = @ + 1]
  /\ Onward(j, "working", seen[j])
  /\ UNCHANGED <<server, status, sending, cancel, doomed, faults, restarts, broken>>

Progress(j) ==
  /\ at[j] = "working"
  /\ done[j] < Total
  /\ done' = [done EXCEPT ![j] = @ + 1]
  /\ Onward(j, "working", seen[j])
  /\ UNCHANGED <<server, status, sending, cancel, doomed, faults, restarts, broken>>

Succeed(j) ==
  /\ at[j] = "working"
  /\ done[j] = Total
  /\ status' = Saved(j, "succeeded")
  /\ End(j)
  /\ UNCHANGED <<server, done, sending, cancel, doomed, faults, restarts, broken>>

\* A refused payload or an exception of the work.
Raise(j) ==
  /\ at[j] \in {"starting", "working"}
  /\ j \notin stopping
  /\ Onward(j, "failing", seen[j])
  /\ UNCHANGED <<server, rows, sending, cancel, doomed, faults, restarts, broken>>

Fail(j) ==
  /\ at[j] = "failing"
  /\ status' = Saved(j, "failed")
  /\ End(j)
  /\ UNCHANGED <<server, done, sending, cancel, doomed, faults, restarts, broken>>

\* A write raises, and fail() on the same session raises as well.
StoreFails(j) ==
  /\ at[j] \in Executing
  /\ Fault
  /\ End(j)
  /\ broken' = broken \cup {j}
  /\ UNCHANGED <<server, rows, sending, cancel, doomed, restarts>>

\* CancelledError leaves execute_job; the row keeps its last progress.
Unwind(j) ==
  /\ j \in stopping
  /\ End(j)
  /\ UNCHANGED <<server, rows, sending, cancel, doomed, faults, restarts, broken>>

\* arq's job_timeout cancels the execution and drops the message.
Timeout(j) ==
  /\ arq
  /\ at[j] \in Executing
  /\ Fault
  /\ End(j)
  /\ broken' = broken \cup {j}
  /\ UNCHANGED <<server, rows, sending, cancel, doomed, restarts>>

\* A worker dies or shuts down; arq keeps the message for another delivery.
WorkerDies(j) ==
  /\ arq
  /\ at[j] # "none"
  /\ Fault
  /\ at' = [at EXCEPT ![j] = "none"]
  /\ seen' = [seen EXCEPT ![j] = "absent"]
  /\ UNCHANGED <<server, rows, sending, tasks, stopping, broker, cancel, doomed, restarts, broken>>

----------------------------------------------------------------------------
(* Cancelling: the router's check, then JobRunner.cancel_job. *)

To(c, j, stage) == cancel' = [cancel EXCEPT ![c][j] = stage]

\* A missing or terminal row is answered 404 or 409 and changes nothing.
Ask(c, j) ==
  /\ api = "up"
  /\ cancel[c][j] = "idle"
  /\ status[j] \in Active
  /\ To(c, j, "asked")
  /\ UNCHANGED <<server, rows, sending, work, doomed, faults, restarts, broken>>

\* The task, if the runner has it, is popped and told to cancel.
Pop(c, j) ==
  /\ cancel[c][j] = "asked"
  /\ IF j \in tasks
       THEN /\ tasks' = tasks \ {j}
            /\ stopping' = stopping \cup {j}
            /\ To(c, j, "waiting")
       ELSE To(c, j, "alone") /\ UNCHANGED <<tasks, stopping>>
  /\ UNCHANGED <<server, rows, sending, at, seen, broker, doomed, faults, restarts, broken>>

\* Mutant: the popped task is not awaited (no gather).
WaitedForNothing(j) == TRUE

\* gather has returned.
Gone(j) == at[j] = "none"

\* Mutant: whoever found a task to wait for writes without looking at the row again.
LookOnce(c, j) ==
  /\ \/ cancel[c][j] = "alone" /\ To(c, j, IF status[j] \in Active THEN "writing" ELSE "idle")
     \/ cancel[c][j] = "waiting" /\ Gone(j) /\ To(c, j, "sealing")
  /\ UNCHANGED <<server, rows, sending, work, doomed, faults, restarts, broken>>

\* The row is read again: only an active one goes on to be written.
LookAgain(c, j) ==
  /\ \/ cancel[c][j] = "alone" /\ To(c, j, IF status[j] \in Active THEN "writing" ELSE "idle")
     \/ /\ cancel[c][j] = "waiting" /\ Gone(j)
        /\ To(c, j, IF status[j] \in Active THEN "sealing" ELSE "idle")
  /\ UNCHANGED <<server, rows, sending, work, doomed, faults, restarts, broken>>

MarkCancelled(c, j) ==
  /\ cancel[c][j] \in Deciding
  /\ status' = [status EXCEPT ![j] = "cancelled"]
  /\ To(c, j, "idle")
  /\ UNCHANGED <<server, done, sending, work, doomed, faults, restarts, broken>>

\* The store raises: the task is gone, the row stays active.
CancelFails(c, j) ==
  /\ cancel[c][j] \in Deciding
  /\ Fault
  /\ To(c, j, "idle")
  /\ broken' = broken \cup {j}
  /\ UNCHANGED <<server, rows, sending, work, doomed, restarts>>

----------------------------------------------------------------------------
(* The API process: shutdown, crash, boot. *)

Quiet == sending = {} /\ cancel = [c \in Canceller |-> [j \in Job |-> "idle"]]

\* Lifespan shutdown, after the last request: every tracked task is cancelled.
Shutdown ==
  /\ api = "up"
  /\ restarts < MaxRestarts /\ restarts' = restarts + 1
  /\ Quiet
  /\ stopping' = stopping \cup tasks
  /\ api' = "closing"
  /\ UNCHANGED <<arq, rows, sending, at, seen, tasks, broker, cancel, doomed, faults, broken>>

Exit ==
  /\ api = "closing"
  /\ tasks = {}
  /\ api' = "down"
  /\ UNCHANGED <<arq, rows, sending, work, cancel, doomed, faults, restarts, broken>>

\* Tasks and requests die with the process; workers and the broker do not.
Crash ==
  /\ api # "down"
  /\ restarts < MaxRestarts /\ restarts' = restarts + 1
  /\ api' = "down"
  /\ sending' = {} /\ tasks' = {} /\ stopping' = {} /\ doomed' = {}
  /\ cancel' = [c \in Canceller |-> [j \in Job |-> "idle"]]
  /\ IF arq
       THEN UNCHANGED <<at, seen>>
       ELSE at' = [j \in Job |-> "none"] /\ seen' = [j \in Job |-> "absent"]
  /\ UNCHANGED <<arq, rows, broker, faults, broken>>

\* Mutant: the boot looks for RUNNING rows only.
RunningRows == {j \in Job : status[j] = "running"}

StaleRows == {j \in Job : status[j] \in Active}

Boot ==
  /\ api = "down"
  /\ api' = "reaping"
  /\ doomed' = StaleRows
  /\ UNCHANGED <<arq, rows, sending, work, cancel, faults, restarts, broken>>

Reap ==
  /\ api = "reaping"
  /\ api' = "up"
  /\ status' = [j \in Job |-> IF j \in doomed THEN "failed" ELSE status[j]]
  /\ doomed' = {}
  /\ UNCHANGED <<arq, done, sending, work, cancel, faults, restarts, broken>>

\* Any OperationalError counts as a database without tables: nothing is reaped.
ReapFails ==
  /\ api = "reaping"
  /\ Fault
  /\ api' = "up"
  /\ broken' = broken \cup doomed
  /\ doomed' = {}
  /\ UNCHANGED <<arq, rows, sending, work, cancel, restarts>>

----------------------------------------------------------------------------
Execute(j) ==
  \/ HandOver(j) \/ Deliver(j) \/ Fetch(j) \/ MarkRunning(j) \/ Progress(j) \/ Succeed(j)
  \/ Fail(j) \/ Unwind(j)

Interrupt(j) == HandOverFails(j) \/ StoreFails(j) \/ Timeout(j) \/ WorkerDies(j)

Cancel(c, j) == Pop(c, j) \/ LookAgain(c, j) \/ MarkCancelled(c, j)

Lifespan == Exit \/ Boot \/ Reap

Next ==
  \/ \E j \in Job : Enqueue(j) \/ Execute(j) \/ Raise(j) \/ Interrupt(j)
  \/ \E c \in Canceller, j \in Job : Ask(c, j) \/ Cancel(c, j) \/ CancelFails(c, j)
  \/ Shutdown \/ Crash \/ Lifespan \/ ReapFails

Spec == Init /\ [][Next]_vars

\* Tasks, workers and requests run on; the process manager starts the API again.
Fairness ==
  /\ \A j \in Job : WF_vars(Execute(j))
  /\ \A c \in Canceller, j \in Job : WF_vars(Cancel(c, j))
  /\ WF_vars(Lifespan)

FairSpec == Spec /\ Fairness

----------------------------------------------------------------------------
(* Properties. *)

\* Every variable stays within its type.
TypeOK ==
  /\ arq \in BOOLEAN
  /\ api \in {"reaping", "up", "closing", "down"}
  /\ status \in [Job -> Status]
  /\ done \in [Job -> 0..Total]
  /\ sending \subseteq Job /\ tasks \subseteq Job /\ stopping \subseteq Job
  /\ broker \subseteq Job /\ doomed \subseteq Job /\ broken \subseteq Job
  /\ at \in [Job -> {"none", "ready"} \cup Executing]
  /\ seen \in [Job -> Status]
  /\ cancel \in [Canceller -> [Job -> {"idle"} \cup Cancelling]]
  /\ faults \in 0..MaxFaults /\ restarts \in 0..MaxRestarts

\* Somebody read j as active and may still write its row.
Held(j) ==
  \/ at[j] \in Executing \/ j \in doomed
  \/ \E c \in Canceller : cancel[c][j] \in Deciding

Settled(j) == status[j] \in Terminal /\ ~Held(j)

\* A terminal row nobody holds is final, and nobody takes hold of it, whatever is
\* still queued, delivered again, cancelled or rebooted (the status guards of
\* execute_job, cancel_job and fail_stale).
SettledRowsAreFinal ==
  [][\A j \in Job : Settled(j) =>
        status'[j] = status[j] /\ done'[j] = done[j] /\ ~Held(j)']_vars

\* A cancel that had the task in hand decides only after that task is gone, so
\* the execution never writes over its verdict (gather in cancel_job).
TaskGoneBeforeVerdict ==
  \A c \in Canceller, j \in Job : cancel[c][j] = "sealing" => at[j] = "none"

\* Only who has read a row unfinished writes it, each its own verdict and at most one,
\* under both runners (execute_job, cancel_job, fail_stale).
Claims(j) ==
  (IF at[j] \in Executing THEN {"task"} ELSE {})
    \cup (IF j \in doomed THEN {"boot"} ELSE {})
    \cup {c \in Canceller : cancel[c][j] \in Deciding}
Contract == INSTANCE JobContract WITH claims <- [j \in Job |-> Claims(j)]
RowsAreClaimed == Contract!Spec

\* While the API serves, an unfinished row has somebody to finish it: the
\* enqueue, an execution, a message, a cancel, or a fault lost its last step.
NoOrphans ==
  api = "up" =>
    \A j \in Job : status[j] \in Active =>
      \/ j \in sending \/ j \in broker \/ at[j] # "none" \/ j \in broken
      \/ \E c \in Canceller : cancel[c][j] # "idle"

\* Every job reaches a terminal row, through crashes, restarts and cancels,
\* unless a fault lost its last step.
EveryJobSettles ==
  \A j \in Job : (status[j] \in Active) ~> (status[j] \in Terminal \/ j \in broken)

\* "a durable broker will requeue instead of failing": the boot leaves alone the
\* rows whose message the broker holds.
RestartSurvives ==
  [][\A j \in Job : j \in broker /\ api = "reaping" => status'[j] # "failed" \/ status[j] = "failed"]_vars
=============================================================================
