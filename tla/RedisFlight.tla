---------------------------- MODULE RedisFlight ----------------------------
(***************************************************************************)
(* Distributed miss coalescing for one cache key: RedisCache.get_or_compute*)
(* run by the requests of every API process against one Redis, beside the  *)
(* edits that commit a row and then delete the key and the writes that     *)
(* delete nothing. Each Redis command and each database read is one step;  *)
(* a command that raises RedisError may or may not have taken effect at    *)
(* the server.                                                             *)
(***************************************************************************)
EXTENDS Naturals

CONSTANTS
  Request,      \* request slots; a slot stands for its uuid token as well
  Stored,       \* cacheable verdicts of the factory (the miss sentinel is one)
  NoValue,      \* the uncacheable verdict: the factory returns None
  Nil,          \* a Redis key that does not exist
  Tombstone,    \* _UNCACHEABLE, parked on the lock
  MaxEdits,     \* bound: edits accepted
  MaxSilent,    \* bound: writes by code that never touches the cache
  MaxFaults     \* bound: Redis errors, factory errors and crashes

ASSUME ValueAssumption ==
  /\ NoValue \notin Stored
  /\ Nil \notin Stored \cup {NoValue}
ASSUME TokenAssumption ==
  /\ Nil \notin Request
  /\ Tombstone \notin Request \cup {Nil}
ASSUME BoundAssumption == MaxEdits \in Nat /\ MaxSilent \in Nat /\ MaxFaults \in Nat

Verdict == Stored \cup {NoValue}

VARIABLES
  row,       \* what the factory would read from the database now
  value,     \* Redis key `key`
  lock,      \* Redis key `lock:{key}`
  pc,        \* where each request is
  got,       \* the verdict its factory run read
  late,      \* its follower_timeout_s has passed
  edits, silent, faults,
  over,      \* history: its lock was taken from it while it led the flight
  read,      \* history: how many writes the database had when its factory read
  vouched,   \* history: value comes from a read no write overlapped, and every later
             \* write has deleted it or is about to
  stamp,     \* history: how many writes the database had when value was read
  owned      \* history: value was stored by a leader whose lock time had not taken

entry == <<value, vouched, stamp, owned>>
database == <<row, edits, silent>>
held == <<got, late, read, over>>
redis == <<entry, lock>>
quiet == <<database, faults>>
vars == <<entry, lock, pc, held, database, faults>>

writes == edits + silent

Leading == {"leading", "publishing", "releasing", "failing"}
Following == {"polling", "checking"}
Holding == {"publishing", "offering", "serving"}   \* a verdict read, not yet used
Stage == {"idle", "acquiring", "direct", "falling", "purging"}
           \cup Leading \cup Following \cup Holding

Init ==
  /\ row \in Verdict
  /\ value = Nil
  /\ lock = Nil
  /\ pc = [r \in Request |-> "idle"]
  /\ got = [r \in Request |-> NoValue]
  /\ late = [r \in Request |-> FALSE]
  /\ edits = 0
  /\ silent = 0
  /\ faults = 0
  /\ over = [r \in Request |-> FALSE]
  /\ read = [r \in Request |-> 0]
  /\ vouched = TRUE
  /\ stamp = 0
  /\ owned = FALSE

Go(r, stage) == pc' = [pc EXCEPT ![r] = stage]

\* The request ends; what it held is forgotten.
Forget(r) ==
  /\ Go(r, "idle")
  /\ got' = [got EXCEPT ![r] = NoValue]
  /\ late' = [late EXCEPT ![r] = FALSE]
  /\ read' = [read EXCEPT ![r] = 0]

Done(r) ==
  /\ Forget(r)
  /\ over' = [over EXCEPT ![r] = FALSE]

\* One more RedisError, factory exception or crash.
Fault == faults < MaxFaults /\ faults' = faults + 1

----------------------------------------------------------------------------
\* GET key at arrival. A hit, answered at once, changes nothing; a RedisError
\* counts as a miss.
Arrive(r) ==
  /\ pc[r] = "idle"
  /\ \/ value = Nil /\ UNCHANGED faults
     \/ Fault
  /\ Go(r, "acquiring")
  /\ UNCHANGED <<redis, held, database>>

\* Mutant: SET without NX.
AcquireAny(r) ==
  /\ pc[r] = "acquiring"
  /\ lock' = r
  /\ Go(r, "leading")
  /\ UNCHANGED <<entry, held, quiet>>

\* SET lock token NX PX.
Acquire(r) ==
  /\ pc[r] = "acquiring"
  /\ lock = Nil
  /\ lock' = r
  /\ Go(r, "leading")
  /\ UNCHANGED <<entry, held, quiet>>

Follow(r) ==
  /\ pc[r] = "acquiring"
  /\ lock # Nil
  /\ Go(r, "polling")
  /\ UNCHANGED <<redis, held, quiet>>

\* RedisError on the lock: the factory runs directly and stores nothing. The
\* server may have taken the lock all the same.
AcquireFails(r) ==
  /\ pc[r] = "acquiring"
  /\ Fault
  /\ lock' \in {lock, IF lock = Nil THEN r ELSE lock}
  /\ Go(r, "direct")
  /\ UNCHANGED <<entry, held, database>>

\* The factory reads the database, for a leader, a direct or a fallen-back run.
After(stage) ==
  IF stage = "leading" THEN "publishing" ELSE IF stage = "direct" THEN "serving" ELSE "offering"

Load(r) ==
  /\ pc[r] \in {"leading", "direct", "falling"}
  /\ got' = [got EXCEPT ![r] = row]
  /\ Go(r, After(pc[r]))
  /\ read' = [read EXCEPT ![r] = writes]
  /\ UNCHANGED <<redis, late, over, quiet>>

LoadFails(r) ==
  /\ pc[r] \in {"leading", "direct", "falling"}
  /\ Fault
  /\ IF pc[r] = "leading"
       THEN Go(r, "failing") /\ UNCHANGED held
       ELSE Done(r)
  /\ UNCHANGED <<redis, database>>

Put(r) ==
  /\ value' = got[r]
  /\ vouched' = (read[r] = writes)
  /\ stamp' = read[r]
  /\ owned' = (pc[r] = "publishing" /\ ~over[r])

\* The key is gone.
Drop == value' = Nil /\ stamp' = 0 /\ owned' = FALSE

\* The leader stores a cacheable verdict, unconditionally.
Publish(r) ==
  /\ pc[r] = "publishing"
  /\ got[r] # NoValue
  /\ \/ Put(r) /\ UNCHANGED faults
     \/ Fault /\ (Put(r) \/ UNCHANGED entry)
  /\ Go(r, "releasing")
  /\ UNCHANGED <<lock, held, database>>

\* An uncacheable verdict parks the tombstone, whoever holds the lock by now.
Park(r) ==
  /\ pc[r] = "publishing"
  /\ got[r] = NoValue
  /\ \/ lock' = Tombstone /\ UNCHANGED faults
     \/ Fault /\ lock' \in {lock, Tombstone}
  /\ over' = [q \in Request |-> q # r /\ (over[q] \/ (lock = q /\ lock' # q /\ pc[q] \in Leading))]
  /\ Forget(r)
  /\ UNCHANGED <<entry, database>>

\* Mutant: DEL without the token check.
ReleaseAny(r) == lock' = Nil

\* The release script: DEL only if the lock still holds the token.
ReleaseOwn(r) == lock' = IF lock = r THEN Nil ELSE lock

Release(r) ==
  /\ pc[r] \in {"releasing", "failing"}
  /\ \/ ReleaseOwn(r) /\ UNCHANGED faults
     \/ Fault /\ (ReleaseOwn(r) \/ UNCHANGED lock)
  /\ Done(r)
  /\ UNCHANGED <<entry, database>>

\* Mutant: the loop does not look at the deadline.
PollForEver(r) ==
  /\ pc[r] = "polling"
  /\ IF value # Nil THEN Done(r) ELSE Go(r, "checking") /\ UNCHANGED held
  /\ UNCHANGED <<redis, quiet>>

\* The follower's loop: a value ends it, so does the deadline; else the lock is
\* looked at next.
Poll(r) ==
  /\ pc[r] = "polling"
  /\ IF late[r] THEN Go(r, "falling") /\ UNCHANGED held
     ELSE IF value # Nil THEN Done(r)
     ELSE Go(r, "checking") /\ UNCHANGED held
  /\ UNCHANGED <<redis, quiet>>

CheckLock(r) ==
  /\ pc[r] = "checking"
  /\ Go(r, IF lock = Tombstone THEN "falling" ELSE "polling")
  /\ UNCHANGED <<redis, held, quiet>>

PollFails(r) ==
  /\ pc[r] \in Following
  /\ Fault
  /\ Go(r, "falling")
  /\ UNCHANGED <<redis, held, database>>

OfferNX(r) == IF value = Nil THEN Put(r) ELSE UNCHANGED entry

\* A fallen-back caller offers its verdict with SET NX, then answers.
Offer(r) ==
  /\ pc[r] = "offering"
  /\ IF got[r] # NoValue
       THEN \/ OfferNX(r) /\ UNCHANGED faults
            \/ Fault /\ (OfferNX(r) \/ UNCHANGED entry)
       ELSE UNCHANGED <<entry, faults>>
  /\ Done(r)
  /\ UNCHANGED <<lock, database>>

Serve(r) ==
  /\ pc[r] = "serving"
  /\ Done(r)
  /\ UNCHANGED <<redis, quiet>>

----------------------------------------------------------------------------
\* An edit commits a new row (repository.update and its kin).
Commit(r, v) ==
  /\ pc[r] = "idle"
  /\ edits < MaxEdits
  /\ edits' = edits + 1
  /\ row' = v
  /\ Go(r, "purging")
  /\ UNCHANGED <<redis, held, silent, faults>>

\* Mutant: the invalidation misses the key.
PurgeNothing(r) == pc[r] = "purging" /\ Done(r) /\ UNCHANGED <<redis, quiet>>

\* DEL key; an error is logged and the entry may stay.
Purge(r) ==
  /\ pc[r] = "purging"
  /\ \/ Drop /\ UNCHANGED <<faults, vouched>>
     \/ Fault /\ vouched' = FALSE /\ (Drop \/ UNCHANGED <<value, stamp, owned>>)
  /\ Done(r)
  /\ UNCHANGED <<lock, database>>

\* Upstream resync and purge, restore and import_v2 commit a row and delete no key.
SilentWrite(v) ==
  /\ silent < MaxSilent
  /\ silent' = silent + 1
  /\ v # row
  /\ row' = v
  /\ vouched' = FALSE
  /\ UNCHANGED <<value, stamp, owned, lock, pc, held, edits, faults>>

\* The process of r dies: its lock, its pending invalidation stay behind.
Crash(r) ==
  /\ pc[r] # "idle"
  /\ Fault
  /\ vouched' = (vouched /\ pc[r] # "purging")
  /\ Done(r)
  /\ UNCHANGED <<value, stamp, owned, lock, database>>

\* Time passes: the follower window, the value's TTL, the lock's or tombstone's.
BecomeLate(r) ==
  /\ pc[r] \in Following
  /\ ~late[r]
  /\ late' = [late EXCEPT ![r] = TRUE]
  /\ UNCHANGED <<redis, pc, got, read, over, quiet>>

\* Mutant: the value is stored without a TTL (no px).
NeverExpireValue == value # Nil /\ UNCHANGED vars

ExpireValue ==
  /\ value # Nil
  /\ Drop
  /\ UNCHANGED <<lock, vouched, pc, held, quiet>>

ExpireLock ==
  /\ lock # Nil
  /\ lock' = Nil
  /\ over' = [r \in Request |-> over[r] \/ (lock = r /\ pc[r] \in Leading)]
  /\ UNCHANGED <<entry, pc, got, late, read, quiet>>

Step(r) ==
  \/ Acquire(r) \/ Follow(r) \/ AcquireFails(r)
  \/ Load(r) \/ LoadFails(r) \/ Publish(r) \/ Park(r) \/ Release(r)
  \/ Poll(r) \/ CheckLock(r) \/ PollFails(r)
  \/ Offer(r) \/ Serve(r) \/ Purge(r)

Next ==
  \/ \E r \in Request : Arrive(r) \/ Step(r) \/ Crash(r) \/ BecomeLate(r)
  \/ \E r \in Request, v \in Verdict : Commit(r, v)
  \/ \E v \in Verdict : SilentWrite(v)
  \/ ExpireValue \/ ExpireLock

Spec == Init /\ [][Next]_vars

\* Requests run on, Redis and the database answer or raise, and time passes.
\* Crashes, faults, arrivals and edits are never owed.
Fairness ==
  /\ \A r \in Request : WF_vars(Step(r)) /\ WF_vars(BecomeLate(r))
  /\ WF_vars(ExpireValue)

FairSpec == Spec /\ Fairness

----------------------------------------------------------------------------
(* Properties. *)

\* Every variable stays within its type; no uncacheable verdict is stored.
TypeOK ==
  /\ row \in Verdict
  /\ value \in Stored \cup {Nil}
  /\ lock \in Request \cup {Nil, Tombstone}
  /\ pc \in [Request -> Stage]
  /\ got \in [Request -> Verdict]
  /\ late \in [Request -> BOOLEAN]
  /\ edits \in Nat /\ silent \in Nat /\ faults \in Nat
  /\ over \in [Request -> BOOLEAN] /\ read \in [Request -> Nat]
  /\ vouched \in BOOLEAN /\ owned \in BOOLEAN /\ stamp \in Nat

\* Only time takes the lock from a leader at work: its TTL, or the tombstone of
\* a leader that outlived its own. Releases, lost replies, fallbacks and crashes
\* never do, so a second leader enters only then (SET NX PX, release script).
LeadersHoldTheLock ==
  \A r \in Request : pc[r] \in Leading /\ ~over[r] => lock = r

\* An edit was committed and its invalidation has not reached Redis yet.
Pending == \E r \in Request : pc[r] = "purging"

\* Whatever leaders, late leaders and fallbacks race for the key, a stored value
\* differs from the row only if a write overlapped the load that produced it, an
\* edit's invalidation failed or is still due, or somebody wrote the row without one
\* (resync, purge, restore, import_v2).
StaleOnlyIfRaced == (value # Nil /\ vouched /\ ~Pending) => value = row

\* Among leaders within their lock's time no verdict in the store gives way to one
\* read before it: the lock keeps their loads and stores in order, although a leader
\* stores unconditionally (get_or_compute). A fallback and a late leader may break it.
VerdictsKeepOrder ==
  [][value # Nil /\ owned /\ value' # Nil /\ owned' => stamp <= stamp']_vars

\* Every request ends, behind crashed leaders and during outages too.
EveryRequestEnds == \A r \in Request : (pc[r] # "idle") ~> (pc[r] = "idle")

\* Once edits and faults stop, Redis agrees with the database for good.
EventuallyFresh == <>[](value \in {Nil, row})
=============================================================================
