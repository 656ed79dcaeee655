---------------------------- MODULE LookupCache ----------------------------
(***************************************************************************)
(* Shortcut lookup through the in-memory cache of one API process: the     *)
(* redirect hot path and the shortcuts API, each with the MemoryCache its  *)
(* router builds, the miss path behind a single flight, and the edits that *)
(* commit to the database and then invalidate the editing router's cache.  *)
(*                                                                         *)
(* A step is what runs between two suspension points of the event loop, or *)
(* one statement executed by the database.                                 *)
(***************************************************************************)
EXTENDS Naturals

CONSTANTS
  Request,        \* slots of concurrently served HTTP requests
  Pattern,        \* sanitized shortcut patterns
  PlainTarget,    \* targets is_sso_url answers False for
  SsoTarget,      \* targets is_sso_url answers True for
  NoTarget,       \* no row
  NoRequest,
  Offers,         \* Offers[r]: the operations slot r is used for
  MaxEdits,       \* bound: editing requests accepted
  MaxSilent       \* bound: writes by code that never touches these caches

Op == {"resolve", "read", "create", "update", "delete", "bulkDelete", "import"}
EditOp == Op \ {"resolve", "read"}
LookupOp == Op \ {"bulkDelete"}

Target == PlainTarget \cup SsoTarget

ASSUME TargetAssumption ==
  /\ PlainTarget \cap SsoTarget = {}
  /\ NoTarget \notin Target
ASSUME RequestAssumption == NoRequest \notin Request
ASSUME OffersAssumption == Offers \in [Request -> SUBSET Op]
ASSUME BoundAssumption == MaxEdits \in Nat /\ MaxSilent \in Nat

\* resolve.py and shortcuts.py each call build_cache once per process.
Cache == {"resolve", "shortcuts"}

Row == Target \cup {NoTarget}

(***************************************************************************)
(* What a lookup can hold or return. "shortcut" and "upstream" name the    *)
(* table the target came from and "miss" is the negative sentinel; "empty" *)
(* is an absent store entry, "none" Python's None shared by a flight whose *)
(* verdict must not be cached, "failed" the exception a flight shares.     *)
(***************************************************************************)
Outcome == [from : {"shortcut", "upstream", "miss", "empty", "none", "failed"}, url : Row]

Found(table, t) == [from |-> table, url |-> t]
\* Mutant: the sentinel string itself, undecoded.
RawSentinel == [from |-> "__redirector_miss__", url |-> NoTarget]
Missing     == [from |-> "miss",   url |-> NoTarget]
Empty       == [from |-> "empty",  url |-> NoTarget]
Uncacheable == [from |-> "none",   url |-> NoTarget]
Failed      == [from |-> "failed", url |-> NoTarget]

VARIABLES
  shortcut,   \* the Shortcut table: target by pattern
  upstream,   \* the UpstreamCache table: resolved_url by pattern
  store,      \* MemoryCache._store of each router; an expired entry is Empty
  inflight,   \* MemoryCache._inflight: the request whose future is registered
  pc,         \* where each request is suspended
  op,         \* the operation it serves
  pat,        \* the pattern it looks up or edits
  flight,     \* the request whose flight it leads or waits on
  val,        \* what it has read, shares or answers
  edits,      \* editing requests accepted so far
  silent,     \* silent writes so far
  clean,      \* history: nothing committed to the pattern since the load began
  vouched     \* history: the entry comes from a clean load and every later
              \* commit to its pattern went through the entry's own router

request == <<pc, op, pat, flight, val>>
vars == <<shortcut, upstream, store, inflight, pc, op, pat, flight, val,
          edits, silent, clean, vouched>>

Loading == {"readShortcut", "readUpstream", "loaded"}
Waiting == {"waiting", "released"}
Editing == {"selecting", "committing", "settling"}
Stage == {"idle", "answered"} \cup Loading \cup Waiting \cup Editing

CacheOf(o) == IF o = "resolve" THEN "resolve" ELSE "shortcuts"
At(r) == CacheOf(op[r])

\* Mutant: only the Shortcut table's verdict is checked.
StoreUpstreamSso(v) == IF v.from = "shortcut" /\ v.url \in SsoTarget THEN Uncacheable ELSE v

\* _miss_load: an SSO verdict of either table is never a store value ...
StoreValue(v) == IF v.url \in SsoTarget THEN Uncacheable ELSE v
\* ... and an SSO upstream row resolves to nothing even for its reader.
Direct(v) == IF v.from = "upstream" /\ v.url \in SsoTarget THEN Missing ELSE v

\* The verdict _miss_load reaches when nothing changes while it reads.
Current(p) ==
  IF shortcut[p] # NoTarget THEN Found("shortcut", shortcut[p])
  ELSE IF upstream[p] # NoTarget THEN Found("upstream", upstream[p])
  ELSE Missing

Init ==
  /\ shortcut \in [Pattern -> Row]
  /\ upstream \in [Pattern -> Row]
  /\ store = [c \in Cache |-> [p \in Pattern |-> Empty]]
  /\ inflight = [c \in Cache |-> [p \in Pattern |-> NoRequest]]
  /\ pc = [r \in Request |-> "idle"]
  /\ op = [r \in Request |-> "resolve"]
  /\ pat \in [Request -> Pattern]
  /\ flight = [r \in Request |-> NoRequest]
  /\ val = [r \in Request |-> Empty]
  /\ edits = 0
  /\ silent = 0
  /\ clean = [r \in Request |-> TRUE]
  /\ vouched = [c \in Cache |-> [p \in Pattern |-> TRUE]]

database == <<shortcut, upstream, silent>>
caches == <<store, inflight, vouched>>

----------------------------------------------------------------------------
(* Lookup: repository.lookup, _cold_lookup and MemoryCache.get_or_compute. *)

\* A request arrives. No suspension point lies between it and the cache read.
Accept(r, o, p) ==
  /\ pc[r] = "idle"
  /\ o \in Offers[r]
  /\ o \in EditOp => edits < MaxEdits
  /\ edits' = IF o \in EditOp THEN edits + 1 ELSE edits
  /\ op' = [op EXCEPT ![r] = o]
  /\ pat' = [pat EXCEPT ![r] = p]
  /\ UNCHANGED <<database, clean>>

Hit(r, o, p) ==
  LET c == CacheOf(o) IN
  /\ Accept(r, o, p)
  /\ o \in LookupOp
  /\ store[c][p] # Empty
  /\ val' = [val EXCEPT ![r] = store[c][p]]
  /\ pc' = [pc EXCEPT ![r] = "answered"]
  /\ UNCHANGED <<caches, flight>>

\* First cold caller: registers its future and runs the factory.
Lead(r, o, p) ==
  LET c == CacheOf(o) IN
  /\ Accept(r, o, p)
  /\ o \in LookupOp
  /\ store[c][p] = Empty
  /\ inflight[c][p] = NoRequest
  /\ inflight' = [inflight EXCEPT ![c][p] = r]
  /\ flight' = [flight EXCEPT ![r] = r]
  /\ pc' = [pc EXCEPT ![r] = "readShortcut"]
  /\ UNCHANGED <<store, vouched, val>>

Join(r, o, p) ==
  LET c == CacheOf(o) IN
  /\ Accept(r, o, p)
  /\ o \in LookupOp
  /\ store[c][p] = Empty
  /\ inflight[c][p] # NoRequest
  /\ flight' = [flight EXCEPT ![r] = inflight[c][p]]
  /\ pc' = [pc EXCEPT ![r] = "waiting"]
  /\ UNCHANGED <<caches, val>>

\* The Shortcut query executes; a row ends the load.
ReadShortcut(r) ==
  LET t == shortcut[pat[r]] IN
  /\ pc[r] = "readShortcut"
  /\ IF t # NoTarget
       THEN /\ val' = [val EXCEPT ![r] = Found("shortcut", t)]
            /\ pc' = [pc EXCEPT ![r] = "loaded"]
       ELSE /\ pc' = [pc EXCEPT ![r] = "readUpstream"]
            /\ UNCHANGED val
  /\ UNCHANGED <<database, caches, op, pat, flight, edits, clean>>

\* The UpstreamCache query executes, only after the first one found no row.
ReadUpstream(r) ==
  LET t == upstream[pat[r]] IN
  /\ pc[r] = "readUpstream"
  /\ val' = [val EXCEPT ![r] = IF t = NoTarget THEN Missing ELSE Found("upstream", t)]
  /\ pc' = [pc EXCEPT ![r] = "loaded"]
  /\ UNCHANGED <<database, caches, op, pat, flight, edits, clean>>

\* Mutant: the leader never resolves its future.
NoFollowers(r) == {}

\* The requests suspended on r's future.
Followers(r) == {q \in Request : pc[q] = "waiting" /\ flight[q] = r}

\* Mutant: the finished future stays in the flight map.
KeepRegistered(c, p) == UNCHANGED inflight

Unregister(c, p) == inflight' = [inflight EXCEPT ![c][p] = NoRequest]

\* The leader resumes: store unless uncacheable, unregister, release followers.
Publish(r) ==
  LET c == At(r)
      p == pat[r]
      v == StoreValue(val[r])
  IN
  /\ pc[r] = "loaded"
  /\ flight[r] = r
  /\ IF v # Uncacheable
       THEN /\ store' = [store EXCEPT ![c][p] = v]
            /\ vouched' = [vouched EXCEPT ![c][p] = clean[r]]
       ELSE UNCHANGED <<store, vouched>>
  /\ Unregister(c, p)
  /\ pc' = [q \in Request |-> IF q = r THEN "answered"
                              ELSE IF q \in Followers(r) THEN "released" ELSE pc[q]]
  /\ val' = [q \in Request |-> IF q = r THEN Direct(val[r])
                               ELSE IF q \in Followers(r) THEN v ELSE val[q]]
  /\ flight' = [flight EXCEPT ![r] = NoRequest]
  /\ clean' = [clean EXCEPT ![r] = TRUE]
  /\ UNCHANGED <<database, op, pat, edits>>

\* Mutant: the lone caller stores what it read.
AnswerAndStore(r) ==
  /\ pc[r] = "loaded"
  /\ flight[r] # r
  /\ store' = [store EXCEPT ![At(r)][pat[r]] = val[r]]
  /\ pc' = [pc EXCEPT ![r] = "answered"]
  /\ UNCHANGED <<database, inflight, vouched, op, pat, flight, val, edits, clean>>

\* A caller whose run is nobody's future serves its own read and stores nothing.
AnswerAlone(r) ==
  /\ pc[r] = "loaded"
  /\ flight[r] # r
  /\ val' = [val EXCEPT ![r] = Direct(@)]
  /\ pc' = [pc EXCEPT ![r] = "answered"]
  /\ clean' = [clean EXCEPT ![r] = TRUE]
  /\ UNCHANGED <<database, caches, op, pat, flight, edits>>

\* The handler ends; its slot can serve the next request.
Finished(r) ==
  /\ pc' = [pc EXCEPT ![r] = "idle"]
  /\ op' = [op EXCEPT ![r] = "resolve"]
  /\ val' = [val EXCEPT ![r] = Empty]
  /\ flight' = [flight EXCEPT ![r] = NoRequest]
  /\ UNCHANGED <<pat, edits>>

\* A query of the load raises: unregister, share the exception, re-raise.
LeaderFails(r) ==
  /\ pc[r] \in {"readShortcut", "readUpstream"}
  /\ flight[r] = r
  /\ Unregister(At(r), pat[r])
  /\ pc' = [q \in Request |-> IF q = r THEN "idle"
                              ELSE IF q \in Followers(r) THEN "released" ELSE pc[q]]
  /\ val' = [q \in Request |-> IF q = r THEN Empty
                               ELSE IF q \in Followers(r) THEN Failed ELSE val[q]]
  /\ op' = [op EXCEPT ![r] = "resolve"]
  /\ flight' = [flight EXCEPT ![r] = NoRequest]
  /\ clean' = [clean EXCEPT ![r] = TRUE]
  /\ UNCHANGED <<database, store, vouched, pat, edits>>

LoneLoadFails(r) ==
  /\ pc[r] \in {"readShortcut", "readUpstream"}
  /\ flight[r] # r
  /\ Finished(r)
  /\ clean' = [clean EXCEPT ![r] = TRUE]
  /\ UNCHANGED <<database, caches>>

\* A released follower takes the shared value, ...
TakeShared(r) ==
  /\ pc[r] = "released"
  /\ val[r] \notin {Uncacheable, Failed}
  /\ pc' = [pc EXCEPT ![r] = "answered"]
  /\ flight' = [flight EXCEPT ![r] = NoRequest]
  /\ UNCHANGED <<database, caches, op, pat, val, edits, clean>>

\* Mutant: a follower with nothing to take awaits the same future again.
AwaitAgain(r) == pc[r] = "released" /\ val[r] = Uncacheable /\ UNCHANGED vars

\* ... runs the factory itself when there is none to take, ...
LoadAlone(r) ==
  /\ pc[r] = "released"
  /\ val[r] = Uncacheable
  /\ val' = [val EXCEPT ![r] = Empty]
  /\ pc' = [pc EXCEPT ![r] = "readShortcut"]
  /\ flight' = [flight EXCEPT ![r] = NoRequest]
  /\ UNCHANGED <<database, caches, op, pat, edits, clean>>

\* ... or raises the leader's exception.
RaiseShared(r) ==
  /\ pc[r] = "released"
  /\ val[r] = Failed
  /\ Finished(r)
  /\ UNCHANGED <<database, caches, clean>>

\* Mutant: an entry stored without an expiry time.
NeverExpire(c, p) == store[c][p] # Empty /\ UNCHANGED vars

\* The TTL of a stored entry passes: the next get pops it and misses.
Expire(c, p) ==
  /\ store[c][p] # Empty
  /\ store' = [store EXCEPT ![c][p] = Empty]
  /\ UNCHANGED <<database, request, inflight, edits, clean, vouched>>

----------------------------------------------------------------------------
(* Edits: the handlers of routers/shortcuts.py and the repository's writes. *)

\* Which write the handler goes on to: an import item is an insert or an update
\* by what the lookup answered.
Task(r) ==
  IF op[r] \in {"delete", "bulkDelete"} THEN "remove"
  ELSE IF op[r] = "create" \/ (op[r] = "import" /\ val[r] = Missing) THEN "insert"
  ELSE "change"

\* The answer lets the handler write: 409 for create, 404 for update and delete
\* otherwise, an upstream pseudo-row not being a Shortcut.
Allowed(r) ==
  \/ op[r] = "create" /\ val[r] = Missing
  \/ op[r] \in {"update", "delete"} /\ val[r].from = "shortcut"
  \/ op[r] = "import"

Reply(r) ==
  /\ pc[r] = "answered"
  /\ ~Allowed(r)
  /\ Finished(r)
  /\ UNCHANGED <<database, caches, clean>>

Proceed(r) ==
  /\ pc[r] = "answered"
  /\ Allowed(r)
  /\ pc' = [pc EXCEPT ![r] = IF Task(r) = "insert" THEN "committing" ELSE "selecting"]
  /\ UNCHANGED <<database, caches, op, pat, flight, val, edits, clean>>

\* bulk_delete calls repo.delete without a lookup.
BulkDelete(r, p) ==
  /\ Accept(r, "bulkDelete", p)
  /\ pc' = [pc EXCEPT ![r] = "selecting"]
  /\ UNCHANGED <<caches, flight, val>>

\* repo.update and repo.delete select the row first; no row, no write.
SelectRow(r) ==
  /\ pc[r] = "selecting"
  /\ IF shortcut[pat[r]] = NoTarget
       THEN Finished(r)
       ELSE /\ pc' = [pc EXCEPT ![r] = "committing"]
            /\ UNCHANGED <<op, pat, flight, val, edits>>
  /\ UNCHANGED <<database, caches, clean>>

\* A commit to p: loads of p in progress may have read the old row.
Outdate(p) ==
  clean' = [q \in Request |-> IF pc[q] \in Loading /\ pat[q] = p THEN FALSE ELSE clean[q]]

\* The commit succeeds: the row is t, the editing router's entry still stands.
Commit(r, t) ==
  LET p == pat[r] IN
  /\ pc[r] = "committing"
  /\ \/ Task(r) = "insert" /\ shortcut[p] = NoTarget /\ t \in Target
     \/ Task(r) = "change" /\ shortcut[p] # NoTarget /\ t \in Target
     \/ Task(r) = "remove" /\ t = NoTarget
  /\ shortcut' = [shortcut EXCEPT ![p] = t]
  /\ pc' = [pc EXCEPT ![r] = "settling"]
  /\ vouched' = [c \in Cache |-> [vouched[c] EXCEPT ![p] = @ /\ c = At(r)]]
  /\ Outdate(p)
  /\ UNCHANGED <<upstream, silent, store, inflight, op, pat, flight, val, edits>>

\* The insert hits the unique pattern, or the changed row is gone: 409, skipped, 500.
CommitFails(r) ==
  /\ pc[r] = "committing"
  /\ \/ Task(r) = "insert" /\ shortcut[pat[r]] # NoTarget
     \/ Task(r) = "change" /\ shortcut[pat[r]] = NoTarget
  /\ Finished(r)
  /\ UNCHANGED <<database, caches, clean>>

\* Mutant: the key is built from a spelling no lookup uses.
MissInvalidation(c, p) == UNCHANGED store

Invalidate(c, p) == store' = [store EXCEPT ![c][p] = Empty]

\* refresh re-reads the row (a delete does not), then the cache entry is dropped.
Settle(r) ==
  /\ pc[r] = "settling"
  /\ Task(r) # "remove" => shortcut[pat[r]] # NoTarget
  /\ Invalidate(At(r), pat[r])
  /\ Finished(r)
  /\ UNCHANGED <<database, inflight, vouched, clean>>

\* refresh raises: the row is gone again or the query fails. The write stays
\* committed and the entry stays cached.
SettleFails(r) ==
  /\ pc[r] = "settling"
  /\ Task(r) # "remove"
  /\ vouched' = [vouched EXCEPT ![At(r)][pat[r]] = FALSE]
  /\ Finished(r)
  /\ UNCHANGED <<database, store, inflight, clean>>

----------------------------------------------------------------------------
(* Writes of code that holds neither cache: upstream resync, purge and     *)
(* restore, import_v2.                                                     *)

SilentWrite(p, s, u) ==
  /\ silent < MaxSilent
  /\ silent' = silent + 1
  /\ <<s, u>> # <<shortcut[p], upstream[p]>>
  /\ shortcut' = [shortcut EXCEPT ![p] = s]
  /\ upstream' = [upstream EXCEPT ![p] = u]
  /\ vouched' = [c \in Cache |-> [vouched[c] EXCEPT ![p] = FALSE]]
  /\ Outdate(p)
  /\ UNCHANGED <<store, inflight, request, edits>>

Arrive(r) ==
  \/ \E o \in Op, p \in Pattern : Hit(r, o, p) \/ Lead(r, o, p) \/ Join(r, o, p)
  \/ \E p \in Pattern : BulkDelete(r, p)

Step(r) ==
  \/ ReadShortcut(r) \/ ReadUpstream(r) \/ Publish(r) \/ AnswerAlone(r)
  \/ LeaderFails(r) \/ LoneLoadFails(r)
  \/ TakeShared(r) \/ LoadAlone(r) \/ RaiseShared(r)
  \/ Reply(r) \/ Proceed(r) \/ SelectRow(r)
  \/ \E t \in Row : Commit(r, t)
  \/ CommitFails(r) \/ Settle(r) \/ SettleFails(r)

Next ==
  \/ \E r \in Request : Arrive(r) \/ Step(r)
  \/ \E c \in Cache, p \in Pattern : Expire(c, p)
  \/ \E p \in Pattern, s \in Row, u \in Row : SilentWrite(p, s, u)

Spec == Init /\ [][Next]_vars

\* The loop resumes every ready task, the database answers or raises, and time
\* passes. Arrivals, edits and silent writes are never owed.
Fairness ==
  /\ \A r \in Request : WF_vars(Step(r))
  /\ \A c \in Cache, p \in Pattern : WF_vars(Expire(c, p))

FairSpec == Spec /\ Fairness

----------------------------------------------------------------------------
(* Properties. *)

\* Every variable stays within its type.
TypeOK ==
  /\ shortcut \in [Pattern -> Row]
  /\ upstream \in [Pattern -> Row]
  /\ store \in [Cache -> [Pattern -> Outcome]]
  /\ inflight \in [Cache -> [Pattern -> Request \cup {NoRequest}]]
  /\ pc \in [Request -> Stage]
  /\ op \in [Request -> Op]
  /\ pat \in [Request -> Pattern]
  /\ flight \in [Request -> Request \cup {NoRequest}]
  /\ val \in [Request -> Outcome]
  /\ edits \in Nat
  /\ silent \in Nat
  /\ clean \in [Request -> BOOLEAN]
  /\ vouched \in [Cache -> [Pattern -> BOOLEAN]]

\* The flight map names exactly the requests that lead a load of that key: no
\* future outlives its leader, no two leaders load one key (get_or_compute).
FlightsHaveLeaders ==
  \A r \in Request, c \in Cache, p \in Pattern :
    inflight[c][p] = r <=> /\ pc[r] \in Loading
                           /\ flight[r] = r
                           /\ At(r) = c
                           /\ pat[r] = p

\* A request suspended on a future waits for a live flight of its own key.
WaitersHaveFlights ==
  \A r \in Request :
    pc[r] = "waiting" => /\ flight[r] \in Request
                         /\ inflight[At(r)][pat[r]] = flight[r]

\* A key in flight has no stored entry: nothing but its leader fills it.
FlightsFillEmptyKeys ==
  \A c \in Cache, p \in Pattern : inflight[c][p] # NoRequest => store[c][p] = Empty

\* SSO targets are never stored, and never shared between requests: whoever
\* answers with one has read it from the database itself (v2 rule, _miss_load).
SsoNeverShared ==
  /\ \A c \in Cache, p \in Pattern : store[c][p].url \notin SsoTarget
  /\ \A r \in Request : pc[r] = "released" => val[r].url \notin SsoTarget

\* r has committed an edit of p through router c and not yet invalidated it.
Pending(c, p) == \E r \in Request : pc[r] = "settling" /\ At(r) = c /\ pat[r] = p

\* The only ways to a stale entry: a load that a commit overlapped, a write
\* behind the router's back (the other router, resync, restore, a refresh that
\* failed), or an edit about to invalidate it.
StaleOnlyIfRaced ==
  \A c \in Cache, p \in Pattern :
    (store[c][p] # Empty /\ vouched[c][p] /\ ~Pending(c, p)) => store[c][p] = Current(p)

\* Every accepted request replies, so each slot is free again and again: a slow or
\* failed leader blocks nobody for ever.
EveryRequestReplies == \A r \in Request : []<>(pc[r] = "idle")

\* Once writes stop, the caches come to agree with the database and stay so:
\* staleness does not outlive the TTL by being handed from flight to flight.
EventuallyFresh ==
  <>[](\A c \in Cache, p \in Pattern : store[c][p] \in {Empty, StoreValue(Current(p))})

\* Coalescing as promised: one shared run per key, waiters released with it.
Contract == INSTANCE FlightContract WITH
  Caller <- Request,
  Key    <- Cache \X Pattern,
  Nobody <- NoRequest,
  runner <- [k \in Cache \X Pattern |-> inflight[k[1]][k[2]]],
  party  <- [k \in Cache \X Pattern |->
              {r \in Request : pc[r] = "waiting" /\ At(r) = k[1] /\ pat[r] = k[2]}]
MeetsContract == Contract!FairSpec

\* "edits invalidate" (repository.py _parse) over every cache of the process:
\* with no edit between commit and invalidation, no entry differs from the row.
EditsInvalidate ==
  \A c \in Cache, p \in Pattern :
    (\A r \in Request : pc[r] # "settling") => store[c][p] \in {Empty, Current(p)}
=============================================================================
