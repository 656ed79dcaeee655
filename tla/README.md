# redirector in TLA+

TLA+ models of the parts of redirector v3 (`src/backend`) where several
requests, tasks, processes or restarts meet: the lookup cache in its two
implementations, the match it serves, background jobs, upstream checks, backup,
restore and import, teams, and signing in. TLC checks the models on small
instances; TLAPS proves the main safety properties for every value of the
constants. `PROJECT.json` lists, for each definition, the source lines it stands
for.

    tlc -config Lookup.cfg MCLookupCache           # any run of PROJECT.json
    tlapm LookupCache_proof.tla                    # any *_proof module

## The system

redirector answers `GET /<pattern>` with a redirect. One FastAPI process serves
the redirects, the management API and the admin site from one event loop
(`docker/Dockerfile.api` starts a single worker). The database is shared with
`arq` workers when `job_backend = "arq"`, and Redis holds the cache when
`cache_backend = "redis"`.

| Component | State | Operations | Talks to | Hard behaviours | What makes it correct |
|---|---|---|---|---|---|
| Lookup cache in memory: `core/cache.py` `MemoryCache`, `modules/shortcuts/repository.py` | `_store`, `_inflight` of each router's cache | `lookup`, `get_or_compute`, `delete`, expiry | database sessions, edits | requests suspended on each other's futures, a leader that fails, values read before an await and stored after it | no waiter is abandoned, one load per key, login URLs are neither stored nor shared, an entry is stale only for a reason that can be named |
| Lookup cache in Redis: `RedisCache` | one value and one lock per key | `get_or_compute`, `delete`, TTLs | every API process | crashes, lost replies, outages, three TTLs that race | leaders hold the lock and store in the order of their reads, every follower ends, staleness has a cause |
| Shortcuts API: `routers/shortcuts.py` | the `shortcuts` rows | create, update, delete, bulk delete, bulk import, get | lookup cache, database | check-then-write over awaits, commit and invalidate in separate steps | edits reach the readers |
| Redirects: `routers/resolve.py`, `modules/shortcuts/service.py` | a lookup cache of its own | longest-prefix match, substitution | lookup cache | a second cache that edits do not reach; four kinds of pattern | one answer per path |
| Upstreams: `modules/upstreams`, `routers/upstreams.py` | `upstreams`, `upstream_cache`, `upstream_check_log` | check, resync, purge, edit, delete | HTTP, jobs, lookup cache | checks applied after all of them finished, upserts by select and insert, counts by read and write | no row without its upstream, a resync has the last word, no lost count |
| Background jobs: `modules/jobs`, `routers/jobs.py`, `workers/` | `jobs` rows, tasks, broker messages | enqueue, execute, cancel, reap, shutdown | upstreams, backup, arq | tasks and sessions that act on a status read earlier, redelivery, restarts, timeouts | every job settles, settled rows stay, no row is forgotten |
| Backup and restore: `modules/backup` | archives, all domain tables | create, list, restore | jobs | table-by-table commits, a safety archive first, file names chosen by looking | a restore merges by natural key and can be undone, an archive stays as it was written |
| Teams: `routers/teams.py`, `modules/teams` | `teams`, `team_members` | create, add, remove, delete | shortcuts | a team founded in two commits, count-then-delete | a team keeps an admin, no link without its team |
| Accounts, second factor, SSO: `routers/auth.py`, `modules/auth`, `modules/sso` | users, failed logins, settings rows, login states | login, enroll, verify, disable, callback | identity providers | counts before and records after, an enrollment in three commits, codes read and written back | bounded guesses, codes used once, no factor without a seed |
| Rate limit: `core/ratelimit.py` | a deque per client and path | one call per request | | window edges | at most N in any window |
| Settings: `core/config.py` | `settings` rows, environment | get, set | everything | precedence | one effective value |
| Migration: `migrations/import_v2.py` | domain tables | one import | | keys probed before the commit, a second run | nothing that is there changes, nothing is missed |
| Metrics, QR, site, health, CLI, frontend | none that others rely on | views | | | |

## Modules

Every module is plain TLA+ with one action per step. A step is what the code
does between two suspension points of the event loop, or one command a server
executes (a SQL statement or commit, a Redis command).

### `LookupCache` (with `FlightContract`)

One API process with both memory caches: `routers/resolve.py:37` and
`routers/shortcuts.py:52` each call `build_cache`, so `Cache` has two members
and every request uses the one of its router (`CacheOf`).

- State: the two tables by pattern (`shortcut`, `upstream`), the stores and
  flight maps (`store`, `inflight`), and for each request slot its stage,
  operation, pattern, flight and the value it holds.
- A lookup is `Hit`, `Lead` or `Join` (no await lies between the cache read and
  the registration of the future, `cache.py:58-59`), `ReadShortcut` and
  `ReadUpstream` for the two queries of `_miss_load`, `Publish` for what a leader
  does after its factory returned (store, unregister, release: no suspension
  point in `MemoryCache.set`), `TakeShared`, `LoadAlone` or `RaiseShared` for a
  follower, `LeaderFails` and `LoneLoadFails` for a query that raises.
- A target is a model value, in `PlainTarget` or `SsoTarget` by what
  `is_sso_url` answers. `StoreValue` and `Direct` are the two uses the code makes
  of that answer.
- A handler that writes looks up, decides (`Allowed`, `Task`), selects the row
  when the repository does, commits, and then refreshes and invalidates
  (`Settle`), or raises between the two (`SettleFails`). Bulk handlers are one
  item at a time.
- `SilentWrite` is any commit by code that holds neither cache: resync, purge,
  backup restore, import-v2.
- `clean` and `vouched` are history variables: they record that a commit
  overlapped a load, or that a commit reached the database without reaching the
  cache that holds the entry. No action reads them in a guard.

`FlightContract` says what single flight promises and nothing about how: at
most one runner per key, parties wait only while a runner runs, all of them are
released with it, and a run ends. `LookupCache` implements it under the mapping
`Contract`: the runner of a key is the request registered in `_inflight`, its
party the requests suspended on that future.

Not modelled: a request cancelled while it awaits a flight (awaiting a shared
future directly would cancel it; `fut.done()` at `cache.py:72,78` guards the
leader), corrupt stored strings (nothing writes one), expiry of shortcuts,
access counters, listing and search. `MultipleResultsFound` when two upstreams
cache one pattern is a failed load here.

### `RedisFlight`

`RedisCache.get_or_compute` for one key, run by the requests of any number of
processes against one Redis. A request slot stands for its uuid token. Each
Redis command is a step; a command that raises may or may not have happened
(`Fault` with both outcomes): a lock can stand with no owner (`AcquireFails`),
a value can be stored or deleted although the caller saw an error. `Crash` kills
a request with its process. Time is `BecomeLate` (the 5 s window),
`ExpireValue` and `ExpireLock` (10 s, or the tombstone's 5 s), possible whenever
the clock could be running, so slow leaders are included. `Commit` and `Purge`
are the edit; `SilentWrite` is a commit that deletes no key, as those of resync,
purge, restore and import-v2 under this backend too. Hits at arrival change
nothing and are not steps. History: `read` and `stamp` number the state of the
database that a verdict comes from, `owned` says that a leader stored it whose
lock time had not taken, `vouched` that no write is known to have passed it by.

### `Jobs` (with `JobContract`)

Job rows, the executions that move them, the cancels, and the life of the API
process, for both backends: `arq` is chosen at the start.

- `Enqueue` commits the row; `HandOver` creates the tracked task or the broker
  message; between the two the process can die.
- `Fetch` is the read and status guard of `execute_job`; `MarkRunning`,
  `Progress`, `Succeed`, `Fail` are its commits. A SQLAlchemy session writes only
  the attributes that differ from what it loaded, hence `seen` and `Saved`: an
  execution that read RUNNING writes no status in `mark_running`, and progress
  never writes one.
- `stopping` are tasks told to cancel. `CancelledError` is delivered at the next
  suspension point; a commit already under way may complete first (`Onward`) or
  not (`Unwind`).
- A cancel is the router's check (`Ask`), `Pop`, the second read after `gather`
  (`LookAgain`), and the commit (`MarkCancelled`). `"sealing"` is a cancel that
  had a task to wait for, `"writing"` one that had none.
- `Shutdown`, `Exit`, `Crash`, `Boot`, `Reap`, `ReapFails` are the lifespan.
  Workers and the broker outlive the API process.
- External, from how the code uses arq: one execution of a job at a time,
  delivery again after a worker died, no further delivery after a return, an
  exception or `job_timeout`. `MaxFaults` stays below arq's limit on tries.

`JobContract` says who may write a job row, whatever runs the jobs: those who have
read it unfinished hold a claim on it, each writes its own verdicts (the execution
`succeeded` or `failed`, a cancel `cancelled`, the boot `failed`) and at most one of
them, and an enqueue, a crash or an error writes nothing. `Jobs` implements it with
`Claims`: an execution past its read, a cancel past its second one, a boot between
its SELECT and its commit. The contract does not say that the claims of one row
exclude each other, as in the code they do not: that is how a settled row can
still change.

The work of a job, a restore, a backup or a resync, is `Total` progress steps here.
The SSE stream and the list only read.

### `Upstreams`

A run is one resync of an upstream (a request or a job) or one fan-out of a
pattern over all upstreams (the check stream, the browser's 404 page), and it
has an item per pattern and upstream it checks. All items of a run ask at once
and share one database session behind `UpstreamCheckService._lock`.

- `Check` is an answer, judged (`Judge`) when the session is free, and the
  SELECT of `log_check`; `CommitLog` is its UPDATE or INSERT. A resync goes on
  when all checks are in (`Checked`): `SelectRow`, then `Save` or `Clear`.
- A session locks within one run only, so two runs interleave between a SELECT
  and its COMMIT. `seen` is what the SELECT returned; an UPDATE of a row that is
  gone and an INSERT of one that is there raise (`Fail`). `gather` cancels
  nothing, so the other checks of a failed run go on (`Drop`, `CommitLog`).
- `Create`, `Rename`, `Delete`, `Purge`, `ClearLogs` are the handlers of
  `routers/upstreams.py`, one step each. The SELECT, DELETE and COMMIT of a delete
  are one transaction; a resync that begins and commits inside it is left out.
- History: `orphaned`, `raced`, `foreign`, `checks`.

The semaphore of ten only delays. A refresh that raises after the commit ends the
run as `Fail` does. Ids of log rows are taken not to be given out again.

### `Tables`, `Backup`, `ImportV2`, composed by `BulkData`

`Tables` is the database as bulk operations see it, in the order of
`TABLE_MODELS`, with the edits of the API. The tables between shortcuts and
teams differ in their natural key only and are one (`keyed`).

- `Backup`: `Dump` is one SELECT of a table; `ChooseName`, `OpenFile` and
  `FillFile` are the look for a free name, the creation of the file and its
  contents, which other jobs can come between; a restore first does all that as
  its safety backup, then `Apply`s a table per commit. `Stop` is a statement that
  raises, a cancel, or the end of the process.
- `ImportV2`: the probes of existing keys, each in a session of its own, then
  one commit of everything new, or its rollback (`Clash`, a dry run, `Abort`).
- `BulkData` runs both over one database beside one edit.

A restore writes team members by the *dumped* id of their team while teams get
new ids, and it leaves the team of a shortcut out. `RestoreMerges` is about what
it does write; `MatchesUpdateEveryColumn` is what its docstring says of the rest,
which does not hold (see the findings). The tables of one archive may be from
different moments, as the dump is not one snapshot; the code promises nothing of
how they fit together, and neither does a property here.

### `Teams`

Rosters and links by concurrent requests. A request reads in some awaits what it
writes in a later one: `CheckMember` then `Insert`, `ReadRole` and `CountAdmins`
then `Remove`, `CountLinks` then `Delete`, `Post` then `CommitLink`. `Create`
commits the team before its founder's row, and a site admin without an address
never gets one. `database` says whether foreign keys are enforced: `core/db.py`
does not switch them on for SQLite, which also gives the highest id out again
after a deletion (`NextId`), with the members and links that referred to it.
PostgreSQL refuses to delete a team that still has members. A restore, which can
bring members of a dumped id back to whatever team has that id now, is in `Backup`
and not among the causes here.

### `Accounts`

Rate limit, lockout, logins, one user account, the enrollment of the second
factor and its one-time codes, for one client address and one process.
`RateLimit.__call__` has no await, so `Pass` and `Refuse` are one step each. Its
store is keyed by the URL path, so each path has a deque and a limit of its own
(`Path`, `Limit`), whichever routes share a `RateLimit` object; among them are the
login and callback of every identity provider (`OidcPath`). The hit is left before
the handler looks at anything (`Verify`, `Arrival`).
`CountFailures` is the transaction of `failed_logins_since`, `Mistake` that of
`record_failed_login`. The settings `mfa.enabled`, `mfa.secret` and
`mfa.backup_codes` are written one by one (`StageSeed`, `MintCodes`, `DropSeed`,
`DropCodes`, `SetFlag`), and a code is spent by reading the set (`ReadCodes`) and
writing it back (`SpendCode`). A token is a pair of its seed, or its set of
codes, and a number; time is counted in periods. Behind every check that follows
an `enabled` or a seed that was read there is at most one await, so the two are
one step.

### `Sso` (extends `Accounts`)

Logins with an identity provider beside those of `Accounts`, in the same clock
and behind the same limiter, on two paths per provider. `StartLogin` inserts the
login state, or ends in an error (a provider not known, disabled or not reached)
that leaves only its hit. A callback is `Callback` (the prune and the SELECT of `consume`), `Consume`
(the DELETE, the commit, and the checks of provider and expiry that follow),
`Exchange` (code for token for claims, and the SELECT of `upsert_login`) and
`Provision` (the INSERT or UPDATE, and the token or the denial); `Refused` ends it
at any await. What the provider says is a choice: whether it denies the address,
and whether a group of it is mapped (`Claims`, `RoleOf`). On SQLite the prune
takes the one write lock, so nothing comes between the SELECT and the commit
(`Writable`); on PostgreSQL two callbacks may hold one row, and SQLAlchemy takes a
DELETE that hits nothing for success. `Saved` is what the ORM writes: the columns
that differ from what the session loaded, so a role that equals the one loaded
is not written over the one another login has stored meanwhile.

### `Resolve`

One request, lookup by lookup (`LookUp`), over the rows of each moment, then the
legacy scan (`Scan`), the checks in their order (`Outcome`), the substitution
(`Values`) and the count. A path is a sequence of segments, empty ones included;
a row's target is the sequence of its placeholders. A placeholder may have text
before it in its segment (`Stem`): the base that the scan compares is cut there. A
destination is safe or not by the values put into it (`Safe`), and a private row is
its owner's, who is known by an address of either kind, or nobody's. `AnswerIsJustified` compares
the answer with the definition of a match over rows that stood while the request
ran. Edits between two lookups can be met by none, one or both parts of the
search: a dynamic row created after its prefix was tried is still found by the
scan, which strips the slashes that the lookup keeps as empty values.

## Runs

| Run | Checks | Instance |
|---|---|---|
| `lookup` | `TypeOK`, `FlightsHaveLeaders`, `WaitersHaveFlights`, `SsoNeverShared`, `StaleOnlyIfRaced`, `EveryRequestReplies`, `EventuallyFresh`, `MeetsContract` | 3 requests with different roles, 1 pattern, a plain and an SSO target, 1 edit, 1 silent write, under `FairSpec`: 0.41 million states |
| `redis` | `LeadersHoldTheLock`, `StaleOnlyIfRaced`, `VerdictsKeepOrder`, `EveryRequestEnds`, `EventuallyFresh` | 2 requests, 1 edit, 1 silent write, 2 faults, under `FairSpec`: 0.25 million states |
| `jobs` | `TaskGoneBeforeVerdict`, `NoOrphans`, `SettledRowsAreFinal`, `RowsAreClaimed`, `EveryJobSettles` | either runner: 1 job, 3 overlapping cancels, 2 restarts, 2 faults, under `FairSpec`: 69 thousand states |
| `upstream_runs` | `TypeOK`, `RunsCanProceed`, `SessionsAreSerial`, `LoginsAreNotCached`, `OrphansHaveCause`, `LogCountsChecks`, `ResyncHasLastWord` | 2 runs, 2 upstreams, one without `base_url`, 2 patterns, 1 edit |
| `bulk_data` | `RestoreMerges`, `ImportIsComplete`, `ArchivesStand`, `ImportNeverClobbers` | 2 bulk operations of any kinds and 1 edit, 2 databases, 3 archives, one defective and one of an older version: 2.5 million states |
| `teams` | `AdminlessHasCause`, `DanglingHasCause` | 2 addresses, 2 requests at a time and 4 in all, 2 teams, 1 link, both databases |
| `sign_in` | `LockoutBounds`, `CodesAreSingleUse`, `EnrolledWithSeed`, `LimiterIsExact`, `StatesAreOneShot`, `RolesFollowLogins` | 4 scenes: 3 local requests, 1 local request beside 2 of SSO, 4 requests of SSO logins on PostgreSQL, 3 on SQLite; 2 at a time, 2 providers, 3 or 4 moments, a limit of 2 per path and period of 2, 2 codes a set: 0.85 million states |
| `resolve` | `AnswerIsJustified` | every table of 6 kinds of row on 3 patterns, 5 paths, 5 kinds of caller, 1 edit: 1.8 million states |

Why these bounds: the interesting cases of a flight need a leader, a follower
and a write that overlaps them, which the reader, the editor's own lookup and the
silent write give; the redirect has the other cache, which the edit does not reach.
Slots are reused, so late arrivals after a failed leader occur. Patterns never interact except through one
request's successive operations, so one suffices. One edit and one silent write already
reach each way an entry can become stale, and let the row of an edit go, or come,
under it (`CommitFails`); the theorems remove the bounds. In Redis, two faults give a crash followed by a lost reply, two requests a
leader and a follower, and the edit and the silent write together a verdict that is
two writes old; safety for any number is proved. Jobs are related to each other by
boot and shutdown alone, which treat every row and every task alike, and the broker
delivers each message by itself: so the run spends its states on one job and the
cancels of it, under either runner, with two faults for a dead worker and an error
of the store or the queue, and two restarts beside a worker that goes on. Two
upstream runs meet on a row, and an edit comes between; a third run
adds no new pair. A removal race needs two admins and two requests, a dangling
link one of each; the two requests before them build or delete the team. Two bulk
operations of one second and label collide on a name; one edit disturbs either.
The smallest lockout, of one failure, is passed by as many requests as overlap,
and three requests enroll, verify with a code and disable. `Scenes` says how many
requests of each kind there are and how far the clock goes (`until`): a period of
two is the least in which a hit can be at, inside and outside its edge, and a login
state of the same age is just alive, just over, or pruned. Two callbacks meet on one
login state and then on one identity, and a third request has started the login;
local logins and callbacks share nothing but the clock, so the scene that has both
needs only a request or two of each. A limit of two is passed, or not, within three
requests of one path, and a period has more of them when two paths are taken for
one, which four requests of `user_bucket` show. In `Resolve` one edit already
parts the lookups from the scan; with more the set of versions only grows.

The runs of jobs, upstreams, bulk data, teams, signing in and resolving say
`CHECK_DEADLOCK FALSE`: what arrives is bounded, so a state where everything is
settled is a legitimate rest. That no upstream run is stuck is `RunsCanProceed`, which
lists the guards of its steps.

Fairness. Lookup: the event loop resumes each ready task, the database answers
or raises, and an entry's TTL passes; arrivals and edits are never owed. Redis:
the same, and deadlines pass; crashes, faults and silent writes are never owed, nor is
`ExpireLock`, since followers have a deadline of their own. Jobs: tasks, workers
and cancels run on, and the process manager (`restart: unless-stopped`) boots
the API again; faults, crashes and shutdowns are never owed.

Safety in words:

- `FlightsHaveLeaders`, `WaitersHaveFlights`, `FlightsFillEmptyKeys`: the flight
  map names exactly the requests that load, whoever is suspended is suspended on
  a live flight, and a key in flight has no entry.
- `SsoNeverShared`: a login URL reaches only a caller who read it from the
  database.
- `StaleOnlyIfRaced` (in both cache modules): an entry differs from the row only
  if a commit overlapped the load that produced it, came through code that
  does not invalidate this cache, or has not invalidated yet, or failed to.
- `VerdictsKeepOrder`: in Redis a leader stores whatever is there, so a slow one
  could put an old verdict over a newer one. Among leaders the lock prevents it
  for as long as its time lasts.
- `LeadersHoldTheLock`: only time takes a lock from a leader at work.
- `SettledRowsAreFinal`: a terminal row that nobody read as active stays as it is.
  Its hypothesis is needed: see the findings below. Under JobRunner the same
  happens when a cancel arrives between the commit of the row and the
  registration of the task, or when two cancels overlap.
- `RowsAreClaimed`: rows change as `JobContract` says. With it a settled row nobody
  has a claim on is final, under arq too.
- `NoOrphans`: while the API serves, an active row has somebody left to finish
  it, unless a database or broker error took its last step (`broken`).

- `OrphansHaveCause`, `LogCountsChecks`, `ResyncHasLastWord`: a cached row without
  its upstream, a miscounted log and a resync that did not have the last word each
  have one of the races the names in the history variables stand for, and no
  other cause.
- `RestoreMerges`: at every step of a restore nobody disturbs, each row is the
  archive's (but for the team of a shortcut) or the one of the safety archive, by
  natural key; `ArchivesStand`: a
  whole archive changes only by DELETE or when two jobs chose its name at once.
- `ImportNeverClobbers`, `ImportIsComplete`: also when rows come and go between
  the probes and the commit.
- `AdminlessHasCause`, `DanglingHasCause`: without the named races a team keeps
  an admin ("A team always keeps one admin", `routers/teams.py:260`) and a link
  its team. PATCH takes any `team_id`, which is one of the causes.
- `LimiterIsExact`: on each path a limiter lets a request through, or refuses it, as
  the number it has let through there in the last period says, at the period's edges
  too.
  `LockoutBounds`: the lockout is passed by one failure per overlapping login at
  most. `CodesAreSingleUse`: overlapping verifies, or a regeneration beside one,
  bring codes back; nothing else does. `EnrolledWithSeed`: the factor is on with a
  seed that was proven, unless changes overlapped or a disable ended after its
  first commit, which leaves the factor on with no seed.
- `StatesAreOneShot`: one callback goes on with a login state; on PostgreSQL two
  can that read its row before either deleted it. `RolesFollowLogins`: the role in
  the table is that of the last login, unless two logins of one identity were
  provisioned at once.

## Findings

Runs that end in a violation, each of one property that states a comment or
docstring of the code.

| Run | The text | The code |
|---|---|---|
| `edits_invalidate` | "edits invalidate" (`repository.py:208`), "Process-wide lookup cache" (`resolve.py:35`) | an edit invalidates the shortcuts router's cache only; redirects go on with the old row for up to 300 s |
| `restart_survives` | "will requeue instead of failing" (`jobs/repository.py:73-74`) | the boot reaps under arq too, and the worker then skips the job |
| `user_bucket` | "Team-account endpoints share their own bucket", "attackers get no double budget" (`auth.py:57-59`) | the store is keyed by path (`ratelimit.py:75`): sign-up and user login have a budget each, as every SSO provider's login and callback have |
| `restore_columns` | "Matches update every column except the key" (`backup/service.py:319-320`) | the team of a matched shortcut is not among the fields (`service.py:330-342`): the row stays with the team it has now |

The hypotheses of some properties record smaller ones: `mark_running` may
overwrite CANCELLED, `cancel_job` may overwrite a terminal row, `fail()` on a
session whose commit raised raises as well, and a login state is "one-shot"
(`routers/sso.py:95`) only as far as the database makes readers wait.

## Proofs

TLAPS checks, for every value of the constants that satisfies the stated
assumptions (disjoint value sets, `Nat` bounds, no fixed number of requests,
patterns or jobs):

- `LookupCache_proof`: `TypeCorrect`; `FlightSafety` (`FlightsHaveLeaders`,
  `WaitersHaveFlights`, `FlightsFillEmptyKeys`); `SsoSafety`; `StaleSafety`;
  `ImplementsContract`. The three flight properties are inductive only together
  (`Flights`): a leader's end empties the right flight because the map names it,
  and releases every waiter because waiters wait on live flights.
  `StaleOnlyIfRaced` needs `CleanLoads`: what a clean load
  has read so far is what the tables still say; and `Fresh` ties vouched
  entries to that. The refinement maps each step to a step of `FlightContract`
  or to a stutter, using `Flights` to show that a leader's end empties the party.
- `RedisFlight_proof`: `TypeCorrect`; `LockSafety`, by the history variable `over`,
  which `ExpireLock` and `Park` alone set; `StaleSafety`, by the same pair of
  strengthenings (`CleanLoads`: a verdict that no write has overtaken is the row);
  `OrderSafety`, as a leader about to store has read no earlier than the leader
  whose verdict is there (`InOrder`, which needs `LeadersHoldTheLock`: there is one
  such leader at a time).
- `Jobs_proof`: `TypeCorrect`; `CancelSafety`, by the invariant `Handles` (who
  is tracked, told to cancel or awaited, by stage); `OrphanSafety`, by `Custody`
  (which strengthens `NoOrphans` to the times the API is not serving);
  `ImplementsContract`, which maps each step to one of `JobContract`, with `Vacant`:
  outside a reaping boot no row is claimed for it; `SettledSafety`, from the
  contract alone (`ContractKeeps`).
- `Upstreams_proof`: `TypeCorrect`; `LoginSafety`, as no verdict is a login page
  (`NoLogins`); `SessionSafety`, where only a resync reads (`Serial`);
  `OrphanSafety`, as whatever a resync works on has its upstream or lost it with a
  cause (`Caused`); `LogSafety`, as a check that selected its row still knows the
  count (`Counting`); `LastWordSafety`, as each item of a resync knows, at its
  SELECT, whether there is a row, and is once done as its check found it
  (`LastWord`, which needs `Serial`); `ProgressSafety`, as the checks that a failed
  run leaves behind are in flight or at their commit, and never wait for its lock
  (`Leaving`).
- `Teams_proof`: `TypeCorrect`; `AdminSafety`, where a removal past its count has
  another admin beside the one it removes, unless it raced (`Guarded`,
  `AdminKept`); `LinkSafety`, where the team of a link about to be committed and
  the emptiness of a team about to be deleted still hold, unless the two
  overlapped (`LinksKept`).
- `Sso_proof`, first for `Accounts` alone: `CodeSafety`, as the set a request read
  is still the stored one, or that request is marked as crossed (`Current`);
  `EnrollmentSafety`, as whoever is about to turn the factor on has proven the seed
  that is stored, and a seed is staged only under a factor that is off
  (`Enrolling`); `LimiterExactness`, as the deque is what a cut at one place leaves
  of all requests ever let through, those before the cut being over, on each path
  (`Windows`, which speaks of indices since times come in order: `TrimDrops`, `WindowTrim`), so
  that its length is the count of a period; `LockoutSafety`, as the failures stored
  and the requests at their password together stay below the maximum and one per
  request (`Lockout`).
- Then for `Sso`: `OneShotSafety`, where a state that has been used is gone from
  the table unless somebody else had read it (`Used`), which on SQLite cannot be
  (`WriteLock`); `RoleSafety`, where a login about to be provisioned has seen the
  role the table has, unless another is beside it (`Followed`); `FactorSafety`,
  `SsoLimiterExactness` and `SsoLockoutSafety`, as every step of `Sso` is a step or
  a stutter of `Accounts` for what these invariants speak of.
- `Resolve_proof`: `AnswerSafety`, for any segments, patterns, paths and rows. Each
  longer prefix was looked up at a moment at which it had no row that matches
  (`Exhausted`), so there is a choice of rows that stood while the request ran in
  which none of them matches (`SkippingSnapshot`), and in it the row found is the
  match (`Direct`), or the scan's is (`Legacy`), or there is none (`Unmatched`).
- `BulkData_proof`: `ArchiveSafety`, as two jobs past their look for a name have
  different ones or share a spoiled one (`Filing`); `RestoreSafety`, by following a
  restore nobody disturbs: the tables dumped so far are the live ones, the whole
  dump is, and each table applied is merged while the rest are as dumped
  (`Undisturbed`); `ImportSafety`, as a key found by a probe has its row or lost it
  since (`Finding`); `ClobberSafety`, as a commit that goes through meets no row.

The invariants are needed because none of these properties is inductive: each
speaks of what is stored, and depends on what requests under way have read.

Every safety property and action property that a passing run checks is also
proved. Only model-checked: the liveness properties (`EveryRequestReplies`,
`EveryRequestEnds`, both `EventuallyFresh`, `EveryJobSettles`) and the fairness part
of `MeetsContract`, as TLAPS does not reason about fairness and `ENABLED` here, and
the four properties the code does not keep.

## Not modelled

Metrics, QR, site, health, CLI and frontend only read or render. `db.py`,
`errors.py` and `entities.py` are declarations whose constraints appear where
tables are used. Settings are a look-up in a fixed order. Password hashing and
tokens are library calls, scopes and policies pure functions of a request; API
keys are rows inserted, stamped and revoked one by one. The exchange of a login
with the identity provider is the library's: discovery, signatures and claims are
a choice of outcomes in `Sso`, and what the provider makes of a code used twice is
not assumed. The response of a bulk import is left out; its writes are edits
of `LookupCache`. The limiter's store is one per process, so several processes
multiply its budget. Several API processes over one database are outside two of
the models: of
the memory caches (each process would have its own, which an edit elsewhere
never reaches) and of the jobs (the boot of one would reap the rows of all);
the Redis model has any number of them. A commit that raises has not happened
in `Jobs` and `LookupCache`: a connection lost after the server committed is
not distinguished. In `Jobs` a job row is never deleted, as in the code.

## Order of the work

`LookupCache` with `FlightContract`, `RedisFlight`, `Jobs`, `Upstreams`,
`Tables` with `Backup`, `ImportV2` and `BulkData`, `Teams`, `Accounts` with `Sso`,
`Resolve`: each is there with its runs and proofs. What
would add most next: the job that a restore runs in, as a composition of `Jobs`
and `Backup`, and several API processes over one database.
