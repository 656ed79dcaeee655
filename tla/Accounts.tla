------------------------------- MODULE Accounts -------------------------------
(***************************************************************************)
(* Signing in: routers/auth.py with modules/auth/repository.py,            *)
(* core/ratelimit.py and the lockout of core/security.py.  The two-factor  *)
(* enrollment is three rows of the settings table, and every one of them   *)
(* is read and written in a transaction of its own.  One client address.   *)
(***************************************************************************)
EXTENDS Integers, Sequences, FiniteSets, FiniteSetsExt

CONSTANTS Request,                     \* slots for requests
          Provider,                    \* identity providers: their routes are limited as well
          Limit, Period,               \* RateLimit("5/minute"), by path
          MaxFailures, LockoutWindow,  \* settings auth_lockout_*
          CodesPerSet,
          MaxTime, MaxRequests         \* bounds

\* The URL paths behind a limiter. Whichever routes share a RateLimit, its store is
\* keyed by request.url.path, so a path counts by itself, and so does a provider's.
AdminLogin == <<"login">>
UserLogin == <<"user", "login">>
UserSignUp == <<"signup">>
MfaVerify == <<"mfa", "verify">>
OidcPath == {"oidc"} \X Provider \X {"login", "callback"}
Path == {AdminLogin, UserLogin, UserSignUp, MfaVerify} \cup OidcPath
Time == 0 .. MaxTime
NoSeed == 0
Set == 0 .. MaxRequests                \* the first set of codes, and those minted since
Seed == 1 .. MaxRequests + 1
Code == Set \X (1 .. CodesPerSet)

ASSUME RequestAssumption == IsFiniteSet(Request)
ASSUME LimitAssumption == Limit \in [Path -> Nat \ {0}] /\ Period \in Nat \ {0}
ASSUME LockoutAssumption == MaxFailures \in Nat \ {0} /\ LockoutWindow \in Nat
ASSUME BoundAssumption == CodesPerSet \in Nat /\ MaxTime \in Nat /\ MaxRequests \in Nat

VARIABLES
  now,
  hits,       \* rate_limit_store: times of the requests let through, per path
  failures,   \* table login_attempts: the times of its rows
  account,    \* one user account
  enabled, seed, codes,   \* settings mfa.enabled, mfa.secret, mfa.backup_codes
  pending,    \* a pending token is out
  task,       \* where a request stands: its step, its token, the codes it read
  seeds, sets,\* minted so far
  requests

\* History, read by no guard.
VARIABLES
  passed,     \* times of all requests let through, per path
  proven,     \* seeds a token of which was verified
  spent,      \* codes exchanged for a token
  crossed,    \* a write of the codes crossed a request that had read them
  unsettled   \* enrollment changes overlapped, or a mfa/disable ended half way

clock == <<now, hits, failures>>
rows == <<account, enabled, seed, codes>>
minted == <<seeds, sets>>
history == <<passed, proven, spent, crossed, unsettled>>
vars == <<clock, rows, minted, pending, task, requests, history>>

Nothing == <<NoSeed, 0>>
Idle == [step |-> "idle", token |-> Nothing, seen |-> {}]
Checking == {"admin", "user"}          \* the password, of whom
Changing == {"staging", "staged", "proving", "minting", "minted",
             "leaving", "withdrawing", "withdrawn", "cleared"}
Steps == {"idle", "counting", "counting user", "asking", "matching", "reading", "spending"}
           \cup Checking \cup Changing

Init ==
  /\ now = 0
  /\ hits = [p \in Path |-> <<>>]
  /\ failures = <<>>
  /\ account \in {"none", "active", "disabled"}
  /\ enabled \in BOOLEAN
  /\ seed = IF enabled THEN 1 ELSE NoSeed
  /\ codes = IF enabled THEN {0} \X (1 .. CodesPerSet) ELSE {}
  /\ pending \in {FALSE, enabled}
  /\ task = [r \in Request |-> Idle]
  /\ seeds = 1 /\ sets = 0 /\ requests = 0
  /\ passed = [p \in Path |-> <<>>]
  /\ proven = {1}
  /\ spent = {} /\ crossed = FALSE /\ unsettled = FALSE

----------------------------------------------------------------------------

At(r, s) == task[r].step = s
GoOn(r, s) == task' = [task EXCEPT ![r].step = s]
Finish(r) == task' = [task EXCEPT ![r] = Idle]
Begin(r, s, t) == task' = [task EXCEPT ![r] = [step |-> s, token |-> t, seen |-> {}]]
Arrive(r) == At(r, "idle") /\ requests < MaxRequests /\ requests' = requests + 1

Others(r) == Request \ {r}

\* Times are recorded in order, so those that are over come first.
Trim(times, over) ==
  LET kept == {i \in DOMAIN times : times[i] \notin over} IN
  IF kept = {} THEN <<>> ELSE SubSeq(times, Min(kept), Len(times))

\* Mutant: a hit of exactly one period ago still counts.
ExpiredLate == {t \in Time : t < now - Period}

Expired == {t \in Time : t <= now - Period}

Live(p) == Trim(hits[p], Expired)

\* RateLimit.__call__: no await in it. A refused request leaves no hit.
Limited(p) == Len(Live(p)) >= Limit[p]

Refuse(r, p) ==
  /\ Arrive(r)
  /\ Limited(p)
  /\ hits' = [hits EXCEPT ![p] = Live(p)]
  /\ UNCHANGED <<now, failures, rows, minted, pending, task, history>>

Pass(r, p) ==
  /\ Arrive(r)
  /\ ~Limited(p)
  /\ hits' = [hits EXCEPT ![p] = Append(Live(p), now)]
  /\ passed' = [passed EXCEPT ![p] = Append(@, now)]

\* /login and /user/login, behind their limiters.
Login(r, p) ==
  /\ Pass(r, p)
  /\ Begin(r, IF p = UserLogin THEN "counting user" ELSE "counting", Nothing)
  /\ UNCHANGED <<now, failures, rows, minted, pending, proven, spent, crossed, unsettled>>

Forgotten == {t \in Time : t < now - LockoutWindow}
Recent == Trim(failures, Forgotten)

\* Mutant: one failure too many.
LockedLate(n) == n > MaxFailures

Locked(n) == n >= MaxFailures

\* failed_logins_since prunes, counts and commits in one transaction.
CountFailures(r) ==
  /\ task[r].step \in {"counting", "counting user"}
  /\ failures' = Recent
  /\ IF Locked(Len(Recent)) THEN Finish(r)
     ELSE GoOn(r, IF At(r, "counting user") THEN "user" ELSE "admin")
  /\ UNCHANGED <<now, hits, rows, minted, pending, requests, history>>

\* A wrong password, or no such account: record_failed_login.
Mistake(r) ==
  /\ task[r].step \in Checking
  /\ failures' = Append(failures, now)
  /\ Finish(r)
  /\ UNCHANGED <<now, hits, rows, minted, pending, requests, history>>

\* The user has a token now, or a 403 if disabled; the admin may have a second factor.
Match(r) ==
  /\ \/ At(r, "admin") /\ GoOn(r, "asking")
     \/ At(r, "user") /\ account # "none" /\ Finish(r)
  /\ UNCHANGED <<clock, rows, minted, pending, requests, history>>

\* A full token, or a pending one when the second factor is on by now.
AskFactor(r) ==
  /\ At(r, "asking")
  /\ pending' = (pending \/ enabled)
  /\ Finish(r)
  /\ UNCHANGED <<clock, rows, minted, requests, history>>

\* /signup: an account is made once.
SignUp(r) ==
  /\ Pass(r, UserSignUp)
  /\ account' = IF account = "none" THEN "active" ELSE account
  /\ UNCHANGED <<now, failures, enabled, seed, codes, minted, pending, task, proven, spent, crossed, unsettled>>

\* An admin disables and enables it.
SetDisabled(r, a) ==
  /\ Arrive(r)
  /\ account # "none"
  /\ account' = a
  /\ UNCHANGED <<clock, enabled, seed, codes, minted, pending, task, history>>

----------------------------------------------------------------------------

\* The enrollment is written while another change of it is under way.
Settle(r) ==
  unsettled' = (unsettled \/ \E s \in Others(r) : task[s].step \in Changing)

\* The codes are written while another request has read them.
Cross(r) ==
  crossed' = (crossed \/ \E s \in Others(r) : At(s, "spending"))

quiet == <<clock, account, pending, requests, passed>>

\* mfa/setup stages a seed, once it has seen the factor off; then it says off again.
Setup(r) ==
  /\ Arrive(r)
  /\ ~enabled
  /\ Begin(r, "staging", Nothing)
  /\ UNCHANGED <<clock, rows, minted, pending, history>>

StageSeed(r) ==
  /\ At(r, "staging")
  /\ seeds' = seeds + 1
  /\ seed' = seeds'
  /\ GoOn(r, "staged")
  /\ Settle(r)
  /\ UNCHANGED <<quiet, enabled, codes, sets, proven, spent, crossed>>

\* mfa/enable with the factor off, and backup-codes:regenerate with it on.
Prove(r, t) ==
  /\ Arrive(r)
  /\ Begin(r, "proving", t)
  /\ UNCHANGED <<clock, rows, minted, pending, history>>

\* Mutant: any token will do.
AnyToken(r) == TRUE

\* The token of the request is of the seed in the settings.
Verifies(r) == seed # NoSeed /\ task[r].token = <<seed, 0>>

VerifySeed(r) ==
  /\ At(r, "proving")
  /\ Verifies(r)
  /\ proven' = proven \cup {task[r].token[1]}
  /\ GoOn(r, "minting")
  /\ UNCHANGED <<quiet, enabled, seed, codes, minted, spent, crossed, unsettled>>

\* MfaRepository.enable: fresh codes, then the flag.
MintCodes(r) ==
  /\ At(r, "minting")
  /\ sets' = sets + 1
  /\ codes' = {sets'} \X (1 .. CodesPerSet)
  /\ GoOn(r, "minted")
  /\ Settle(r) /\ Cross(r)
  /\ UNCHANGED <<quiet, enabled, seed, seeds, proven, spent>>

\* mfa/disable, with a token: the seed goes, the codes go, the flag goes.
Withdraw(r, t) ==
  /\ Arrive(r)
  /\ enabled
  /\ Begin(r, "leaving", t)
  /\ UNCHANGED <<clock, rows, minted, pending, history>>

VerifyLeaving(r) ==
  /\ At(r, "leaving")
  /\ Verifies(r)
  /\ GoOn(r, "withdrawing")
  /\ UNCHANGED <<quiet, enabled, seed, codes, minted, proven, spent, crossed, unsettled>>

DropSeed(r) ==
  /\ At(r, "withdrawing")
  /\ seed' = NoSeed
  /\ GoOn(r, "withdrawn")
  /\ Settle(r)
  /\ UNCHANGED <<quiet, enabled, codes, minted, proven, spent, crossed>>

DropCodes(r) ==
  /\ At(r, "withdrawn")
  /\ codes' = {}
  /\ GoOn(r, "cleared")
  /\ Settle(r) /\ Cross(r)
  /\ UNCHANGED <<quiet, enabled, seed, minted, proven, spent>>

\* The last step of the three.
SetFlag(r) ==
  /\ task[r].step \in {"staged", "minted", "cleared"}
  /\ enabled' = At(r, "minted")
  /\ Finish(r)
  /\ Settle(r)
  /\ UNCHANGED <<quiet, seed, codes, minted, proven, spent, crossed>>

----------------------------------------------------------------------------

\* mfa/verify: the limiter first, then a pending token and the factor on, or a 401
\* or 400 that has left its hit.
Verify(r, t) ==
  /\ Pass(r, MfaVerify)
  /\ IF pending /\ enabled THEN Begin(r, "matching", t) ELSE UNCHANGED task
  /\ UNCHANGED <<now, failures, rows, minted, pending, proven, spent, crossed, unsettled>>

\* The seed's token signs in; any other is looked for among the codes ...
MatchSeed(r) ==
  /\ At(r, "matching")
  /\ IF Verifies(r) THEN Finish(r) ELSE GoOn(r, "reading")
  /\ UNCHANGED <<clock, rows, minted, pending, requests, history>>

\* ... which are read here (no match is a 401) ...
ReadCodes(r) ==
  /\ At(r, "reading")
  /\ task[r].token \in codes
  /\ task' = [task EXCEPT ![r].step = "spending", ![r].seen = codes]
  /\ UNCHANGED <<clock, rows, minted, pending, requests, history>>

\* Mutant: the code that matched is kept.
All(r) == task[r].seen

Remaining(r) == task[r].seen \ {task[r].token}

\* ... and written back without the one that matched.
SpendCode(r) ==
  /\ At(r, "spending")
  /\ codes' = Remaining(r)
  /\ spent' = spent \cup {task[r].token}
  /\ Finish(r)
  /\ Cross(r)
  /\ UNCHANGED <<quiet, enabled, seed, minted, proven, unsettled>>

\* A request ends with an error status, or because a statement raised.
Fail(r) ==
  /\ ~At(r, "idle")
  /\ Finish(r)
  /\ unsettled' = (unsettled \/ task[r].step \in {"withdrawn", "cleared"})
  /\ UNCHANGED <<clock, rows, minted, pending, requests, passed, proven, spent, crossed>>

Tick ==
  /\ now < MaxTime
  /\ now' = now + 1
  /\ UNCHANGED <<hits, failures, rows, minted, pending, task, requests, history>>

----------------------------------------------------------------------------

\* What a client can know: tokens of the seeds and codes handed out.
SeedTokens == (1 .. seeds) \X {0}
Codes == (0 .. sets) \X (1 .. CodesPerSet)

Handle(r) ==
  \/ \E p \in Path : Refuse(r, p)
  \/ \E p \in {AdminLogin, UserLogin} : Login(r, p)
  \/ CountFailures(r) \/ Mistake(r) \/ Match(r) \/ AskFactor(r)
  \/ SignUp(r)
  \/ \E a \in {"active", "disabled"} : SetDisabled(r, a)
  \/ Setup(r) \/ StageSeed(r)
  \/ \E t \in SeedTokens : Prove(r, t) \/ Withdraw(r, t)
  \/ VerifySeed(r) \/ MintCodes(r)
  \/ VerifyLeaving(r) \/ DropSeed(r) \/ DropCodes(r)
  \/ SetFlag(r)
  \/ \E t \in SeedTokens \cup Codes : Verify(r, t)
  \/ MatchSeed(r) \/ ReadCodes(r) \/ SpendCode(r)
  \/ Fail(r)

Next == Tick \/ \E r \in Request : Handle(r)

Spec == Init /\ [][Next]_vars

----------------------------------------------------------------------------

\* What a sliding window is: the requests let through in the period before now.
InPeriod(p) == Cardinality({i \in DOMAIN passed[p] : passed[p][i] > now - Period})

\* "5/minute" (RateLimit): on every path a request is refused exactly when the period
\* before it has let through as many there as the limit.
LimiterIsExact ==
  [][\A p \in Path :
       /\ passed'[p] # passed[p] => InPeriod(p) < Limit[p]
       /\ (\E r \in Request : Refuse(r, p)) => InPeriod(p) >= Limit[p]]_vars

\* "Team-account endpoints share their own bucket" and "attackers get no double budget"
\* (user_limiter): in a period signups and user logins together stay below one limit.
UserRoutesShareABucket ==
  InPeriod(UserLogin) + InPeriod(UserSignUp) <= Limit[UserLogin]

\* The lockout counts, and later records: overlapping logins go past the maximum
\* by one each at most (failed_logins_since, record_failed_login).
LockoutBounds ==
  Len(Recent) <= MaxFailures - 1 + Cardinality(Request)

\* "Single-use" and "old codes die": unless a write of the codes crossed a request
\* that had read them, no spent code and no code of an earlier set is accepted.
CodesAreSingleUse == ~crossed => codes \cap spent = {} /\ codes \subseteq {sets} \X (1 .. CodesPerSet)

\* "Nothing is enabled until a token from the new seed verifies": the factor is on
\* with a verified seed, unless changes overlapped or a disable ended half way.
EnrolledWithSeed ==
  ~unsettled /\ enabled /\ (\A r \in Request : task[r].step \notin {"withdrawn", "cleared"})
    => seed \in proven

=============================================================================
