--------------------------------- MODULE Sso ---------------------------------
(***************************************************************************)
(* Logins with an identity provider: routers/sso.py and                    *)
(* modules/sso/repository.py, beside the logins of Accounts and behind     *)
(* limiters of the same kind.  What the provider answers is a choice.      *)
(***************************************************************************)
EXTENDS Accounts

CONSTANTS Subject,
          StateTtl,    \* OIDC_STATE_TTL
          Scenes       \* a database, a role of all who signed in before, and bounds:
                       \* how many requests of Accounts, how many of here, until when

ASSUME TtlAssumption == StateTtl \in Nat
ASSUME SceneAssumption ==
  Scenes \subseteq [database : {"sqlite", "postgres"}, role : {"none", "viewer", "admin"},
                    local : Nat, sso : Nat, until : Nat]

VARIABLES
  scene,
  states,   \* table oidc_states
  issued,   \* states made so far
  people,   \* role in table sso_users, by provider and subject
  flow,     \* where a callback stands, with the row and the claims it read
  arrived   \* requests of this module so far

\* History, read by no guard.
VARIABLES
  uses,     \* by state, the callbacks that went on with it
  shared,   \* states consumed while another callback had read them
  last,     \* the role of the last login of each identity
  mixed     \* identities that two logins provisioned at once

State == 1 .. MaxRequests
Identity == Provider \X Subject

login == <<states, issued, people, flow, arrived>>
loginHistory == <<uses, shared, last, mixed>>
ssoVars == <<scene, login, loginHistory>>

Away == [step |-> "away"]

SsoInit ==
  /\ Init
  /\ scene \in Scenes
  /\ states = {} /\ issued = 0
  /\ people = [who \in Identity |-> scene.role]
  /\ flow = [r \in Request |-> Away]
  /\ arrived = 0
  /\ uses = [s \in State |-> 0]
  /\ shared = {}
  /\ last = people
  /\ mixed = {}

----------------------------------------------------------------------------

Stands(r, s) == flow[r].step = s
Depart(r) == flow' = [flow EXCEPT ![r] = Away]

\* A row is held from its SELECT to the commit of its DELETE. On SQLite the
\* prune before it has taken the one write lock.
Holding(s) == {r \in Request : Stands(r, "holding") /\ flow[r].row.state = s}
Writable == scene.database = "sqlite" => \A r \in Request : ~Stands(r, "holding")

Arrival(r, path) ==
  /\ Stands(r, "away")
  /\ Pass(r, path)
  /\ arrived' = arrived + 1
  /\ UNCHANGED <<now, failures, rows, minted, pending, task, proven, spent, crossed, unsettled, scene>>

\* /oidc/{provider}/login: a state, or an error when the provider is not reached.
StartLogin(r, p) ==
  /\ Arrival(r, <<"oidc", p, "login">>)
  /\ \/ /\ Writable
        /\ issued' = issued + 1
        /\ states' = states \cup {[state |-> issued', provider |-> p, expires |-> now + StateTtl]}
     \/ UNCHANGED <<issued, states>>
  /\ UNCHANGED <<people, flow, loginHistory>>

Stale(row) == row.expires < now

\* /oidc/{provider}/callback: the prune and the SELECT of consume. Without a row the
\* prune is committed and the login denied.
Callback(r, s, p) ==
  LET stale == {row \in states : Stale(row)}
      found == {row \in states \ stale : row.state = s} IN
  /\ Arrival(r, <<"oidc", p, "callback">>)
  /\ Writable
  /\ IF found = {}
     THEN states' = states \ stale /\ UNCHANGED flow
     ELSE /\ flow' = [flow EXCEPT ![r] =
               [step |-> "holding", row |-> CHOOSE row \in found : TRUE, by |-> p, pruned |-> stale]]
          /\ UNCHANGED states
  /\ UNCHANGED <<issued, people, loginHistory>>

\* Mutant: the row stays until it expires.
KeepState(r) == states \ flow[r].pruned

Without(r) == (states \ flow[r].pruned) \ {flow[r].row}

\* The DELETE and the commit of both; a row that another callback deleted is no error. A
\* state of another provider, or expired by now, is denied.
Consume(r) ==
  LET row == flow[r].row IN
  /\ Stands(r, "holding")
  /\ states' = Without(r)
  /\ shared' = IF Holding(row.state) = {r} THEN shared ELSE shared \cup {row.state}
  /\ IF row.provider = flow[r].by /\ ~Stale(row)
     THEN /\ flow' = [flow EXCEPT ![r] = [step |-> "exchanging", by |-> row.provider]]
          /\ uses' = [uses EXCEPT ![row.state] = @ + 1]
     ELSE Depart(r) /\ UNCHANGED uses
  /\ UNCHANGED <<issued, arrived, people, last, mixed>>

\* What the provider vouches for: that it does not deny the address, and a group.
Claims == [verified : BOOLEAN, member : BOOLEAN]
RoleOf(claims) == IF claims.verified /\ claims.member THEN "admin" ELSE "viewer"

\* Code for token, token for claims, and the SELECT of upsert_login.
Exchange(r, u, claims) ==
  LET who == <<flow[r].by, u>> IN
  /\ Stands(r, "exchanging")
  /\ flow' = [flow EXCEPT ![r] =
       [step |-> "provisioning", who |-> who, role |-> RoleOf(claims), seen |-> people[who]]]
  /\ UNCHANGED <<states, issued, arrived, people, loginHistory>>

\* Mutant: a returning identity keeps the role of its first login.
KeepRole(r) == IF flow[r].seen = "none" THEN flow[r].role ELSE people[flow[r].who]

\* A session writes the attributes that differ from what it loaded.
Saved(r) == IF flow[r].role = flow[r].seen THEN people[flow[r].who] ELSE flow[r].role

\* The INSERT, which raises if the identity is there by now, or the UPDATE; then a
\* token for an admin, a denial for a viewer.
Provision(r) ==
  LET who == flow[r].who
      beside == {q \in Others(r) : Stands(q, "provisioning") /\ flow[q].who = who} IN
  /\ Stands(r, "provisioning")
  /\ flow[r].seen = "none" => people[who] = "none"
  /\ people' = [people EXCEPT ![who] = Saved(r)]
  /\ last' = [last EXCEPT ![who] = flow[r].role]
  /\ mixed' = IF beside = {} THEN mixed ELSE mixed \cup {who}
  /\ Depart(r)
  /\ UNCHANGED <<states, issued, arrived, uses, shared>>

\* A statement raises or the provider refuses.
Refused(r) ==
  /\ ~Stands(r, "away")
  /\ Depart(r)
  /\ UNCHANGED <<states, issued, arrived, people, loginHistory>>

Proceed(r) ==
  /\ \/ Consume(r)
     \/ \E u \in Subject, claims \in Claims : Exchange(r, u, claims)
     \/ Provision(r)
     \/ Refused(r)
  /\ UNCHANGED <<vars, scene>>

Bounded == requests' - arrived' <= scene.local /\ arrived' <= scene.sso /\ now' <= scene.until

SsoNext ==
  /\ \/ Tick /\ UNCHANGED ssoVars
     \/ \E r \in Request :
          \/ Stands(r, "away") /\ Handle(r) /\ UNCHANGED ssoVars
          \/ \E p \in Provider : StartLogin(r, p)
          \/ \E p \in Provider, s \in State : Callback(r, s, p)
          \/ Proceed(r)
  /\ Bounded

SsoSpec == SsoInit /\ [][SsoNext]_<<vars, ssoVars>>

----------------------------------------------------------------------------

\* "10-minute TTL, one-shot" (oidc_login): one callback goes on with a state, unless
\* on PostgreSQL two had read it before either deleted it.
StatesAreOneShot ==
  \A s \in State : uses[s] > 1 => scene.database = "postgres" /\ s \in shared

\* "refresh profile + role on return" (upsert_login): an identity has the role of
\* its last login, unless two of its logins were provisioned at once.
RolesFollowLogins ==
  \A who \in Identity \ mixed : people[who] = last[who]

=============================================================================
