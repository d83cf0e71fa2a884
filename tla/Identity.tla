------------------------------ MODULE Identity ------------------------------
(***************************************************************************)
(* Who may manage the control plane: the first administrator (from the     *)
(* environment or through the setup endpoint), login and logout, session   *)
(* and API tokens, and the management of users and API tokens.             *)
(*                                                                         *)
(* Each HTTP request is a member of Calls and runs one store access at a   *)
(* time.  A managing request is one that auth.Require guards: it reads the *)
(* token it presents, then the token's user, then (for an API token)       *)
(* records the use, and only then does what it asks for; no lock spans two *)
(* of these accesses, so tokens and users change in between.  A request    *)
(* that is never answered is a call that takes no further step.            *)
(*                                                                         *)
(* Abstractions.  A token is its hash, and only who was given it presents  *)
(* it.  A request presents one token: AuthenticateRequest takes the Bearer *)
(* token before the cookie, Logout the cookie before the Bearer token.     *)
(* An e-mail address is the user it names; only an administrator created   *)
(* by setup or bootstrap has a password, and knows it.                     *)
(***************************************************************************)
EXTENDS Integers

CONSTANTS
  Calls,        \* HTTP requests; each is handled once
  Users,        \* user ids
  Sessions,     \* session tokens IssueToken can draw
  ApiTokens,    \* API tokens generateToken can draw
  None,         \* a null pointer or an empty string
  NewStatuses,  \* the status fields of PUT /users/{id}
  TokenTTL,     \* Config.AuthTokenTTL
  Deployments   \* what the system may be run with, see Deployment

Tokens == Sessions \cup ApiTokens
Statuses == {"active", "disabled", "locked"}
Managing == {"read", "create_api_token", "revoke_api_token", "create_user",
             "update_user", "disable_user"}
Ops == Managing \cup {"setup", "login", "logout"}

ASSUME TokenAssumption ==
  /\ Sessions \cap ApiTokens = {}
  /\ None \notin Users \cup Tokens \cup Nat \cup Statuses

(* A store and its failures, and the bounds on what the requests ask for *)
Deployment ==
  [memory : BOOLEAN,                \* the memory store, or MySQL
   faulty : SUBSET Calls,           \* the calls whose store accesses may fail
   kinds : [Calls -> SUBSET Ops],   \* what each request may be
   accounts : SUBSET Users,         \* the user ids that are given out or named
   until : Nat]                     \* the last value of the clock

ASSUME ParameterAssumption ==
  /\ NewStatuses \subseteq Statuses \cup {None}
  /\ TokenTTL \in Nat
  /\ Deployments \subseteq Deployment

VARIABLES
  deployment, \* chosen when the system starts
  users,      \* users.status, "absent" before the row exists
  password,   \* the users that have a password
  owner,      \* user_id of sessions and api_tokens, None before the row exists
  expires,    \* their expires_at
  revoked,    \* the tokens whose revoked_at is set
  used,       \* the API tokens whose last_used_at is set
  loginLog,   \* login logs
  auditLog,   \* audit events
  now,        \* the clock
  pc,         \* the handler's next step
  req,        \* what the request asks for
  reply,      \* the outcome the handler has decided on
  before,     \* history: the changes that were answered when a call arrived
  arrived     \* history: when a call arrived

userRows == <<users, password>>
tokenRows == <<owner, expires, revoked, used>>
rows == <<userRows, tokenRows>>
logs == <<loginLog, auditLog>>
history == <<before, arrived>>
vars == <<deployment, rows, logs, now, pc, req, reply, history>>

MemoryStore == deployment.memory
Faulty == deployment.faulty
Accounts == deployment.accounts

Requests == [op : Ops,
             tok : Tokens \cup {None},
             target : Users \cup ApiTokens \cup {None},
             status : Statuses \cup {None}]
Ask(op, t, x, s) == [op |-> op, tok |-> t, target |-> x, status |-> s]

(* bootstrapInitialAdminIfConfigured has run before the first request *)
Bootstrapped(admin) ==
  /\ users = [u \in Users |-> IF u \in admin THEN "active" ELSE "absent"]
  /\ password = admin
  /\ auditLog = {[action |-> "bootstrap_initial_admin", target |-> u] : u \in admin}

Init ==
  /\ deployment \in Deployments
  /\ Bootstrapped({}) \/ \E u \in Accounts : Bootstrapped({u})
  /\ owner = [t \in Tokens |-> None]
  /\ expires = [t \in Tokens |-> None]
  /\ revoked = {}
  /\ used = {}
  /\ loginLog = {}
  /\ now = 0
  /\ pc = [c \in Calls |-> "idle"]
  /\ req = [c \in Calls |-> Ask("read", None, None, None)]
  /\ reply = [c \in Calls |-> "none"]
  /\ before = [c \in Calls |-> {}]
  /\ arrived = [c \in Calls |-> 0]

-----------------------------------------------------------------------------
(* Steps shared by the handlers *)

(* The request changed the store, whether or not its audit event was written *)
Changed(c, op) == req[c].op = op /\ reply[c] \in {"ok", "internal_error"}

(* The changes that close something to the requests that arrive later *)
Closing(c) ==
  \E op \in {"setup", "logout", "revoke_api_token", "disable_user", "update_user"} :
    Changed(c, op)

Arrive(c, r, step) ==
  /\ pc[c] = "idle"
  /\ r.op \in deployment.kinds[c]
  /\ pc' = [pc EXCEPT ![c] = step]
  /\ req' = [req EXCEPT ![c] = r]
  /\ before' = [before EXCEPT ![c] = {k \in Calls : pc[k] = "done" /\ Closing(k)}]
  /\ arrived' = [arrived EXCEPT ![c] = now]
  /\ UNCHANGED <<deployment, rows, logs, now, reply>>

Goto(c, from, to) ==
  /\ pc[c] = from
  /\ pc' = [pc EXCEPT ![c] = to]
  /\ UNCHANGED <<deployment, now, history>>

Decide(c, outcome) == reply' = [reply EXCEPT ![c] = outcome]

Exists(u) == users[u] # "absent"
Active(u) == users[u] = "active"

(* The session tokens and API tokens that clients hold: a session token   *)
(* leaves the API in the answer to its login, an API token in the answer  *)
(* to its creation, which is an error when the audit write failed.        *)
Held ==
  {req[c].tok : c \in {k \in Calls : pc[k] = "done" /\ req[k].op = "login"
                                     /\ reply[k] = "ok"}}
  \cup {req[c].target : c \in {k \in Calls : pc[k] = "done" /\ reply[k] = "ok"
                                             /\ req[k].op = "create_api_token"}}

InsertUser(u, pw, status) ==
  /\ users' = [users EXCEPT ![u] = status]
  /\ password' = password \cup pw
  /\ UNCHANGED tokenRows

InsertToken(t, u, until) ==
  /\ owner' = [owner EXCEPT ![t] = u]
  /\ expires' = [expires EXCEPT ![t] = until]
  /\ UNCHANGED <<userRows, revoked, used>>

SetRevoked(t) ==
  /\ revoked' = revoked \cup {t}
  /\ UNCHANGED <<userRows, owner, expires, used>>

-----------------------------------------------------------------------------
(* POST /setup/admin *)

SetupArrive(c) == Arrive(c, Ask("setup", None, None, None), "count")

(* Variant: setup that does not look whether it is needed *)
UsersUncounted(c) ==
  /\ Goto(c, "count", "create")
  /\ UNCHANGED <<rows, logs, req, reply>>

CountUsers(c) ==
  /\ IF \E u \in Users : Exists(u)
     THEN Goto(c, "count", "done") /\ Decide(c, "conflict")
     ELSE Goto(c, "count", "create") /\ UNCHANGED reply
  /\ UNCHANGED <<rows, logs, req>>

(* The users are not counted again *)
CreateAdmin(c) ==
  /\ Goto(c, "create", "audit")
  /\ \E u \in Accounts :
       /\ ~Exists(u)
       /\ InsertUser(u, {u}, "active")
       /\ req' = [req EXCEPT ![c].target = u]
  /\ Decide(c, "ok")
  /\ UNCHANGED logs

(* A write that reports an error may still have happened, here and below *)
SetupFails(c) ==
  /\ c \in Faulty
  /\ \/ Goto(c, "count", "done") /\ UNCHANGED rows
     \/ Goto(c, "create", "done") /\ UNCHANGED rows
     \/ /\ Goto(c, "create", "done")
        /\ \E u \in Accounts : ~Exists(u) /\ InsertUser(u, {u}, "active")
  /\ Decide(c, "failed")
  /\ UNCHANGED <<logs, req>>

-----------------------------------------------------------------------------
(* POST /auth/login and POST /auth/logout *)

LoginArrive(c) ==
  \E u \in Accounts : Arrive(c, Ask("login", None, u, None), "find")

(* Variant: a refused login is not logged *)
FindUserUnlogged(c) ==
  LET u == req[c].target IN
  /\ IF u \in password /\ Active(u)
     THEN Goto(c, "find", "session") /\ UNCHANGED reply
     ELSE Goto(c, "find", "done") /\ Decide(c, "denied")
  /\ UNCHANGED <<rows, logs, req>>

(* RecordUserLogin, which changes timestamps only, is part of this step *)
FindUserByEmail(c) ==
  LET u == req[c].target IN
  /\ IF u \in password /\ Active(u)
     THEN Goto(c, "find", "session") /\ UNCHANGED reply
     ELSE Goto(c, "find", "log") /\ Decide(c, IF u \in password THEN "denied" ELSE "failed")
  /\ UNCHANGED <<rows, logs, req>>

(* The status read before is not read again *)
CreateSession(c) ==
  /\ Goto(c, "session", "log")
  /\ \E t \in Sessions :
       /\ owner[t] = None
       /\ InsertToken(t, req[c].target, now + TokenTTL)
       /\ req' = [req EXCEPT ![c].tok = t]
  /\ Decide(c, "ok")
  /\ UNCHANGED logs

CreateSessionFails(c) ==
  /\ c \in Faulty
  /\ Goto(c, "session", "log")
  /\ \/ UNCHANGED rows
     \/ \E t \in Sessions :
          owner[t] = None /\ InsertToken(t, req[c].target, now + TokenTTL)
  /\ Decide(c, "failed")
  /\ UNCHANGED <<logs, req>>

LoginRow(c) ==
  [call |-> c, status |-> IF reply[c] = "ok" THEN "succeeded" ELSE reply[c]]

(* recordLoginLog ignores an error of the store *)
RecordLoginLog(c) ==
  /\ Goto(c, "log", "done")
  /\ \/ loginLog' = loginLog \cup {LoginRow(c)}
     \/ c \in Faulty /\ UNCHANGED loginLog
  /\ UNCHANGED <<rows, auditLog, req, reply>>

LogoutArrive(c) ==
  \E t \in Held \cap Sessions : Arrive(c, Ask("logout", t, None, None), "revoke")

(* A token ParseToken finds expired is not looked up *)
RevokeSession(c) ==
  LET t == req[c].tok IN
  /\ Goto(c, "revoke", "done")
  /\ IF now > expires[t] THEN UNCHANGED rows ELSE SetRevoked(t)
  /\ Decide(c, "ok")
  /\ UNCHANGED <<logs, req>>

RevokeSessionFails(c) ==
  /\ c \in Faulty
  /\ Goto(c, "revoke", "done")
  /\ SetRevoked(req[c].tok) \/ UNCHANGED rows
  /\ Decide(c, "failed")
  /\ UNCHANGED <<logs, req>>

-----------------------------------------------------------------------------
(* Authentication of a managing request *)

ManageArrive(c) ==
  \E t \in Held :
    \/ Arrive(c, Ask("read", t, None, None), "token")
    \/ Arrive(c, Ask("create_api_token", t, None, None), "token")
    \/ \E x \in ApiTokens : Arrive(c, Ask("revoke_api_token", t, x, None), "token")
    \/ Arrive(c, Ask("create_user", t, None, None), "token")
    \/ \E u \in Accounts :
         \/ Arrive(c, Ask("disable_user", t, u, None), "token")
         \/ \E s \in NewStatuses : Arrive(c, Ask("update_user", t, u, s), "token")

Refuse(c, from) ==
  /\ Goto(c, from, "done")
  /\ Decide(c, "unauthenticated")
  /\ UNCHANGED <<rows, logs, req>>

(* Variant: still good at the instant of expiry *)
ExpiredAfter(t) == expires[t] # None /\ now > expires[t]

Expired(t) == expires[t] # None /\ now >= expires[t]

(* Variant: revoked_at is not looked at *)
UnexpiredOnly(t) == ~Expired(t)

Accepts(t) == t \notin revoked /\ ~Expired(t)

FindToken(c) ==
  /\ Goto(c, "token", "user")
  /\ Accepts(req[c].tok)
  /\ UNCHANGED <<rows, logs, req, reply>>

TokenRefused(c) ==
  /\ Refuse(c, "token")
  /\ ~Accepts(req[c].tok) \/ c \in Faulty

(* Variant: the status of the token's user is not tested *)
FindAnyUser(c) ==
  /\ Goto(c, "user", IF req[c].tok \in ApiTokens THEN "record" ELSE "act")
  /\ UNCHANGED <<rows, logs, req, reply>>

FindUserByID(c) ==
  /\ Goto(c, "user", IF req[c].tok \in ApiTokens THEN "record" ELSE "act")
  /\ Active(owner[req[c].tok])
  /\ UNCHANGED <<rows, logs, req, reply>>

UserRefused(c) ==
  /\ Refuse(c, "user")
  /\ ~Active(owner[req[c].tok]) \/ c \in Faulty

(* The use is recorded on the row, whose other fields stay; a failure to *)
(* record it is ignored.                                                 *)
RecordAPITokenUsed(c) ==
  /\ Goto(c, "record", "act")
  /\ \/ used' = used \cup {req[c].tok}
     \/ c \in Faulty /\ UNCHANGED used
  /\ UNCHANGED <<userRows, owner, expires, revoked, logs, req, reply>>

-----------------------------------------------------------------------------
(* What a managing request does once it is authenticated *)

Is(c, op) == req[c].op = op

Read(c) ==
  /\ Is(c, "read")
  /\ Goto(c, "act", "done")
  /\ Decide(c, "ok")
  /\ UNCHANGED <<rows, logs, req>>

(* expires_at is absent or in the future *)
CreateAPIToken(c) ==
  \E t \in ApiTokens, until \in {None, now + TokenTTL} :
    /\ Is(c, "create_api_token")
    /\ owner[t] = None
    /\ InsertToken(t, owner[req[c].tok], until)
    /\ req' = [req EXCEPT ![c].target = t]

RevokeAPIToken(c) ==
  /\ Is(c, "revoke_api_token")
  /\ owner[req[c].target] # None
  /\ SetRevoked(req[c].target)
  /\ UNCHANGED req

(* A user created here has no password; MySQL takes the status it is sent *)
CreateUser(c) ==
  \E u \in Accounts, s \in (IF MemoryStore THEN {"active"} ELSE Statuses) :
    /\ Is(c, "create_user")
    /\ ~Exists(u)
    /\ InsertUser(u, {}, s)
    /\ req' = [req EXCEPT ![c].target = u]

(* Variant: the status is written as it was sent *)
StatusAsSent(c) == req[c].status

(* An update that names no status: MySQL writes active *)
StatusWritten(c) ==
  IF req[c].status # None THEN req[c].status
  ELSE IF MemoryStore THEN users[req[c].target]
  ELSE "active"

SetStatus(u, s) ==
  /\ Exists(u)
  /\ users' = [users EXCEPT ![u] = s]
  /\ UNCHANGED <<password, tokenRows, req>>

UpdateUser(c) == Is(c, "update_user") /\ SetStatus(req[c].target, StatusWritten(c))

DisableUser(c) == Is(c, "disable_user") /\ SetStatus(req[c].target, "disabled")

Change(c) ==
  CreateAPIToken(c) \/ RevokeAPIToken(c) \/ CreateUser(c) \/ UpdateUser(c)
  \/ DisableUser(c)

Act(c) ==
  /\ Goto(c, "act", "audit")
  /\ Change(c)
  /\ Decide(c, "ok")
  /\ UNCHANGED logs

(* The row the request names is missing, or its address is taken, which *)
(* only MySQL's unique key finds out.                                   *)
Missing(c) ==
  \/ Is(c, "revoke_api_token") /\ owner[req[c].target] = None
  \/ req[c].op \in {"update_user", "disable_user"} /\ ~Exists(req[c].target)
  \/ Is(c, "create_user") /\ ~MemoryStore /\ \E u \in Users : Exists(u)

ActRefused(c) ==
  /\ Goto(c, "act", "done")
  /\ Missing(c)
  /\ Decide(c, "refused")
  /\ UNCHANGED <<rows, logs, req>>

ActFails(c) ==
  /\ c \in Faulty
  /\ Goto(c, "act", "done")
  /\ Change(c) \/ UNCHANGED <<rows, req>>
  /\ Decide(c, "failed")
  /\ UNCHANGED logs

Event(c) == [action |-> req[c].op, target |-> req[c].target]

WriteAudit(c) ==
  /\ Goto(c, "audit", "done")
  /\ auditLog' = auditLog \cup {Event(c)}
  /\ UNCHANGED <<rows, loginLog, req, reply>>

(* Variant: the API token is handed out although it is not on record *)
AuditErrorIgnored(c) ==
  /\ c \in Faulty
  /\ Goto(c, "audit", "done")
  /\ UNCHANGED <<rows, logs, req, reply>>

(* The change stays when its audit event cannot be written *)
AuditFails(c) ==
  /\ c \in Faulty
  /\ Goto(c, "audit", "done")
  /\ Decide(c, "internal_error")
  /\ UNCHANGED <<rows, logs, req>>

Tick ==
  /\ now < deployment.until
  /\ now' = now + 1
  /\ UNCHANGED <<deployment, rows, logs, pc, req, reply, history>>

Public(c) ==
  SetupArrive(c) \/ CountUsers(c) \/ CreateAdmin(c) \/ SetupFails(c)
  \/ LoginArrive(c) \/ FindUserByEmail(c) \/ CreateSession(c)
  \/ CreateSessionFails(c) \/ RecordLoginLog(c)
  \/ LogoutArrive(c) \/ RevokeSession(c) \/ RevokeSessionFails(c)

Authenticate(c) ==
  ManageArrive(c) \/ FindToken(c) \/ TokenRefused(c) \/ FindUserByID(c)
  \/ UserRefused(c) \/ RecordAPITokenUsed(c)

Manage(c) == Read(c) \/ Act(c) \/ ActRefused(c) \/ ActFails(c)

Next ==
  \/ \E c \in Calls :
       Public(c) \/ Authenticate(c) \/ Manage(c) \/ WriteAudit(c) \/ AuditFails(c)
  \/ Tick

Spec == Init /\ [][Next]_vars

-----------------------------------------------------------------------------
(* Properties *)

(* Types of the state: one status per user, one row per token. *)
TypeOK ==
  /\ deployment \in Deployments
  /\ users \in [Users -> Statuses \cup {"absent"}]
  /\ password \subseteq Users
  /\ owner \in [Tokens -> Users \cup {None}]
  /\ expires \in [Tokens -> Nat \cup {None}]
  /\ revoked \subseteq Tokens
  /\ used \subseteq ApiTokens
  /\ loginLog \subseteq [call : Calls, status : {"succeeded", "failed", "denied"}]
  /\ auditLog \subseteq [action : Ops \cup {"bootstrap_initial_admin"},
                         target : Users \cup ApiTokens]
  /\ now \in Nat
  /\ pc \in [Calls -> {"idle", "count", "create", "find", "session", "log",
                       "revoke", "token", "user", "record", "act", "audit", "done"}]
  /\ req \in [Calls -> Requests]
  /\ reply \in [Calls -> {"none", "ok", "conflict", "denied", "failed", "refused",
                          "unauthenticated", "internal_error"}]
  /\ before \in [Calls -> SUBSET Calls]
  /\ arrived \in [Calls -> Nat]

(* A request that got past auth.Require *)
Served(c) ==
  /\ req[c].op \in Managing
  /\ pc[c] \in {"act", "audit", "done"}
  /\ reply[c] # "unauthenticated"

Revokes(c, t) ==
  \/ Changed(c, "logout") /\ req[c].tok = t
  \/ Changed(c, "revoke_api_token") /\ req[c].target = t

(* docs/security-policy.md: "logout revokes the stored session hash so an  *)
(* old Bearer session token cannot be reused", and API tokens are          *)
(* authenticated while unrevoked: once a logout or a revocation has been   *)
(* answered, no request that arrives later is served for that token,       *)
(* whatever requests that use it are still under way.                      *)
RevokedTokenRefused ==
  \A c, d \in Calls : c \in before[d] /\ Revokes(c, req[d].tok) => ~Served(d)

Disables(c, u) ==
  /\ req[c].target = u
  /\ \/ Changed(c, "disable_user")
     \/ Changed(c, "update_user") /\ req[c].status \in {"disabled", "locked"}

Activates(c, u) ==
  /\ Is(c, "update_user") /\ req[c].target = u
  /\ req[c].status = "active" \/ (req[c].status = None /\ ~MemoryStore)
  /\ pc[c] \in {"audit", "done"}

ActsAs(c, u) ==
  \/ Served(c) /\ owner[req[c].tok] = u
  \/ Is(c, "login") /\ req[c].target = u /\ reply[c] = "ok"

(* Once disabling or locking a user has been answered, no request that     *)
(* arrives later is served or logged in as that user, unless an update     *)
(* that was not answered before it made the user active again; this also   *)
(* covers a session that a login under way creates after the disabling.    *)
DisabledUserRefused ==
  \A c, d \in Calls : \A u \in Users :
    c \in before[d] /\ Disables(c, u) /\ ActsAs(d, u)
      => \E e \in Calls : Activates(e, u) /\ e \notin before[c]

(* A request that arrived when its token had expired is never served. *)
ServedInTime ==
  \A c \in Calls :
    Served(c) => expires[req[c].tok] = None \/ arrived[c] < expires[req[c].tok]

(* An API token works only if its creation is on record: when the audit    *)
(* write fails the raw token never leaves the API.                         *)
TokensOnRecord ==
  \A c \in Calls :
    Served(c) /\ req[c].tok \in ApiTokens
      => [action |-> "create_api_token", target |-> req[c].tok] \in auditLog

(* A login log that reads succeeded has its session, and every answered    *)
(* login whose own store accesses do not fail has its log.                 *)
LoginsOnRecord ==
  \A c \in Calls :
    /\ [call |-> c, status |-> "succeeded"] \in loginLog
         => req[c].tok \in Sessions /\ owner[req[c].tok] = req[c].target
    /\ Is(c, "login") /\ pc[c] = "done" /\ c \notin Faulty => LoginRow(c) \in loginLog

(* Setup is closed once a setup has been answered, or an administrator was *)
(* there from the start.                                                   *)
SetupClosed ==
  \A d \in Calls :
    Changed(d, "setup")
      => /\ \A c \in before[d] : ~Changed(c, "setup")
         /\ \A e \in auditLog : e.action # "bootstrap_initial_admin"

(* docs/security-policy.md: setup is for when "no users exist": at most    *)
(* one request creates an initial administrator.                           *)
SetupOnce ==
  \A c, d \in Calls : Changed(c, "setup") /\ Changed(d, "setup") => c = d
=============================================================================
