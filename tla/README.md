# OpenDesk Remote in TLA+

OpenDesk Remote is a control plane for RustDesk: a Go HTTP API over a MySQL or an
in-memory store, workers that build custom clients, an admin user interface, and
patches that let the relay server ask the API whether it may relay a session.
This directory holds TLA+ modules of the parts where requests, workers,
administrators and operators meet, the TLC configurations that check them, and
TLAPS proofs, for any number of actors and items, of every invariant and action property
that the passing runs check.

Source paths below are relative to `src/api/internal` unless they start with `src/`.

## The system and its parts

Every request runs in its own goroutine, in any number of API processes over one
MySQL database. The memory store has one mutex, held for one store call; MySQL
calls are single statements except where a call opens a transaction. Nothing
locks two store calls together. That is the source of most behaviours below:
**a handler acts on what it read before.** All handlers write their audit event
after the change, so an error there answers 500 although the change stays.

| Component | State it keeps | Operations | What is hard | What makes it correct |
|---|---|---|---|---|
| Relay grants (`relaygrant/`) | grant rows: status, binding, expiry, used time | issue, validate (hbbr asks), revoke | read, judge and write are separate; hbbr gives up after 3 s; store write errors leave the answer and the row apart; the clock | one use per grant for requests that follow each other, revocation bars, no acceptance after expiry or for another target or relay, answers on record |
| Builds (`builds/`, `buildworker/`) | profiles, jobs, artifacts | create, change, delete profile; queue, cancel, retry job; claim, run, record, finish | workers race for the oldest job; cancel and retry act on a copy; processes die anywhere | one worker per job, no overtaking, a job that reads succeeded is complete, ended jobs stay ended, every job is served |
| Sessions and authentication (`auth/`), users (`users/`), API tokens (`apitokens/`), setup (`setup/`, `app/store.go`) | users, sessions, tokens, login log | setup, login, logout, authenticate; create, change, disable users; create and revoke tokens | token, user and action are three accesses; logins under way while a user is disabled; last-used writes over a revoked row; two first administrators | a revoked token or a disabled user is not served later, setup closes, nothing works that is not on record |
| Policies (`policies/`, `access/`, `strategy/`) | access rules, strategies, assignments, control roles | CRUD; evaluate access; resolve a strategy | the effective strategy is read in many statements while administrators change it; a control role is read back in two; precedence; list limits | documented precedence, deny wins, secure fallback; an answered change stands |
| Devices (`devices/`) | devices, groups, members | register, update, disable, group membership, effective strategy | the effective strategy as above; the row is read again after a change, for the answer and the audit event | an answered change stands until somebody asks for something else; the status is on record |
| Relays (`relays/`) | relay rows: status, sessions, health | create, update, heartbeat, disable | a heartbeat under way when the relay is disabled; MySQL counts changed rows and whole seconds | a heartbeat that names no status leaves a disabled relay disabled; a relay that exists is found |
| Settings (`settings/`), address books (`addressbooks/`) | settings of a section; books and their entries | put a section; create a book, add and remove an entry | answers made of a later read; two spellings of one key in one body; duplicates that only one of the stores refuses | the answer and the audit log tell what was asked, unless another request asked for something else at the same time |
| HTTP middleware (`middleware/`) | request counters per key and window | rate limit, cleanup | the request names its key itself (`X-Forwarded-For`, `X-Real-IP`); the clock is read before the mutex is taken; counters at the limit, the reset time and the cleanup | of one client's key at most twice the limit in any window, no request refused for what was sent with other keys |
| Schema migrations (`migrations/`) | the schema, `schema_migrations` | `opendeskctl migrate`: execute each file not recorded, then record it | a death between the two, then a second run; two migrators | a rerun completes the schema; the API finds it complete |
| Repository (`repository/`) | all rows; the pool of MySQL connections | the store calls of all the above | two stores that differ; lists that hold one pooled connection and wait for a second | both stores promise the same; whoever waits for a connection gets one |
| Audit, connection and login logs, assets, health, configuration | rows or files | insert, list | little | the row inserted is the row listed |
| Builder command, relay server and client patches, admin UI, deployment files | outside the API | called by, or calling, the API | seen through their calls | |

Interactions: relay grants write audit events and denied connection logs; the
build handlers and the workers share the job rows; `auth.Require` stands before
every managing handler; devices read the groups and the policies' strategies;
login writes the login log; the rate limiter stands before every route, the pool
behind every store call, and the API is started on a schema somebody has migrated. `PROJECT.json` lists the components with
their files and, under `hazards`, each hard-to-test behaviour with its line.

## Modules

| Module | Models |
|---|---|
| `RelayGrant` | issue, validate and revoke, one store access at a time |
| `GrantLedger` | abstract: what a grant promises (live, accepted, closed) |
| `RelayGrantProofs` | theorems about `RelayGrant`, and its refinement of `GrantLedger` |
| `BuildQueue` | profiles, jobs, administrators' requests and workers |
| `JobLedger` | abstract: what the queue promises of a job (waiting, running, closed) and of who builds it |
| `BuildQueueProofs` | theorems about `BuildQueue`, and its refinement of `JobLedger` |
| `Identity` | setup, login, logout, authentication, users and API tokens |
| `IdentityProofs` | theorems about `Identity` |
| `Policies` | devices, groups, access rules, strategies; effective strategy and access evaluation |
| `PoliciesProofs` | theorems about `Policies` |
| `FiniteOrders` | lemmas: the first of a finite order, the greatest and least of a finite set of integers |
| `Registry` | devices, relays, user groups, address books, control roles and settings: their changes, heartbeats, answers and audit events, over both stores |
| `RegistryProofs` | theorems about `Registry` |
| `RateLimiter` | the request counters, their windows and clean-up |
| `ConnectionPool` | how store calls take connections from the bounded pool |
| `Migrations` | migrators that execute and record the files of the schema |
| `Deployment` | an upgrade: `Migrations`, then the API behind `RateLimiter` and over `ConnectionPool` |
| `DeploymentProofs` | theorems about `Deployment` |
| `MC*` | the small instances TLC checks |

In `RelayGrant`, `BuildQueue`, `Identity`, `Policies` and `Registry` a request is a member of `Calls` (`Admins` in `BuildQueue`) with a
step `pc`, the copy it has read (`seen`, `task`, `req`) and its `reply`. **One
action is one store access with the handler's decision on its result**, named for
the store call or the handler; a guard `pc[c] = ...` is the place in the handler.
Rows are functions over bounded id sets, with "none", "absent" or `None` before
the row exists. A process that dies or a lost answer is a call that takes no
further step; `Spec` has no fairness, so every such crash is among its behaviours.
A failing store access is an action of its own (`FindFails`, `LogFails`, ...) of
the calls in the constant `Faulty`, and a write may fail before or after it took
effect. Properties speak of the calls outside `Faulty` only where they must.

Some definitions have a neighbour that no action uses (`RefusalWithoutReplay`,
`NewestQueued`, `GroupLast`, ...). They are variants: the same operator with a
plausible slip. With the variant in place of its neighbour the property listed
for it in `PROJECT.json` fails, which shows that the property bites.

**RelayGrant.** Validation is `ValidateArrive` (parse), `FindGrant` (load the
row), `CheckRefuse`/`CheckExpired`/`CheckPass` (judge the copy and the clock),
`MarkUsed`/`MarkExpired` (an unconditional UPDATE), `WriteAudit`, `WriteDenial`.
Two stores: `CountsMatchedRows` tells whether writing the status a row already
has counts as found (memory) or not (MySQL); the runs take MySQL, the theorems
hold for both. History variables: `before`, the
requests already answered when a request arrived, and `arrived`, the clock then.
Tokens are not forged: the signature is an abstraction, a token stands for its
grant, and hbbr only presents tokens that were issued.

**BuildQueue.** `Request(a)` reads what the request is about, `Proceed(a)` does
the next store access, `Drop(a)` is the request's death. A worker claims
(`ClaimNextBuildJob`, one transaction under `SELECT ... FOR UPDATE`, or the mutex),
loads the profile, builds, records artifacts one by one and completes or fails
the job; `Abandon(w)` is its death or a final write that fails. `ForeignKeys`
chooses the store: MySQL refuses a job without its profile, memory does not. A
MySQL INSERT is taken to draw its id and to become visible in one step, which
`NoOvertaking` relies on. A cancellation that comes after the claim leaves a canceled job
with a worker at it, which may be retried at once (`RetriedHaveEnded` allows for it, see
Findings).

**Identity.** A managing request passes `FindToken`, `FindUserByID`,
`RecordAPITokenUsed` (API tokens), `Act`, `WriteAudit`. The stores differ in an
update that names no status (MySQL writes active, memory keeps the status) and in
whether an address may be taken twice (only MySQL's unique key refuses it). Initial
states are those `NewStore` leaves: no user, or the administrator from the
environment, with its audit event. The variable `deployment` is chosen by `Init`
and never changes: the store, the calls whose accesses may fail and what each call
may ask for, so that one run covers both stores.

**Policies.** The store is MySQL. `FindDevice`, `ListDeviceGroups`,
`ListDeviceGroupMembers` (group by group), `ListStrategies`,
`ListStrategyAssignments` (strategy by strategy) and `EffectiveStrategy` are the
statements of one request; every administrative change is one statement or one
transaction and may fall between any two of them. An access evaluation reads in
one statement: its answer is the operator `Evaluate` of the state. One setting
stands for every key of a strategy. History: `always`, the assignments in force
ever since the request began, and `offered`, the pieces (rows, assignments,
groups) that held at some time since.

**Registry.** A request passes `Arrive` (parse, and read the clock), `Find` (only
MySQL, before a member or an entry is added), `Change`, `Reread` (only MySQL; a
control role also `RereadPermissions`, its second statement) and `WriteAudit`;
`Following` gives the order, which settings turn round (audit, then read for the
answer) and address books cut short (no audit event). The memory store changes the
row and copies it under its mutex, so `copy` is taken in `Change`; MySQL reads it
again in a second statement, after which the audit event and the answer tell what
that found. `NotFound` is what either store answers 404 for: MySQL also an UPDATE
that changed no column, which the clock, in the whole seconds of its TIMESTAMP
columns, makes possible (`Stamp`). The stores differ further in an update that names
no status (MySQL writes the default, memory keeps it) and in the entries and members
that a key refuses or `INSERT IGNORE` passes over. No handler asks of a creation whether
its status is one: MySQL's ENUM refuses another string (`StatusRefused`), the memory
store keeps it (`Column`), and `other` stands for such a string in the run. `deployment`, chosen by `Init`,
is the store and the things the requests are about.

**RateLimiter.** `ReadClock` and `Allow` (as `Admit` or `Refuse`) are separate, since
the middleware calls `time.Now()` before it takes the mutex: a request may count by
a time that has passed, and after the clean-up that a request with another key has run.
`rateLimitKey` believes the request: the first element of `X-Forwarded-For`, or
`X-Real-IP`, before the address it comes from. So `ReadClock` lets a client choose a key
of `KeysOf[c]` for every request, its own or one that others use too, and the limit is
the key's: `TwicePerWindow` bounds what is admitted of a key that one client gives, and
nothing bounds a client over all the keys it gives; another client may use up the limit
of any key (`RefusalJustified` speaks of the key). History: `passed`, the requests
admitted for each key.

**ConnectionPool.** A handler waits for a connection (`auth`, `query`, `row`) or uses
one (`authenticating`, `statement`, `rows`, `in_row`); the nested lists hold that of
their rows while each row takes a second. `GiveUp` is the client that goes away:
its context ends the wait and frees what the handler holds. Which statement a call
runs is left open, so every store call is one of these paths.

**Migrations.** A migrator goes through the files (`Skip`, or `Unrecorded`,
`ExecStatement` once per statement, `Record`), fails (`ExecFails`: a column that is
already there; `RecordFails`: another migrator recorded it first) and may die between
any two steps (`Die`). The initial states are a new database and those an earlier
release left.

**Deployment** joins the three as `docs/deployment/distributed.md` orders them:
`Launch` only after a migrator has reported success and the others have ended, `Request`
only of an API that has been launched, `Pass` hands an admitted request to the store.

## Runs

All runs are breadth-first and complete. Deadlock is not checked: all modules
have a bounded number of requests or changes, after which they rightly stop.

| Run | Instance | Shows |
|---|---|---|
| `relay_grant` | 1 issue, 2 overlapping validations, 1 revocation, 1 grant, 2 relays, clock to 2, MySQL; accesses of the issue, one validation and the revocation may fail | `SequentialSingleUse`, `RevocationEffective`, `AcceptedInTime`, `ConsumedByItsTarget`, `AnswersRecorded`, and `ImplementsLedger` (934,298 states). `SequentialSingleUse` leaves out acceptances whose own write failed: those answer valid and leave the row issued |
| `relay_replay` | two validations | violation: both accepted (see Findings) |
| `build_queue` | 2 administrators, 2 workers, 1 profile, 2 jobs, 1 artifact, MySQL, failures anywhere | the safety of the queue, and `ImplementsJobLedger` (603,675 states) |
| `build_progress` | 2 administrators, 1 worker, memory store, no failures, `FairSpec` | `ClaimedJobsEnd`, `QueuedJobsServed`, `JobsAudited` (77,225 states) |
| `build_cancel` | 2 administrators, 1 worker, 1 job | violation (see Findings) |
| `identity` | two deployments. MySQL: login, token creation, one closing request that may fail, one update, one use, of either of 2 users; clock to 1. Memory store: setup, login, token creation, logout, use, 2 users, any access may fail | what is closed stays closed; records, revocation and setup under faults (753,208 states) |
| `identity_setup` | 2 setup requests | violation (see Findings) |
| `policies` | 1 device, 1 user, 2 groups, 2 rules, 2 strategies, 4 assignments, 3 changes during one request | the documented precedence and the secure fallback (515,223 states) |
| `access_limit` | 2 rules, a list limit of 1 | violation (see Findings) |
| `registry` | 3 requests about one device, relay, group, address book, control role or settings section, one of them failing; 2 seconds; either store | changes stand, answers tell them, the audit log has each part of the outcome, only repeats within the second are missed (892,260 states) |
| `registry_heartbeat` | 3 heartbeats | violation (see Findings) |
| `deployment` | 2 migrators, one of which may die; 3 files, the second not repeatable; 2 clients, one with a key of its own besides that of the other; limit 1 in a window of 2, clean-up above 1 counter, clock to 3; 2 connections, one patient and one impatient list | `TablesThere`, `TwicePerWindow`, `RefusalJustified`, `SchemaRecovers` and `PatientAnswered`, under `FairSpec` (129,605 states) |

Why these bounds are enough to be worth running: the properties relate at most
two requests that overlap, one that changes the row under them, and the time
between two of them. So two validations and a revocation of one grant, two
workers and two administrators on two jobs, a user and one of each kind of
request reach every order of accesses to one row; other grants, jobs or users
only interleave with them, since no two rows share state (grants: the theorems
below hold for any number of them). The clock passes the default and the
minimum time to live of a grant. In `policies` two rules and two strategies give
every pair the precedence compares, and three changes are enough to create,
replace and remove while a request reads. In `deployment` the migrators
and the API alternate, and the limiter and the pool meet only where an admitted request
takes a connection, so each part is small: two migrators meet at every statement of a
repeatable file before and after one that is not; three requests of one client that
waits, with either of two keys, reach a second window whose counter was started late, or cleaned up; two lists
over two connections can block each other, the one hazard of that pool. In `registry` three requests are one that
is answered, one that overlaps it and one that comes after both; two values of the
clock tell the same second from the next. Symmetry sets are permuted only in runs
of safety properties, over requests, workers or users that the instance treats alike.

Fairness (`FairSpec`, `BuildQueue`): weak fairness of each administrator's
`Proceed` (the server runs a handler it has started), of each worker's `Work`
(`BUILDER_TIMEOUT` ends a builder that hangs) and of `ClaimNextBuildJob`
(`opendesk-worker run-once` and run-next each take one job; that somebody runs
them again and again is an assumption about the operator, not about the code).
Weak fairness suffices: only the worker itself disables its own steps. No
fairness is assumed of `Request`: nobody has to ask for anything. The liveness
run excludes process deaths, since after one a job stays running for ever and
nothing in the code recovers it (`hazards`, `buildworker/worker.go:125`).

Fairness (`FairSpec`, `Deployment`). `SchemaFairness`: a migrator goes on until it has
ended or died, and one that failed is started again (by the operator, the upgrade guide's
next step); a `Mortal` one may die at any point. `PoolFairness`: weak fairness of
`Use(c) \/ GiveUp(c)` (MySQL answers, or the client leaves), strong fairness of `Acquire`
(database/sql hands a freed connection to one of those who wait, picked at random, so
that whoever waits while connections are freed again and again gets one but with
probability zero) and of `NoMoreRows` (a list has at most 500 rows).
Nobody has to send requests, and the clock may stop. `PatientAnswered` needs
`PoolAssumption`: fewer patient clients than connections. Without it as many lists as
connections each hold one and wait for a second for ever, since no route sets a
deadline (`hazards`, `repository/mysql.go:1215`).

## Findings

Each is a run whose one property, quoted from the repository, TLC refutes.

- `relay_replay` / `SingleUse`: "Nonce protected against replay"
  (`src/docs/relay-auth.md:21`), but two validations that overlap are both
  accepted. What does hold is `SequentialSingleUse`.
- `build_cancel` / `CanceledBeforeClaim`: "Queued jobs can be canceled before a
  worker claims them" (`src/docs/custom-client-builder.md:38`), but a
  cancellation that read the job as queued overwrites a job claimed since. It reads
  canceled while its worker still builds it, so it may be retried at once: two builds run
  side by side, of which the first may yet read succeeded. What does hold of a retried
  job is `RetriedHaveEnded`: its status is never queued or running again, and a worker is
  still at it in this one case only.
- `identity_setup` / `SetupOnce`: setup is for when "no users exist"
  (`src/docs/security-policy.md:7`), but two overlapping requests both create
  an administrator. A setup that arrives after an answered one is refused (`SetupClosed`).
- `access_limit` / `DenyWins`: "Explicit deny wins over allow"
  (`src/docs/access-control.md:15`), but a deny rule beyond the 500 rules of the
  highest priority is not seen.
- `registry_heartbeat` / `HeartbeatFound`: 404 stands for "Relay not found"
  (`src/api/openapi/openapi.yaml:575-577`), but with MySQL a heartbeat that repeats what
  another wrote in the same second changes no row and is answered 404.

Not run, since it concerns the memory store of tests and demonstrations only: with
`ForeignKeys = FALSE` `JobsHaveProfile` fails, for a profile can be deleted between
the handler's read of it and the insert of its job.

## Proofs

### Relay grants

`RelayGrantProofs` proves, for any sets of calls, grants, relays and bodies, any
routes and any clock (assumptions: `NullAssumption`, `RequestAssumption` and
`ParameterAssumption` of `RelayGrant`, which only type the constants):

| Theorem | States |
|---|---|
| `TypeCorrect` | `TypeOK` |
| `ReplayRefused` | `SequentialSingleUse`, which speaks of accepted calls outside `Faulty` |
| `RevocationBars` | `RevocationEffective`, whatever fails |
| `AcceptanceInTime` | `AcceptedInTime`, whatever fails |
| `ConsumedByTarget` | `ConsumedByItsTarget`, whatever fails |
| `AnswersOnRecord` | `AnswersRecorded`, whatever fails |
| `ServiceImplementsLedger` | `ImplementsLedger`, that is `Ledger!Spec`, whatever fails |

The properties are not inductive: that a request which arrives after a revocation
is refused depends on what it reads several steps later. The invariant `Inv` adds

- `HandlerInv`: what each handler step knows (route, grant, copy, reply), and that
  every request in `before` has been answered;
- `IssuerInv`: a grant id belongs to one issue request, so an insert never
  replaces a row;
- `SettledInv`: an answered revocation, or an accepted validation whose write did not
  fail, leaves the grant in a status that is never `issued` again;
- `BarredInv`: a later validation of that grant has not read, and so will not
  act on, the status issued. This is the heart of the argument;
- `AdmittedInv`: a validation past its checks arrived before the expiry and names
  the grant's target and relay;
- `RecordedInv`: what is on record when a denial log is due and when an answer is out.

One lemma per conjunct shows that each action preserves it; `InvInit` and
`InvStep` join them and the theorems follow by `PTL`. The refinement maps a
grant's status to live or closed, and `pending` to the validations that read the
grant as issued and have not decided; a revocation of a grant that is already
closed, an audit write and a clock tick are stutters.

### Build queue

`BuildQueueProofs` proves, for any administrators, workers, profiles, platforms, jobs
and artifacts, for either store and with or without deaths (assumptions:
`NoneAssumption` and `BoundAssumption`, which type the constants):

| Theorem | States |
|---|---|
| `QueueInvariant` | the inductive invariant `Inv` |
| `QueueTypes` | `TypeOK` |
| `OneBuilder` | `OneWorkerPerJob` |
| `InOrder` | `NoOvertaking` |
| `SuccessComplete` | `SucceededComplete` |
| `RetriesOfEnded` | `RetriedHaveEnded` |
| `ProfilesKept` | `JobsHaveProfile`, if `ForeignKeys` |
| `QueueImplementsLedger` | `ImplementsJobLedger`, that is `Jobs!Spec` |

`Inv` adds to the properties what makes them inductive:

- `JobInv`: rows are inserted in the order of their ids, and a job that has been started
  is never queued again. So a claim, which takes a queued job, takes one that nobody
  builds, and of which nothing has been recorded.
- `WorkInv`: a worker's job has been started and is running, or canceled since, and what
  it has recorded and what it has left make what the builder reported. With
  `SourcesEnded` this makes a retried job that has a worker a canceled one.
- `TaskInv`: a request acts on what it read before; what it relies on stays true, for
  jobs are never deleted and those that ended stay ended.

`EndingKeeps` is the lemma about a status that is overwritten, shared by cancellations and
workers. The refinement maps the three sets of the ledger to the jobs with a status
queued, running or ended, and `building` to `job`; a request that changes no status and
a worker's steps between its claim and its outcome are stutters.

### Identity

`IdentityProofs` proves, for any requests, users and tokens, over both stores and
whichever requests' store accesses fail (assumptions: `TokenAssumption` and
`ParameterAssumption`, which type the constants and keep sessions and API tokens apart):

| Theorem | States |
|---|---|
| `IdentityInvariant` | the inductive invariant `Inv` |
| `IdentityTypes` | `TypeOK` |
| `RevocationIsFinal` | `RevokedTokenRefused` |
| `DisablingIsFinal` | `DisabledUserRefused` |
| `ExpiryHolds` | `ServedInTime` |
| `TokensAreAudited` | `TokensOnRecord` |
| `LoginsAreLogged` | `LoginsOnRecord` |
| `SetupStaysClosed` | `SetupClosed` |

Each property relates an answer to what a later request finds several steps on. `Inv`
says for each request, in `CallInv`, what bridges those steps:

- `StepOf`, `TargetOf`, `NamesOf`: where which requests are, and that the rows they
  name exist; the API token they present is on record.
- `TokenOf`: the token of an answered revocation is shut (revoked, or past its expiry),
  and no request that arrived later has got past `FindToken` with it.
- `UserOf`: a user whose disabling was carried out is not active, nor has a later
  request found the user active, unless an update that was not answered before the
  disabling arrived has made the user active again (`Reactivated`).
- `SetupOf`, `LoginOf`: a setup that goes on has found no user; a log tells of a login
  that succeeded.

`SharedInv` adds that sessions have an expiry and that a bootstrapped administrator is
there. The proof is in two halves. `OthersKept`: a step that only lets rows, logs and the
clock grow (`StepBy`, `Grows`) keeps `CallInv` of every *other* request. `OwnStep`: what is left to
show of the request that takes the step, that it passes a token only if `Accepts`, a user
only if active, and a setup only if no user exists. One lemma per kind of step
shows that; `Sound` and its lemmas cover the changes of the store.

### Policies

`PoliciesProofs` proves, for any devices, owners, groups, rules, strategies and
readers and any interleaving of changes (assumptions: `BodyAssumption` and
`BoundAssumption`, which type the constants, and `NameAssumption`, which keeps users,
devices and settings apart):

| Theorem | States |
|---|---|
| `PoliciesInvariant` | the inductive invariant `Inv` |
| `PoliciesTypes` | `TypeOK` |
| `TerminalIsGranted` | `SecureFallback`, whatever the limits of the lists |
| `InForceIsNotMissed` | `InForcePrevails`, in behaviors that satisfy `WithinLimits` |
| `DecisionIsDocumented` | `DecisionAsDocumented`, in states that satisfy `RulesWithinLimit` |
| `StrongestIsNamed` | `StrongestRuleNamed`, likewise |
| `DenyWinsWithinLimit` | `DenyWins`, likewise; beyond the limit it fails (`access_limit`) |

The reader of an effective strategy puts it together from several statements, between
which anything may change. `Inv` keeps what each reader has in hand (`StepOf`), that all
of it was on offer at some time since it began (`OfferedOf`), and that the histories the
properties are stated with include the present state (`CurrentOf`). `SecureFallback`
follows with `LastMerged`: what `Resolve` answers is the terminal of the assignment that
is merged last. `InForcePrevails` needs one more invariant, `Kept`: what was in force all
the while is among what was read, or is still to be read. That holds only while the lists
are no longer than the `LIMIT` of their statements: a row beyond it is never read, which is
why the theorem has the hypothesis `WithinLimits` (groups and stored strategies; 500 rows
in the code). Every state of the run `policies` satisfies it.

The evaluation of a request needs no invariant beyond the types. The order of the
evaluator's sort is shown to be a strict total order on the rules (`WinsIsOrder`), so
that a finite set of rules has a first one. That is not induction over data here:
`FiniteOrders` proves it from the well-foundedness of strict inclusion among the subsets
of a finite set, which the library states as a fact to cite.

### Registry

`RegistryProofs` proves, for any requests about any devices, relays, groups, books, roles
and sections, over both stores, whichever calls' accesses may fail and however long the
clock runs (assumptions: `RequestAssumption` and `ParameterAssumption`, which type what a
request carries once its body has been accepted, and `NameAssumption`: an id tells what it
is of, and `None` is nothing that a row may hold):

| Theorem | States |
|---|---|
| `RegistryInvariant` | the inductive invariant `Inv` |
| `RegistryTypes` | `TypeOK` |
| `ChangesStand` | `ChangeStands` |
| `AnswersTell` | `AnswerTells` |
| `OnlyRepeats` | `OnlyRepeatsMissed` |
| `OnRecord` | `StatusOnRecord` |

The first half of the proof is about what a write leaves. `Lands` says it once for the
seventeen kinds of request: only the thing the request is about changes; afterwards it
shows what the request asks for; it still shows what any *other* request has asked for,
unless the two are against each other (`Opposes`); and an entry or a row that was not
there only appears by a request that creates it. `RowLands`, `GroupLands`, `BookLands`,
`RoleLands` and `SectionLands` prove it of each kind, `WriteLands` of every write.

The second half is `Inv`, for each request in `CallInv`:

- `StandsOf`: from its write on, also while it reads again and audits, the store shows
  what it asked for, or it is excused by a request that was not answered before it. What
  was answered must stand for as long as the behavior goes on, so this, and not
  `ChangeStands`, is what `Lands` carries from step to step.
- `TellsOf`: so with the copy it answers with. A role's row and permissions are read in
  two statements, so that its copy may be half of each of two roles: then one of the two
  was written by a request that overtook it (`RereadPermissionsKeeps`).
- `MissedOf`: what it did not find is absent, was created since, or was written in the
  same second. With MySQL that rests on `StampedOf`: the time of every row is that of a
  request that wrote it (`Repeats`).
- `OnceOf`, `PresentOf`, `SeenOf`: whoever creates a thing is alone and finds none; a
  thing changed is there; an entry is struck only after it has been seen.

`SharedInv` has what the handlers know together: the status of a row, each of the two
parts of a role and each stored key is told by an event, or by a request that is still
to write one (`TellsRow`, `TellsEnabled`, `TellsPermissions`, `TellsKey`), unless a
request about the thing may fail (`Untold`). A step of a request keeps the others'
`CallInv` by `OthersKept` if it leaves the store alone and by `OthersKeptByWrite` and
`Lands` if it does not; one lemma per action is about its own.

`RegistryTypes` adds `StatusTypes`, what the status columns hold, by a small induction of
its own (`StatusWritten`): a creation's status is in `Column` because it was not refused,
that of any other request because an accepted body names a status there is.

### Deployment

`DeploymentProofs` proves, for any number of migrators, files and statements, any
clients and keys they may give, limits, windows and pool (assumptions: `MigrationAssumption`,
`LimiterAssumption`, `PoolAssumption` and `ClientAssumption`, which type the constants
and say that the callers of the store are finitely many, and clients; that the patient
ones are fewer than the connections is needed for liveness only):

| Theorem | States |
|---|---|
| `DeploymentInvariant` | the inductive invariant `DeploymentInv` |
| `DeploymentTypes` | `TypeOK`, with `InUse <= PoolSize` |
| `TablesThereHolds` | `TablesThere` |
| `RefusalsJustified` | `RefusalJustified` |
| `TwicePerWindowHolds` | `TwicePerWindow` |

`DeploymentInv` is the conjunction of these parts, each kept by one lemma:

- `SchemaInv`: a recorded file has been executed (`RecordedMade`), and what a migrator
  has passed (`Reached`) is recorded, up to the statement it is at. It survives the
  death of any migrator since nothing that was made or recorded is ever taken back;
  `StepReaches` reduces each step to what the migrator that takes it has to show.
- `FilesInv`: only statements and versions of the files are made and recorded.
- `ServiceInv`: the API is launched on a complete schema, and only a launched API serves.
- `LimiterInv`: a counter is backed (`Backed`) by as many admitted requests, up to
  `Limit`, as it counts, none older than the start of its window. The clean-up keeps it,
  because it only removes counters; a counter that starts again is backed by the
  request that started it, although that one has read the clock earlier.
- `CountersInv`: what the middleware and the clean-up leave are counters.
- `SpacedInv`, for a key that one client gives. Whatever was admitted of it was admitted
  before the time the client's next request reads, and the log of the key is `Apart`. Counted from
  its end, the log has first the requests of the running counter. Those before them were
  admitted before its window began, as the client had its answer before it read the
  clock that started the window. All but the last `Limit` of these were admitted at least
  a window ago, so the request that is admitted next is a window or more after the one
  `2 * Limit` places before it. A counter that is removed is over, and what it counted
  takes the place of what its predecessor counted (`RemoveApart`): here the proof uses
  that the clean-up removes none that is running, which the variant `CleanedAll` does.
- `PoolInv`: what a handler does tells how many connections it holds (`Holding`), and all
  of them together are no more than the pool has. The connections in use are a finite
  set, to which `Acquire` adds one and from which every other step takes away
  (`TakenInUse`, `FreedInUse`).

A refused request has met a counter that is running and past the limit, and whose window
began less than `Window` before the time it read: `RefusalBacked`, and the theorem.

Every invariant and action property of a passing run is stated by a theorem. Only
model-checked is liveness (`SchemaRecovers`, `PatientAnswered`, and those of
`BuildQueue`): fairness and ENABLED are beyond the prover.

## Not modelled, and why

- Password hashing, token signing, CORS, encoding, paths and role checks: pure
  functions of one request.
- The evaluator of control roles: no handler calls it.
- The lists, the log queries and the preflight report of the builder: reads.
- Assets: an upload writes one file under a fresh random name; nothing is shared.
- The admin UI, scripts, container files and the builder's own work: outside the API.
- The memory store in `Policies`: it lists strategies in the opposite order, and a
  data race on assignment slices is noted under `hazards`.
- The audit event after a change of an access rule or a strategy: it is written as in
  `Registry`, and no property of `Policies` reads it.
- That every administrator can be disabled (`hazards`, `setup/handler.go:77`): nothing in
  the repository says that one must remain, so there is no property to state.
- A validation for another target, in `relay_grant`: the bodies of the run differ in the
  relay only, which keeps it small; `ConsumedByTarget` is proved for any targets.
- Two API processes in `RateLimiter`: each has its own counters, and the limit is
  promised of one process. Whether a proxy replaces the headers that name the key is a
  matter of its configuration: the model lets clients write them.
- In `Registry`, the sessions and the time of health that a creation may name to the
  memory store (MySQL's INSERT of a relay leaves them out), and the strings MySQL takes
  for a listed status although they differ from it in case.
- An unbounded supply of new jobs in `build_progress`: its two jobs test that a failing or
  hanging build does not keep the next one waiting. That the oldest is served first,
  however many follow, is `NoOvertaking`, proved for any number of jobs.
- A login under way when its user is disabled, in `identity`: the requests of the run do
  not include it with the update; `DisablingIsFinal` is proved for all requests.
- In `deployment`, a client whose requests need no store (`Clients \ Callers`): to the
  limiter it is a client as any other. The theorems have it.

## Plan

Done: `RelayGrant` with its ledger and proofs, `BuildQueue`, `Identity`, `Policies`,
`Registry`, `Deployment` with its parts, the proofs of all but the liveness of each, the
most consequential behaviour first. Left, in order:

1. The step properties that the liveness of `BuildQueue` and `Migrations` rests on (what a
   step never undoes), as action properties with proofs.
2. A run of `Deployment` with larger limits and windows, now that the proof shows which
   interleavings of clock, mutex and clean-up matter.

## Running

    tlc -workers 2 -config relay_grant.cfg MCRelayGrant
    tlc -workers 2 -config deployment.cfg MCDeployment
    tlapm RelayGrantProofs.tla
    tlapm BuildQueueProofs.tla
    tlapm IdentityProofs.tla
    tlapm PoliciesProofs.tla
    tlapm RegistryProofs.tla
    tlapm DeploymentProofs.tla
