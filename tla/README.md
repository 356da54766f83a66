# Hippo Build X in TLA+

A verification project for Hippo Build X, a multi-tenant construction ERP: a
Next.js web server (`apps/web`), a BullMQ worker (`apps/worker`), and a
PostgreSQL database with one control-plane schema and one schema per tenant
(`packages/db`). Redis holds the BullMQ queues.

The modules are translated from the JavaScript and SQL; `PROJECT.json` maps every
definition to the lines it stands for.

## The system

| Component | State | Operations | Talks to | What makes it correct |
|---|---|---|---|---|
| Tenant creation and retry API (`platform/tenants/route.js`, `retry-provisioning/route.js`) | control-plane rows `tenants`, `provisioning_jobs` | create, retry, replay by idempotency key | queue dispatch | one job per key; a retry only for a failed tenant; a crash never loses the row |
| Queue dispatch (`lib/queues.js`) | a process-wide "queue unavailable" latch; the job row | enqueue, classify the failure, provision in the request | Redis, the schema builder | no duplicate queue work; rows that agree with what happened |
| Provisioning worker (`apps/worker`) | the delivery in hand; tenant and job rows | claim, run, report, complete, fail | BullMQ, the schema builder | the terminal states are right under retry, stall and crash |
| Schema builder (`packages/db/src/migrations/index.js`, `scripts/`) | tenant schema, a migration ledger inside it and a central one, row policies | provision, migrate one tenant, migrate the fleet, roll back | PostgreSQL | repeatable; never active before complete; the ledgers name the tables that stand; every table has its policies |
| Seeding (`packages/db/src/seed/defaults.js`) | roles, users and demo data of a tenant | upserts in one transaction | PostgreSQL | repeatable |
| Sessions (`modules/auth/session-service.js`) | `sessions`, `password_reset_tokens`, `users` | login, refresh, logout, forgot and reset a password | request wrapper, admin users | a refresh token has one heir; a reset or suspension ends sessions; who is locked acts no more |
| Request wrapper and permissions (`lib/api-utils.js`, `packages/rbac`) | request context | authenticate, authorise, audit | every handler | decisions from current rows; a permission stays in its project |
| Units, structure and planning (`modules/projects/property-service.js`) | `units` and their history, towers, floors and locations, tasks and dependencies, drawings | change status, generate, place a tower, add dependency, new version | PostgreSQL | legal transitions, a history that chains, whole batches, towers with locations, no cycle, versions without gaps |
| Projects and what is below them (`projects/`) | `projects`, blocks, categories, tasks, BOQ, RFIs, issues | list, open, create, change, delete | permissions | what may be opened is listed |
| Channel configuration (`admin/channel-config`) | `tenant_channels`, the legacy column | read-modify-write, move the legacy data | encryption | no secret lost, the legacy data is dropped only when moved |
| Users and roles (`admin/users`, `admin/roles`) | `users`, `user_roles`, `roles` | create, patch, delete | sessions, permissions | a user keeps a role; locking reaches sessions |
| Platform control center (`modules/platform`, `platform/control-center`) | the component: data, page, loads, timer, clicks | load, poll, turn pages, create and retry setups | tenant creation API | what is shown never goes back, and ends up true |
| Page of a project (`projects/[id]/page.js`) | the component: eight answers, a form | read everything, save, read again | the project handlers | a saved form is on the screen |
| Branding, audit list, CRM, dashboards, health, other pages, mobile client, AI and notification stubs | none of their own | reads and single statements | | not modelled |

Hard behaviour: handlers interleave at every `await` with other requests and with
the worker; two statements are usually two transactions; BullMQ delivers at least
once, counts starts and failures differently, and gives up stalled jobs by itself;
either process can die between any two statements; reports to the job row are
best effort; the pages have several requests under way whose answers come in any order. `PROJECT.json` lists each hazard at its line.

## Modules

| Module | Models |
|---|---|
| `BullQueue` | one entry of the `tenant.provision` queue, as the code uses the external library: add under a deterministic id, deliver, acknowledge, fail with retries, stall |
| `ProvisioningJob` | the tenant row, the job row, the UPDATE statements on them, and the worker's classification of an attempt (`provisioning-attempt.js`) |
| `TenantProvisioning` | the handlers, the dispatch, the synchronous fallback and the worker over those rows |
| `TenantLifecycle` | abstract specification: a tenant is registered once, built, activated for good, or given up and tried again |
| `MCTenantProvisioning` | symmetry for TLC |
| `TenantProvisioningProofs`, `TenantTurnProofs` | theorems and their proofs: in every case, and in restricted ones |
| `WebHandlers` | what the handlers of the web server have in common: where each is, when one may begin, death; extended by the next modules |
| `UnitMoves` | the statuses of a unit and the moves the rules refuse, shared by the next two |
| `UnitLifecycle` | abstract specification: a unit moves only as the rules allow, and a log tells every move |
| `UnitStatus` | `PATCH /units/:id` and `changeUnitStatus` |
| `UnitGeneration` | `generateUnits` and `POST floors` |
| `TowerLocations` | `POST towers` and `syncLocationForTower` |
| `DependencyGraph` | reachability and acyclicity, for the next two |
| `CycleSearch` | the loop of `assertNoDependencyCycle` |
| `TaskDependencies` | `POST /tasks/:id/dependencies` |
| `DrawingVersions` | `createDrawingVersion` |
| `UnitProofs` | proofs about `DependencyGraph` and `UnitStatus`, for the two modules of proofs below |
| `PlanningProofs` | proofs about `UnitGeneration`, `TowerLocations`, `DrawingVersions`, `CycleSearch`, and what `MCPlanningOverlap` makes of them |
| `Sessions` | login, refresh, logout, password reset, and the check every request begins with |
| `UserAccounts`, `AccountsProofs` | extends it by `admin/users`: create, change, suspend, delete, replace the role; proofs about both |
| `ChannelConfig` | `admin/channel-config`: the rows of the channels and the legacy column |
| `Access` | permissions, scopes, the route table, projects, `admin/roles` |
| `HandlersInTurnProofs` | proofs about `ChannelConfig`, `Access`, `TaskDependencies`, and what `MCHandlersInTurn` makes of them and of accounts |
| `Upkeep`, `MCUpkeep`, `UpkeepProofs` | migrations and their ledgers, the fleet, provisioning with its seed, rollback; symmetry; proofs |
| `Console` | the control center's component and its endpoint |
| `ProjectPage` | the page of a project |
| `PageProofs` | proofs about `Console`, `ProjectPage` and `MCPages` |
| `MCHandlersInTurn`, `MCPlanningOverlap`, `MCAdministration`, `MCPages` | the modules above side by side, for TLC |

### TenantProvisioning

A tenant is named by its slug, a durable job by its idempotency key (`UNIQUE` in
the table), a queue entry by its job (`tenant-provision-<id>`). `tenant`, `job` and
`queue` are functions over these names; `built` records which of the four artefacts
of `provisionTenantSchema` exist (schema, migrations, defaults, channel row; the
fifth step is the UPDATE that makes the tenant active); `queueUnavailable` is the
latch of `queues.js`; `proc` says where each request and each worker is, and what it
remembers from earlier reads.

A step boundary stands wherever the code awaits something another process can
interleave with. A transaction is one step. `CreateCheck` is the read before the
transaction of `POST /tenants`, `CreateRegister` the transaction. `RetryLoad`,
`RetryLookup` and `RetryRegister` are the three reads and the transaction of the
retry, with the tenant status remembered from the first read. A key is kept if it can be
sent again (`KeptKeys`: the default key of a creation is made of the slug, and a client may keep its
own); the console and the retry route make random ones that nobody remembers (`RetryKey`). `Dispatch*` and
`Add*` are `enqueueTenantProvision` and `handleQueueAddFailure` (unsupported
version, transient, fatal; a command that ended in a transient or unclassified error may have reached Redis). `Run*` are the
steps of a run, shared by `provisionSynchronously` and the processor of the worker,
with the differences of the two (which UPDATE, which guard, `clearFinished`).
`Claim`, `Ack` and `Nack` belong to the worker. `RetryDue`, `LockExpires` and `Stall`
belong to BullMQ.

What fails is bounded by `FaultKinds` and `MaxFaults`: a step that throws (`build`),
one that commits and loses its answer (`ambiguous`), a lost row write that is caught
and logged (`write`), a failing `queue.add` (`redis`), a lost lock of a live worker
(`stall`), and the death of either process.

Abstracted: `started_at`, `bullmq_job_id`, payload and messages;
`QUEUE_REDIS_UNSUPPORTED` is one with `QUEUE_UNAVAILABLE`; BullMQ keeps every entry
(the code lets it forget all but the last 100 completed ones); GET handlers.
Here a run builds four artefacts that nothing takes away; what is in the schema, and
what takes it away (`rollbackTenantProvisioning`, which no handler calls), is `Upkeep`.

### The property and planning modules

They share a shape: the tables are sets or functions, `request` says at which
statement each handler is and what it read before, and every `sql.unsafe` call is a
step, because each is a transaction of its own (`packages/db/src/client.js:79`). A
`UNIQUE` constraint or index is a guard of the INSERT it belongs to, evaluated where
PostgreSQL does, not where the handler looked. `WebHandlers` holds `request`, the bound
`MaxDeaths` on handlers that end between two statements (what was committed stays), and
`Overlap`, which says whether requests may run at the same time. `Sessions`,
`UserAccounts`, `ChannelConfig` and `Access` are built on it too.

The five parts work on different tables: `units.status` with its history, `floors` and
new `units`, `towers` with `locations`, `task_dependencies`, `drawings`. No statement of
one reads or writes a table another writes in a way the properties see, so
the MC modules let a behaviour make requests of one `kind` and check the parts next to one
another rather than in every mixture.

- `UnitStatus`: `PatchUnit` is the route, `ReadAndCheck` the SELECT and the rules,
  `UpdateUnit` the UPDATE (which does not look at the status again), `InsertHistory`
  the history row. Of the reason only its presence is kept.
- `UnitGeneration`: `Generate` validates; `FindFloor`, `InsertFloor` and `InsertUnit` are
  the statements of the two nested loops. A unit number is the pair of prefix and index
  on its floor (the code pads the index to two digits, so the string determines the
  pair there). A floor posted by `POST floors` is a batch of one floor without units.
- `TowerLocations`: the INSERT of the tower, the lookup of its location by project and
  code, and the INSERT of the location. The rename of an existing location changes no
  column the model has. The tables start with any locations an earlier seed could have
  left.
- `TaskDependencies`: the two tasks are read, in an order `MayPrecede` constrains (a
  query without ORDER BY); the edge is filed under the project of the first; the edges of
  that project are searched; the edge is inserted. The search is the operator
  `ClosesCycle`, reachability, which `CycleSearch` shows the loop of the code to compute. The
  search compares strings and the database uuids, so a request says how it spells its ids
  (`Spellings`): "stored", as PostgreSQL returns them, or "otherwise" (one of them in upper case,
  say), which names the same task to the two statements and no task to the search. The page sends
  ids as the API returned them.
- `DrawingVersions`: SELECT of the latest version, INSERT of the next; a row is never
  updated.

`UNIT_STATUSES` is modelled, `LOCKED_FROM` (`property-service.js:5`) is not: nothing in
the code reads it.

### Sessions and UserAccounts

`account` is the status of a user with a count of the password's changes; `sessions` and
`resets` are the rows in the order of their INSERTs. A session says whose it is, whether
it is live, which password its first login knew, and which session it was refreshed from:
the chain of refreshes is what a reset has to cut. A request is a chain of statements, as
in the other modules: login checks the password (`CheckPassword`), loads the rights
(`LoadRightsForLogin`) and inserts the session (`IssueSession`); refresh finds the session,
revokes it, loads the rights and inserts the heir; every other request presents an access
token, which outlives its session, and `Authorise` reads the account. A reset of a password
is one transaction. `Expire` ends a session at any time.

`UserAccounts` adds the handlers of `admin/users`: the INSERT or UPDATE of the row, the
revocation of the sessions when a PATCH asks for a status that revokes, and the replacement of the
role as a deletion and an INSERT. The status is any string (`VARCHAR(50)` without a CHECK): "suspended"
stands for 'suspended' and 'inactive', the two that revoke, "locked" for all others but 'active'.
A user of the model may exist at the start or not. A dead handler between those two leaves `died assigning` behind.
`late` is a history variable of a request: its user was locked when it began and has not
been unlocked since. Left out: names, hashes, cookies, the rate limiter (a `Map` of one
process that forgets nothing), the audit row.

### ChannelConfig

`rows` is what `tenant_channels` holds per channel and `legacy` the column of an older
release; a secret is a value, encryption and masks leave it what it is. A PATCH reads the
legacy column, reads the rows, decides what to write for each channel (`ToWrite`), upserts
them one by one, counts the rows, and clears the legacy column if each channel has one.
`Effective` is what a GET would show for a channel. The tables start as migration 005 leaves
them, with any legacy configuration.

### Access

One user with any assignments (`grants`: role, project, location), another who may do
everything, the permissions of the roles, and per code whether a project is there. The
route table repeats what each handler passes to `withApiHandler` and whether it calls
`assertProjectAccess`; `Rights`, `ProjectIds`, `Scope`, `MayOpen` and `Listed` are the pure
functions between. A request is checked with the rows as they are (`Check`) and then does its
one write. The permissions of the seeded roles are those of `SYSTEM_ROLES` that some
route asks for.

### Upkeep

Files of migrations are numbers in the order of their names, and a release says which there
are, with a number for the content of each. `schema` holds what is in a tenant's schema: its
own ledger, the tables whose files ran, those that have policies, and the seeded defaults;
`central` is `control_plane.tenant_migrations`. `Migrate` is `runTenantMigrations`, one
transaction: it copies central rows that the schema lacks, refuses changed files, applies the
new ones, and puts policies on all tables. A process carries the release it started with, so an
old one may work after a deployment. The fleet reads the list of active tenants once and goes on
or stops at a failure; a provisioning creates the schema, migrates, seeds and activates; a
rollback drops the schema, deletes the central rows and marks the tenant. `halfDropped` is
history: the tenants between the first and the last step of a rollback, including those where
it was cut. Tests and `scripts/e2e-phase0.js` call the rollback with nothing else at work on the
tenant, and that is its guard; the fleet may still meet the tenant.

### Console and ProjectPage

Both are components of one thread: an event handler up to its next `await`, with the rendering
and the effects it causes, is one step. In `Console` a load is a chain of two requests; `current`
says whether its number is still the latest (`requestSequence`), `polling` whether a poll awaits
it that was not cancelled. The timer is set by the effect that sees work under way and by each
poll that ends. `SetupEnds`, `SetupBegins` and `AnotherBegins` change the database beside the page,
`SessionEnds` the cookie. Every answer is a reading of the database at some number of
`changes`, so that older and newer can be told apart.

In `ProjectPage` the eight reads are `Parts`, each with a version in the database; `loadAll` has
no number, so all calls under way may set the state. "Save" may be pressed again before its
answer: the form closes only then.

## Runs

Provisioning:

| Run | Shows |
|---|---|
| `worker_delivery` | one client, two jobs, two workers, every kind of fault but lost row writes: `TypeOK`, `ActiveTenantIsBuilt`, `AttemptsAreDeliveries`, `DispatchedJobIsDurable`, `ActiveLostOnlyToFailingRun` |
| `sync_fallback` | two overlapping requests that may provision themselves, beside a worker, with lost row writes: `CompletedJobWasBuilt` |
| `requests_in_turn` | one client, no dead worker: `OneBuildAtATime`, `StrandedOnlyBeforeDispatch`, and `LifecycleKept` (refinement of `TenantLifecycle`); under `FairSpec`, `ProvisioningSettles` |
| `active_tenant_demoted` | violation: a redelivery takes an active tenant out of service |
| `retry_stranded` | violation of `RetriedTenantIsPending`: a web process that dies between the commit of a retry and `queue.add` leaves the tenant provisioning for good |

Bounds: one tenant, since tenants share nothing but the key space; one to three keys, one
or two requests, one or two workers; `Attempts` 2 in the passing runs (the smallest number
with a retry; the code's 3 in `active_tenant_demoted`), `MaxStalled` 1 (BullMQ's default), two
or three faults. Two jobs on one tenant with two workers is the least that lets runs of
different jobs, and of one job delivered twice, overlap; three faults let a delivery
stall, its repetition fail, and a worker die besides. In `sync_fallback` and `active_tenant_demoted` `KeptKeys` is all
keys, which has the behaviours of every smaller choice; the other runs have a random key beside the
kept ones. Keys of the same sort, requests and workers are
symmetric; `requests_in_turn` checks liveness and uses no symmetry.

Property and planning:

| Run | Shows |
|---|---|
| `handlers_in_turn` | requests in turn, no deaths. Two units: `LedgerKept` (refinement of `UnitLifecycle`). Three tasks in two projects, ids spelled either way: `OnlyOtherSpellingsCloseCycles`. And the parts of the next table |
| `planning_overlap` | three overlapping handlers, one may die. A unit: `StatusIsAccountedFor`. Batches on a tower: `EveryUnitHasOneMaker`, `LeavesABeginning`, `SomeBatchWins`. Towers of two projects: `UnplacedTowerHasCause`. Drawings: `OneChain`. The search on every graph of three tasks: `VerdictIsReachability` |
| `sold_unit_reserved` | violation: a stale check reserves a sold unit |

Bounds: no request begins on a unit with `MaxMoves` rows of history, so the three
overlapping handlers of `planning_overlap` may all change one unit, and in turn each of two
units is changed twice (sold, then released). `MaxDeaths` 1 is enough because a dead
handler leaves nothing behind that a second death could change. `MaxFloor` 2 and `Limit` 2
units per floor give a batch an inner and an outer loop of more than one turn; the code's
50 is `Limit`, and 3 and 0 are the values just outside. Three tasks hold a cycle longer
than an edge and its opposite, an edge beside it, and a graph whose search branches, meets a task twice,
and already has a cycle. `Ids` bounds the rows of drawings: three handlers need three ids
to collide, and two more let them do it on top of a chain.

Requests that have been answered stay answered in `UnitGeneration` and `TowerLocations` (a
retry is another request), histories and ids are bounded, and the search ends: so these
runs stop, and their configurations say `CHECK_DEADLOCK FALSE`. So do
`sold_unit_reserved`, where the history is full in the end. The provisioning runs check for
deadlock.

Accounts, channels and access:

| Run | Shows |
|---|---|
| `handlers_in_turn` | requests in turn, no deaths. Accounts: `RevocationReachesAll`, `OneHeir`. Channels: `SecretsChangeOnRequest`. Access: `PermissionStaysInItsProject`, `OpenableIsListed` |
| `administration_overlap` | two overlapping handlers, one may die. Accounts: `LockedOut`, `RolelessHasCause`. Channels, with bodies that name every channel as the settings page's do: `ClearingLosesNothing` |
| `legacy_secret_lost` | violation of `ClearingLosesNothing` by a body that names some channels only |

Bounds: one user, since no statement reads another's rows; three sessions hold a login and two
refreshes, the least in which a token could have two heirs or a chain could survive a reset; two
resets and two changed passwords let a second token be older than the first's use. With
overlapping requests, which need fewer steps to go wrong, two sessions and no
reset, which issues no session and writes no status or role. Three
channels, as in the code, and two secrets, so that a channel can hold one and be asked for another.
Two projects and every assignment of a role, a project and a location; the role replaced at
will, so that two assignments follow one another; `EditedRoles` bounds the roles edited to a
seeded one and one of the tenant's own. Both runs say `CHECK_DEADLOCK FALSE`: sessions and
histories are full in the end.

Schema and pages:

| Run | Shows |
|---|---|
| `upkeep` | two processes on two tenants, each new or of the first release: `LedgersNameTheTables`, `EveryTableIsPoliced`, `ActiveTenantIsWhole` |
| `pages` | the console: `TimeNeverGoesBack`, `OnePoller`, `SpinnersEnd` and, under fairness, `SetupEndsOnScreen`; the page of a project: `SavedIsOnScreen`, `WholeOrWaiting` |

Bounds: two tenants, so that a fleet can fail at one and go on to the other; two processes, a
deployment (which adds a file or changes one), a rollback and a death, with two files: enough for an
old release to migrate beside a new one, for a rollback to meet a fleet, and for a provisioning
to follow a rollback that was cut. Processes can always begin again, so no state is final; the
run says `CHECK_DEADLOCK FALSE` all the same, since an invariant is all it asks.
The console has two loads under way, which is what overtaking needs (a third waits
until one is over), one company, one click, two jobs on two pages, the opening of the page and one
use of pager, refresh or logout after it, and one failed answer. The page of a project has two parts instead of eight, two
presses of "Save", three versions and one lost answer. Moves and presses run out, and then the pages
stand still: `CHECK_DEADLOCK FALSE`.

Every property of a passing run has a mutant in `PROJECT.json`: a plausible bug in one
mapped definition under which TLC finds it violated.

### Where the code departs from what it says

Each violation run above is a disagreement between the code and a text of the repository,
listed with both places in `PROJECT.json`. More were met on the way and have no run.

Provisioning and planning:

- `enqueueTenantProvision` writes the status "queued" after `queue.add` without looking at
  the row (`queues.js:236`). A worker that has completed the job by then sees its row go
  back to "queued" for good. The properties say nothing of a completed row staying
  completed for this reason.
- Two retries with different keys may both read the failed tenant, and both register a
  job (`retry-provisioning/route.js:93`; the error text there says "Provisioning can be
  retried only for failed tenants"). `OneBuildAtATime` is for one client at a time.
- The search for a cycle is passed over in three ways; the texts say
  "Task dependency cycles are rejected." (`HIPPO_BUILD_X_END_TO_END_BLUEPRINT.md:193`) and "cycles
  rejected" (`docs/runbooks/phase-2.md:10`). Two overlapping requests each search before the other inserts
  (`dependencies/route.js:32`). An edge between tasks of two projects is filed, and cycles are searched,
  under the project of whichever task the query returns first (`dependencies/route.js:30`). And the
  client's ids are compared with `===` to those PostgreSQL returns (`property-service.js:196`), so that an id in
  upper case is not met, in turn and within one project. `OnlyOtherSpellingsCloseCycles` says that in turn only
  the last can close a cycle among the edges filed under one project.
- A retry whose web process dies after the commit and before `queue.add`
  (`retry-provisioning/route.js:139`) is never dispatched: its key is random
  (`PlatformControlCenter.js:233`), and a new retry is refused with 409 because the tenant is not failed.
- A `unitsPerFloor` that is no number is `NaN`, passes the range check written with `<` and
  `>` (`property-service.js:71`), and yields floors without units and an answer of 201.
- The attempt number is the larger of `attemptsStarted` and `attemptsMade + 1`
  (`provisioning-attempt.js:5`), but BullMQ retries by `attemptsMade`: after a worker's death
  one failing delivery is recorded as terminal while BullMQ still delays another, though a
  test says "marks only the final configured attempt terminally failed".
- When BullMQ gives up a job for stalling too often, only a log line is written
  (`main.js:240`): the tenant stays "provisioning" with nothing pending, and a new retry is
  refused with 409. The README of the repository promises "safe retry for failed attempts".
- A location's code is unique in the tenant, a tower's only in its project: the tower of a second
  project with the same code is stored, its location is refused, and nothing tries again
  (`property-service.js:45`), although line 31 says a location is synced when a tower is created.

Accounts, channels and access:

- Two overlapping refreshes with one token both find it live and both get a session
  (`session-service.js:176`, whose answer to a later one is 'Refresh token reuse detected'):
  `OneHeir` needs requests in turn. So does `RevocationReachesAll`: a login that has checked
  the old password inserts its session after the reset revoked the others.
- Only 'suspended' and 'inactive' revoke sessions: a PATCH with a new password, or with any other
  status, leaves them (`admin/users/[id]/route.js:76`). A user who is 'locked' is refused everything
  (`LockedOut`), but his sessions are live again when he is made active. The users page offers only
  'active', 'suspended' and 'inactive'. Logout ends the refresh token only; the access token goes on until it expires.
- A deleted user's email can never be used again (`UNIQUE (email)` counts deleted rows): the
  handler looks for live rows, and its INSERT fails. Likewise for codes of projects.
- A login whose user is deleted between the SELECT and `loadUserAuthz` inserts a live session
  and then fails.
- A user's projects and permissions are flattened over all roles (`session-service.js:49`). Two
  overlapping changes of role leave two assignments, and the permissions of one hold in the
  project of the other; the users page edits only the first.
- With scope "own" a user's own projects are listed, but cannot be opened; a scoped project
  manager cannot open the project he creates. The check of a project does not ask whether it
  is there: children can be added to a deleted one.
- Overlapping PATCHes of channels write back what they have read.

Schema:

- A rollback cut between DROP SCHEMA and the DELETE of the central rows (`migrations/index.js:225`)
  leaves a ledger that names every file. The next provision copies it, applies nothing, and fails
  at the seed, again and again.
- A tenant that an old release is provisioning while the new one migrates the fleet is not in the
  list (`migrations/index.js:180`) and becomes active without the new file.
- `migration_version` is the last file by name, always `999_locked_tenant_rls.sql`, which
  is not the "Latest applied tenant migration" of `docs/data-model.md:40` once a lower-numbered file
  is added later.
- Running `seed.js` again takes an active tenant to "provisioning", and the seed resets the
  password and the status of the administrator (`defaults.js:107`); it fails for good once the
  default user or project is soft-deleted. The `catch` around the demo data cannot save the
  transaction it is in.

Pages:

- Open the console, turn to page 2, press "Retry", turn back to page 1 while the request is under
  way: the handler then loads page 2, the page as of its render (`PlatformControlCenter.js:220`),
  which wins, though a test is named 'ignores responses superseded by polling or pagination'. A retry's
  answer also frees the button of another tenant's retry.
- The page of a project is an error as a whole when one of its eight reads is refused, as the BOQ is
  for a site engineer. "Save" pressed twice stores twice. An answer read earlier may arrive
  later and replace what was shown; an answered form closes whatever form is open by then; an error
  one load has set stays when another succeeds.

### Fairness

`FairSpec` assumes weak fairness for the steps of a request in flight (the event loop
runs its continuations), for the steps of a worker, and for BullMQ's timers (a
delayed job is promoted, a stalled one is noticed). It assumes nothing of clients:
new requests, crashes and faults of the database are not fair. `requests_in_turn` injects
failing steps and deaths of the web process, but no lost writes, failing claims or dead workers: with those
the property is false, because BullMQ may give up a job that stalled. A job that no request dispatched before the web
process died is its one exception (`LeftUndispatched`).

`ConsoleFairness` assumes weak fairness for each step of a load (the server answers, or the
request is rejected: the browser gives up in the end) and for the timer of the page. It assumes nothing of
workers, of other administrators, or of what is clicked, so `SetupEndsOnScreen` says only
that what has ended is seen. A failed load takes the same step as an answered one to the next
poll; the bound on failures keeps them from being all there is.

The other runs check safety only and assume no fairness.

## Proofs

`TenantProvisioningProofs` proves, for every set of tenants, keys, requests and
workers, every `Attempts`, `MaxStalled`, `MaxFaults` and mix of faults, in both
dispatch modes:

| Theorem | Statement |
|---|---|
| `TypeCorrect` | `Spec => []TypeOK` |
| `ActiveTenantsAreBuilt` | `Spec => []ActiveTenantIsBuilt` |
| `CompletedJobsWereBuilt` | `Spec => []CompletedJobWasBuilt` |
| `DispatchedJobsAreDurable` | `Spec => []DispatchedJobIsDurable` |
| `TerminalJobsAreFinished` | `Spec => []TerminalJobIsFinished` |
| `ActiveLostOnlyByWorkers` | `Spec => ActiveLostOnlyToFailingRun` |

None of the invariants is inductive alone. A tenant is active only when built because
the run that activates it went through the earlier steps, and what those steps left is
never taken away: `IndInv` adds `ProcsOK` (the steps before the one a process is at
have left their artefacts; its job row is durable from the dispatch on and belongs to
its tenant) and `JobsOK` (rows have tenants, completed ones were built, terminal ones
are finished). The argument that other processes stay fine rests on `Grows`: artefacts
and durable jobs are never undone. Each action has one lemma; `Assemble` combines the
move of one process with the four kinds of rows. The assumptions are the `ASSUME`s of
`BullQueue` and `ProvisioningAssumption`.

The other proof modules hold, for every value of their constants within the hypotheses
that stand in the theorem:

| Theorem | Statement |
|---|---|
| `TenantTurnProofs!TurnsKeepTheLifecycle` | `InTurn => (Spec => LifecycleKept)` |
| `TenantTurnProofs!BuildsComeOneByOne` | `InTurn => (Spec => []OneBuildAtATime)` |
| `TenantTurnProofs!OnlyRetriesAreStranded` | `InTurn => (Spec => []StrandedOnlyBeforeDispatch)` |
| `TenantTurnProofs!ProvisioningIsOnItsWay` | `InTurn /\ "web_crash" \notin FaultKinds => (Spec => []ProvisioningIsPending)` |
| `TenantTurnProofs!AttemptsStayBelowDeliveries` | `QueueOnly => (Spec => []AttemptsAreDeliveries)` |
| `AccountsProofs!TypeCorrect` | `AccountSpec => []AccountTypeOK` |
| `AccountsProofs!LockedOutStays` | `AccountSpec => []LockedOut` |
| `AccountsProofs!NobodyLosesRole` | `AccountSpec => []RolelessHasCause` |
| `AccountsProofs!RefreshedOnce` | `~Overlap => (AccountSpec => []OneHeir)` |
| `AccountsProofs!NoSessionIsSpared` | `~Overlap /\ MaxDeaths = 0 => (AccountSpec => []RevocationReachesAll)` |
| `HandlersInTurnProofs!AccessTypesCorrect` | `AccessSpec => []AccessTypeOK` |
| `HandlersInTurnProofs!OpenableProjectsAreListed` | `AccessSpec => []OpenableIsListed` |
| `HandlersInTurnProofs!PermissionsStay` | `~Overlap => (AccessSpec => []PermissionStaysInItsProject)` |
| `HandlersInTurnProofs!ClearingIsSafe` | `NamesEvery => (ChannelSpec => ClearingLosesNothing)` |
| `HandlersInTurnProofs!OnlySecretsAskedFor` | `~Overlap /\ NamesEvery => (ChannelSpec => SecretsChangeOnRequest)` |
| `HandlersInTurnProofs!DependencyTypesCorrect` | `DependencySpec => []DependencyTypeOK` |
| `HandlersInTurnProofs!StoredSpellingsCloseNoCycle` | `~Overlap => (DependencySpec => OnlyOtherSpellingsCloseCycles)` |
| `HandlersInTurnProofs!FiledGraphsStayAcyclic` | `~Overlap /\ Spellings = {"stored"} => (DependencySpec => []FiledGraphsAcyclic)` |
| `HandlersInTurnProofs!ScheduleStaysAcyclic` | the same for `ScheduleIsAcyclic`, when all tasks are in one project |
| `HandlersInTurnProofs!ChannelTypesCorrect` | `ChannelSpec => []ChannelTypeOK` |
| `HandlersInTurnProofs!RequestTypesCorrect` | `Spec => []TypeOK`, of `MCHandlersInTurn` |
| `UnitProofs!UnitTypesCorrect` | `UnitSpec => []UnitTypeOK` |
| `UnitProofs!HistoryIsLegal` | `UnitSpec => []HistoryShowsLegalMoves` |
| `UnitProofs!StatusesAreAccountedFor` | `UnitSpec => []StatusIsAccountedFor` |
| `UnitProofs!TurnsKeepTheLedger` | `~Overlap /\ MaxDeaths = 0 => (UnitSpec => LedgerKept)` |
| `PlanningProofs!GenerationTypesCorrect` | `GenerationSpec => []GenerationTypeOK` |
| `PlanningProofs!UnitsHaveOneMaker` | `GenerationSpec => []EveryUnitHasOneMaker` |
| `PlanningProofs!BatchesLeaveBeginnings` | `GenerationSpec => []LeavesABeginning` |
| `PlanningProofs!OverlappingBatchesMakeProgress` | `GenerationSpec => []SomeBatchWins` |
| `PlanningProofs!TowersGetLocations` | `TowerSpec => []UnplacedTowerHasCause` |
| `PlanningProofs!TowersTypeCorrect` | `TowerSpec => []TowerTypeOK` |
| `PlanningProofs!DrawingsTypeCorrect` | `DrawingSpec => []DrawingTypeOK` |
| `PlanningProofs!VersionsFormOneChain` | `DrawingSpec => []OneChain` |
| `PlanningProofs!StoredIsLatest` | `DrawingSpec => StoredVersionIsLatest` |
| `PlanningProofs!SearchTypesCorrect` | `SearchSpec => []SearchTypeOK` |
| `PlanningProofs!SearchKeepsItsInvariant` | `SearchSpec => []SearchInvariant` |
| `PlanningProofs!SearchDecidesReachability` | `SearchSpec => []VerdictIsReachability` |
| `PlanningProofs!PlanningTypesCorrect` | `Spec => []TypeOK`, of `MCPlanningOverlap` |
| `UpkeepProofs!UpkeepTypeCorrect` | `UpkeepSpec => []UpkeepTypeOK` |
| `UpkeepProofs!PoliciesStand` | `UpkeepSpec => []EveryTableIsPoliced` |
| `UpkeepProofs!LedgersAgree` | `UpkeepSpec => []LedgersNameTheTables` |
| `UpkeepProofs!ActiveTenantsAreWhole` | `UpkeepSpec => []ActiveTenantIsWhole` |
| `PageProofs!NothingOldIsShown` | `ConsoleSpec => TimeNeverGoesBack` |
| `PageProofs!ProjectPageTypesCorrect` | `ProjectPageSpec => []ProjectPageTypeOK` |
| `PageProofs!SavedIsShown` | `ProjectPageSpec => SavedIsOnScreen` |
| `PageProofs!ConsoleTypesCorrect` | `ConsoleSpec => []ConsoleTypeOK` |
| `PageProofs!OnePollsWhileWorkIsShown` | `ConsoleSpec => []OnePoller` |
| `PageProofs!SpinnersAreAnswered` | `ConsoleSpec => []SpinnersEnd` |
| `PageProofs!PageIsWholeOrWaits` | `ProjectPageSpec => []WholeOrWaiting` |
| `PageProofs!TypesCorrect` | `Spec => []TypeOK`, of `MCPages` |

Hypotheses. `~Overlap` is requests in turn; the section on departures says what goes wrong
without it. `InTurn` is that for provisioning: at most one request, no synchronous mode, and of the
faults only steps of a run that throw and deaths of the web server (so that no failing `queue.add`
makes a request provision by itself, whatever `MigrationUrl` is). `QueueOnly` leaves every fault and any overlap, and excludes the two ways in which
a request runs a job that BullMQ never delivered. `NamesEvery` says that every body names every
channel, as the settings page's do; `legacy_secret_lost` shows the theorem false without it.
`MaxDeaths = 0` is no handler that dies between two statements. `Spellings = {"stored"}` is clients that
send the ids of tasks as they got them, as the page does. `FiledGraphsStayAcyclic` is false without it
and without `~Overlap`, and `ScheduleStaysAcyclic` without one project: the three ways above.

Provisioning in turn (`TurnInv`). The status of a tenant is written by requests and by runs
that look at different rows, so nothing follows from one row alone. The invariant says which job
can still decide the status: a job is `Engaged` from its registration until its run has gone
through or has failed for the last time. A tenant is "provisioning" exactly while one job is engaged
with it, two never are, and `EntryOK`, `WorkerOK` and `RequestOK` tie the entry of BullMQ to the
worker that holds its lock. `Together` is the common step: the work of one process on one key
disturbs no other. That at most one run builds, that each step is one of `TenantLifecycle` or a
stutter, and that only an undispatched retry is ever stranded, follow from it. Without the exception for
such a retry (`ProvisioningIsOnItsWay`) it takes that the web process does not die, and one more fact
(`DispatchInv`): a job that is not in the queue has a request that is dispatching it.

Attempts and deliveries (`CountInv`). "attempts <= started" is not inductive: a delivery
could begin its run twice. The invariant counts: the attempts of a job together with the
workers that hold a delivery of it and have not begun its run are no more than the deliveries
started. It is the one proof about cardinalities, and needs finitely many workers.

Accounts. `TypeInv` adds to the types what a request may rely on (`Sound`: the row it names is
there and belongs to its user). `LateInv`: a user who was locked since a request began, and not
unlocked, is not active. `Caused`: a missing role has a handler. `HeirInv`: a session that was
refreshed from is dead, and a request between the revocation and the INSERT holds an id that has
no heir. `RevokeInv`: every live session knows the password of the last reset and has an
user who is neither suspended nor deleted (`Open`), or the handler that will revoke it is at work; every request that will issue a session
knows as much. The last two rest on `StepAlone`: a step is made while all other handlers are idle.

Access and channels. `AccessTurn`: there is at most one assignment, none while it is replaced,
and what a request was checked against has not changed since. `ChannelInv`: a request holds
either what the legacy column has or a column that has been cleared since, and every channel before
the one it is at is settled, so that counting the rows before clearing is enough, whatever
overlaps.

Planning. A batch has made what lies before its place, in the order of the loops (`WorkOK`),
and every row has one maker. `SomeBatchWins` needs an invariant about races (`LeadInv`): as long
as nobody has answered 201, past the last row of any tower is a handler that is still at work,
so that the leader is never refused. Units, towers and drawings have invariants of the same kind:
what was read stays true because rows are only added (`ReadStillHolds`). The refinement of
`UnitLifecycle` maps the log to the history plus the row of the handler that has
updated the unit and not yet told it, so the UPDATE is the abstract step and the INSERT
a stutter.

Dependencies. `Reach` is defined without recursion, as what every closed set with the start
contains: a set is shown to be reached by showing it closed, and a task to be unreached by
exhibiting a closed set without it. So when the search has run out of tasks, `seen` is
that set (`SearchInvariant` says it is closed and lacks the predecessor); when it stops
with a cycle, every task it met is in `Reach`. An insert keeps a graph acyclic because
`Reach` without the new edge is still closed with it when the predecessor is not in it;
that the check still holds at the INSERT is `CheckStillHolds`, the part that needs
requests in turn and speaks only of ids spelled as they are stored.

The four of `Upkeep` rest on one inductive invariant, `UpkeepInv`. That the ledgers name the
tables is kept by a migration only if the central ledger names nothing a filled local one
lacks (`TenantOK`). A rollback takes things away, so it must be alone with its tenant
(`RollbackAlone`); the fleet does not look for it, but finds no schema to migrate there until a
provisioning creates one, which waits for the rollback (`ProcessOK`). `MigrateKeeps` is the
one lemma about the ledgers; `MigrationInv`, `ProvisionStepInv`, `RollbackStepInv` and
`QuietStep` are what the actions have in common.

Pages. In the console only the last load that began is current (`OneIsCurrent`), it reads after it
began, and so what a current load has read is between what is shown and what is in the database
(`LoadOK`): never older than the first, never newer than the second. The number of pages is
compared as well, and follows because jobs are never deleted (`PagesGrow`). The property speaks
of the step, so it also needs that nothing but `setData` of a current load changes what is shown. In
the page of a project (`PageInv`) the reads that a save causes begin after what it stored, so
each is empty or at least as new as the save (`SaveOK`); versions only grow, so another
user's save does not disturb it.

Polls and spinners (`PollInv`). A poll that is overtaken still sets the next timer when it ends,
unless its effect was cleaned up, so neither `current` nor the timer alone tells whether the page
will look again. What does is the set of slots that poll (`Polls`): with work on the screen it has one
element and there is no timer, or it is empty and there is one; without work both are empty.
Each way in which loads change has a lemma about it (`BegunPolls`, `OverPolls`, `CancelledPolls`). A
free slot neither polls nor is current (`FreeOK`), and a page that is shut shows nothing and loads
nothing (`ShutOK`), which is what a step that takes a slot needs. Of the page of a project `WholeInv`
says that it is either whole, or nothing has been saved yet and its first reads are under way behind the
spinner or have left an error.

Types. `BoundInv` bounds the counters of the console: a setup changes the database at most twice, when
it is begun and when it ends, so changes and unfinished setups together are no more than twice the
jobs, and the page the last job is on is one of the pages of `MaxJobs`. For the channels, `ChannelTypes` adds to the types
that a handler in its loop stands at a channel it has something to write for (`Stopped`); where the
loop stops is the first of some positions, which is the one use of well-founded
induction (`FirstPosition`). A behaviour of an MC module makes one kind of request, so
its `TypeOK` follows from the invariants of its parts, each for its kind (`AnyInv`,
`OverlapInv`, `EitherInv`): the step of another kind never happens, and the parts need not be shown
to leave each other alone.

Assumptions on the constants, each an `ASSUME` that TLC evaluates: there is a role
(`SessionsAssumption`; the product seeds them), a floor may have at least one unit
(`GenerationAssumption`; the code's limit is 50), the legacy marker and the channels are as
`ChannelAssumption` says, no project is the value for "no project" and only roles that exist are
edited (`AccessAssumption`), workers, tasks and companies are finitely many
(`ProvisioningAssumption`, `TasksAssumption`, `ConsoleAssumption`), every tenant of the control center
has a job and `MaxJobs` has room for it (`ConsoleAssumption`; a tenant is created with its job), a page has a part
(`ProjectPageAssumption`; the code's has eight), and the ranges of the bounds.

Only model-checked: `ProvisioningSettles` and `SetupEndsOnScreen`. They are liveness under
fairness, which is outside the prover's reach. Every other property of the passing runs is the
statement of a theorem above, some under the hypotheses of the run that checks it; the properties
of the violation runs are false, and have no theorem but under a hypothesis that excludes what the
run shows (`ClearingLosesNothing`). Six statements are proved and no run asks for them:
`ProvisioningIsPending`, which `retry_stranded` shows to need its hypothesis; `FiledGraphsAcyclic` and
`ScheduleIsAcyclic`; and `TerminalJobIsFinished`, `HistoryShowsLegalMoves` and `StoredVersionIsLatest`,
which the inductive invariants of their modules need, or which follow at once from what a run checks.

## Not modelled

- The rate limiter (a counter per address in one process), hashing and encryption, cookies and
  headers, the middleware (it only routes), the audit rows: no property is about them.
- Control-plane migrations and the grants to the runtime role; `search_path`, connection pools and
  row-level security itself: a tenant's tables are taken to be its own.
- What is stored below a project by one INSERT or UPDATE (blocks, categories, milestones, BOQ, RFIs,
  issues), branding, CRM leads, dashboards, health checks: single statements.
- The other pages, which read once or send one form; layout and wording; the mobile client, the AI
  and notification packages, which nothing calls.
- BullMQ forgetting completed jobs (`queues.js:227`).

## Plan

1. Provisioning (done): modules, runs, theorems.
2. Units, towers, dependencies and drawings (done): modules, runs, theorems.
3. Sessions and accounts, channels, access (done): modules, runs, theorems.
4. Migrations, fleet, seed and rollback (done): module, run, theorems.
5. The console and the page of a project (done): modules, run, theorems.
6. Composition (done): the `TypeOK` of each MC module as a theorem, from those of its parts.

Nothing is left of the plan; what it leaves out is under "Not modelled".
