# A TLA+ model of keycloak-monitoring

keycloak-monitoring is one Go server process that watches the Keycloak
installations of many tenants. It polls each tenant's health, metrics, realms
and events, mirrors the events of a second source (AMFA), keeps them in
PostgreSQL/TimescaleDB, checks configurations and events, raises alerts,
announces them in GitLab, Slack or by mail, and serves an HTTP API and an MCP
server. This directory holds TLA+ modules for the parts of it whose correctness
depends on the order in which goroutines, requests, database calls and restarts
happen, the TLC configurations that check them, and TLAPS proofs of the
properties that matter most.

Paths in this document are relative to `src/`.

## 1. Inventory

### Parts, their state and their operations

| Part | State | Operations |
|---|---|---|
| Tenant service (`internal/tenant/service.go`, `postgres/repository.go`) | tenants table, cache, `updateMu`, `cacheMu`, callback queue | create, update, delete, sync from config, unmark, get, list, LoadTenants, health and error writes |
| Monitor pool (`internal/tenant/monitor_pool.go`, `monitor_pool_retry.go`) | map of running monitors, pending retries, two mutexes | Start, Stop, handleTenantChange, the retry loop |
| Keycloak event collection (`internal/keycloak/monitor.go`, `event_cursor.go`) | per realm: cursor, seen ids, sweep position, retries | poll, sweep, advance, prune, retry of failed writes |
| Outage alerts (`internal/fx/monitoring.go`) | last status of each tenant | health status, tenant no longer monitored |
| Alert store (`internal/alerts`) | alert rows with status and occurrence | Save, UpdateStatus, Resolve, Delete, lists |
| Notifications (`internal/notifications`, `internal/fx/notification_retry.go`) | notification log, GitLab issues | send once per occurrence, share, reopen and close an issue, retry |
| Check alerts (`internal/alerts/clearing`, `internal/amfacheck`, `internal/eventscheck`, `internal/configcheck`) | alerts of the checks, misses, the event-check cursor | detect, raise, supersede, clear, reopen |
| Silence rules (`internal/alerts/silence_manager.go`) | rules with a window | match an alert |
| AMFA mirror (`internal/amfamirror`, `internal/events/postgres`) | watermark in memory and stored, the events table | paged pull with an overlap, merge, reconcile sweep |
| Tenant purge (`pkg/database/tenant_purge.go`) | purge queue, telemetry rows | queue, drain in windows and batches |
| Database start (`pkg/database/client.go`, `internal/fx/bootstrap.go`, `internal/rbac/seeder.go`) | schema lock, schema, one-shot marks, seeded roles and user | migrate, seed, synchronise tenants, serve |
| Accounts, sessions, API tokens (`internal/users`, `internal/auth`, `internal/apitoken`) | users with a session epoch, cookies, memory-only blacklist, tokens | login, SSO callback, logout, password and status changes, issue and revoke tokens |
| Identity provider login (`internal/auth/provider_retry.go`, `login_cookie.go`, `oauth2_admin.go`) | connection, last attempt, a login in each browser's cookie | discovery with retries, begin, callback, admin role |
| RBAC (`internal/rbac`) | roles, assignments, tenant policies | create, change, delete, grant; permission and scope questions |
| HTTP API, MCP server, reports, operator metrics | none of their own | admit a request, resolve its scope, read rows |
| Event storage alerts, background workers, realm information | counts, running workers, realm rows | raise at the n-th failure; Go and Drain; collect and retire |
| Configuration, logging, metrics, web UI | no protocol of their own | loading and rendering |

`PROJECT.json` lists every one of them under "components", with its status.

### How they interact

- An HTTP request that changes a tenant takes `updateMu`, reads the tenant
  through the cache, writes the row, stores the cache entry, and queues a change
  for the callbacks while it still holds `updateMu`. One worker goroutine takes
  the changes from the bounded queue and runs the pool's `handleTenantChange`.
- The pool starts and stops monitors under its own mutex. Boot or shutdown, the
  callback worker and the retry loop compete for it.
- A monitor reports every health check to the tenant service (row, then cache
  entry) and to the health alert manager (row, then notification, then log).
- The notification retrier, operators, monitors and checks change the same alert
  rows and the same log with no lock in common; several alerts share an issue.
- The AMFA mirror and the Keycloak monitor write halves of the same logins into
  one table, and a sweep over all tenants merges them.
- A session is a signed cookie; what ends it is an epoch in the account's row
  and a blacklist in one process's memory.
- A request's permission, its realm scope and its rows are read at different
  moments, while administrators change roles, policies and tenants.
- The HTTP server starts before the monitoring hook: `LoadTenants` and the
  start of the pool run beside requests. Several servers may start against one
  database; a lock serialises their migrations.

### Behaviours that are hard

Several database or network calls make up one operation, and other goroutines
run between them; Keycloak and AMFA commit events late and out of order; clocks
differ; queues, pages and drains are bounded; a restart loses cursors, misses,
tracked statuses, pending retries and the session blacklist; migrations may
crash half-way. `PROJECT.json` ("hazards") lists them at the lines where they
bite, each with the properties that would catch it, or the reason none does.

### What makes each part correct

- *Tenant service*: the cache follows the table, no edit undoes another, a
  health check and an edit do not overwrite each other, one default tenant,
  config-defined tenants are read-only after boot but for the default flag.
- *Monitor pool*: at most one monitor per tenant, none for a disabled tenant,
  every change is handled, shutdown ends.
- *Event collection and mirror*: no event is lost, none is processed twice, the
  halves of a login meet.
- *Alerts and notifications*: every problem is raised and announced once per
  occurrence on every channel, failures are retried, an alert closes when and
  only when its problem is gone, an operator's choice stands, an issue is open
  exactly while an alert needs it.
- *Accounts, sessions, tokens*: what was ended is never accepted again, nothing
  else is ended, a browser gets the session of the login it began.
- *Reads*: no answer holds a row its user was not entitled to.
- *Start*: a server that serves has a complete database and, where simple auth
  names one, its default administrator, migrations undo nothing done since, a re-created tenant inherits nothing and loses nothing.

## 2. Modules

| Module | Models | Uses |
|---|---|---|
| `MonitorPool`, `MonitorPoolProofs` | the pool, its retry loop, and the tenant service as far as it announces changes | |
| `TenantCache`, `TenantCacheProofs` | the tenant service: table, cache, `updateMu`, boot, LoadTenants, health writes | |
| `EventCursor`, `TelemetryProofs` | one realm's event cursor against a Keycloak that commits late | |
| `OutageAlerts`, `AlertProofs` | one tenant's DOWN alert: manager, row, log, retrier, operator, GitLab issue | |
| `Access`, `AccountProofs` | accounts, sessions and API tokens over several server instances | |
| `SsoLogin`, `AccountProofs` | discovery with retries, the login cookie, the callback and the admin role | |
| `Rbac` | roles, assignments, policies: their handlers, and the questions asked of them | |
| `ReadApi`, `ReadApiProofs` | the read handlers of HTTP and MCP and the queries behind them | extends `Rbac` |
| `AmfaMirror`, `AmfaMirrorProofs` | the mirror, the Keycloak half, the merge and the sweep | implements `LoginStore` |
| `LoginStore` | what the events table promises about the logins of a source | |
| `CheckRules` | the rules of the checks and of silences, as operators | |
| `CheckAlerts`, `CheckAlertProofs` | the life of a check's alerts, with operators and restarts | extends `CheckRules` |
| `AmfaEventCheck`, `AlertProofs` | the event checks of AMFA with their cursor | |
| `SharedIssues`, `CheckAlertProofs` | alerts of one provider on one GitLab issue and other channels | |
| `Schema` | the migrations and the seeding, as functions of the database | |
| `Startup`, `TelemetryProofs` | starts of servers, with crashes, beside tenants that come and go | extends `Schema` |

Each state machine has an `MC` module with what only TLC needs: symmetry sets,
instances, and in part the fairness. Definitions whose comment begins with
"Mutant" are altered forms of the definition after them, used to confirm that a
property can fail; nothing else refers to them. The type invariant `TypeOK` is a
conjunct of one of the properties of each run, so that the run checks it too.
In `OutageAlerts` it is `OutageTypes` and the specification `OutageSpec`; likewise
`StartupTypes` and `StartupSpec`, `LoginTypes` and `LoginSpec` (`SsoLogin`),
`IssueTypes` and `IssuesSpec` (`SharedIssues`), because `AlertProofs`,
`TelemetryProofs`, `AccountProofs` and `CheckAlertProofs` each extend two state
machines.

### MonitorPool

`th` holds each goroutine's program counter and locals; `mu` is the pool mutex.
A step ends where the code makes a call during which others may run: waiting for
the mutex (`StartBegin`, `HandlerStop`, `RetryUndo`), creating a monitor
under it (`StartEnd`), and every read of the tenant service (`RetryRead`,
`RetryCheck`, `RetryRecheck`). `retryMu` is only held across map operations, so
each of those is part of a step. A tenant's settings are a revision number and a
monitor remembers the one it was started with; `born` tells a re-created tenant
from the one deleted before. `live` counts running monitors whether or not the
map knows them. A pending retry may fall due at any moment. `missed` collects
the tenants changed before the callback is registered: the code announces those
to nobody (section 6).

### TenantCache

`call` holds each caller's request and what it has read; every database call is
a step, and what `cacheMu` protects is one step. A tenant's configuration is a
version number; `def`, `conf` and `health` are kept because the code treats them
differently: repo.Update leaves the health columns alone, storeTenant keeps the
cached health and clears the default flag elsewhere, and Got refuses
config-defined tenants. `overtaken` records the tenants whose row changed while
an older copy of it was on its way to the cache by a route that does not take
`updateMu` (LoadTenants; a miss that a deletion, or another tenant that takes
the default flag, overtakes; a health check that a deletion overtakes). The
properties except `EveryWriteInOrder` are stated for the other tenants, so
that they say exactly what `updateMu` and the second look in GetTenant achieve.

### EventCursor

`time` is Keycloak's clock; the monitor's runs up to `Skew` ahead of it, by an
amount chosen anew for every cycle. `Commit` makes an event visible up to
`LateWindow` after its stamp, or up to `Ahead` before it, between any two
requests. `ExactPage` is one request of exact times, oldest first, and the
processing of its page (`SweepRead`, `PollRead`), of which any part may fail to be
written. `DatePage` is one request of getEventsSinceByDate, which serves a Keycloak
before 26.2: `walk` holds the pages it has read, newest first, and what it kept of
them; at the last page all of it is processed as one page that is never full. Any
read may be of either kind, since the version is read again and a reply outranks
it. `missed` collects what a walk passes over (section 6), and `NoEventLost`
excepts it. `SweepError` and `PollError` are
failing requests. `Restart` loses the cursor. A page is any set of events that
Keycloak may return, events of one time being in any order. One
restriction is taken from the code's own: no more events share a millisecond
than fit a page (otherwise the offset fallback of readEvents is not exact).

### OutageAlerts

Every database or GitLab call is a step of one of four goroutines. An occurrence
is a number; the log credits a send to the occurrence that is current when the
entry is written, because that is what the code's comparison of `created_at`
with the start of the occurrence does. `Faults` says which calls may fail and
whether the server restarts, `Ops` what the operator does and whether silences
match the outage when it is found (`RaiseAlert`; the tenant's status is remembered
all the same). `hushed` records such an outage until it ends: nobody is told of it
(section 6), and `AnnouncedOrRetried` excepts it.

### Access

A handler that reads a row and later writes it is two steps (`call` holds what
it read); one transaction or one statement is one step. A cookie carries its
subject, its epoch and its age; `authenticateFromSession` is the middleware's
predicate over the blacklist of the instance, the age and the account's row.
`cuts` counts, for each account, the changes that were to end its sessions, and
a session remembers the count at which the request that made it *read* what it
was let in by; `states` does the same for tokens and status changes. `renamed`
is set when a subject changes hands: the promise that current sessions are kept
is made only without that (section 6).

### SsoLogin

`Get` is RetryingOIDCProvider.get up to the mutex and the spacing check; who
holds `mu` is in discovery, which ends in `Discovered`, `DiscoveryFails` or, for
a request, `GivesUp`. `Run` is the background loop with a ticker that drops
ticks it cannot deliver. A login is what the browser's cookie holds; `Authorizes`
is a person opening the provider's page for any login, in whatever browser, and
`Take` consumes the cookie. The ID token's claims are chosen at the exchange, so
two overlapping logins of one account may carry different ones.

### Rbac and ReadApi

`db` holds roles, assignments, policies and tenants; a question (a permission,
the realm scope, the visible tenants) is an operator of it. An administrator's
handlers are transactions of their own, or a read and later writes. A read is
admitted in one step and served in the next, with administrators in between;
what it may answer is the set of rows the repository query returns for the
filter the handler makes of the scope. `held` and `scope` accumulate what the
user was entitled to *at some moment* since the request arrived: an answer that
mixes two moments is accepted, one that no moment allowed is not.

### AmfaMirror and LoginStore

A cycle reads a page, merges its rows one by one into the events table, moves
the watermark (`recordWatermark`: memory, then best-effort in the table) and runs
the sweep. Rows of AMFA become visible up to `MaxLag` late; the Keycloak half
of a login is written at any moment; `Restart` loses memory and may change the
configuration; `PurgeTenant` removes a tenant that left it. `LoginStore` knows
only `Arrive`, `Learn` and `Forget`: how rows are paged, merged and swept is
invisible to it. `AmfaMirror` implements it under the mapping of `source` to the
rows visible in AMFA and of `known` to the ids stored as a row of either source.

### CheckRules and CheckAlerts

`CheckRules` has one operator per rule, over records that keep what the rule
looks at. `CheckAlerts` runs one check of one tenant on one realm: evaluate,
then for each alert found look up, save and announce, then supersede, then
resolve what was not found, each database call a step. `Scenes` gives each kind
of check its configurations, the states of the realm it meets, and the bounds on
what changes. `quiet` counts, independently of the code's `misses`, the looks in a
row that truly did not find the problem: a look is a read of the problem's subject
by a check that looks for it, or learns that the realm is gone. A read with the
sub-check switched off is no look (`internal/configcheck/service.go:436`-`:438`).
`lost`, `skipped` and `run.raced` mark the overlaps described in section 6.

### AmfaEventCheck

`read` returns at most `PageCap` events after the cursor less the window;
`Commit` moves the cursor by which alerts were stored. Events become visible in
any order (`AmfaCommits`); those within the window are `due` until an alert is
stored, a silence covers them, or a restart resumes after them. A crash loses
cursor and handled events; `Resume` starts from the newest alert, or a lookback.

### SharedIssues

Two callers - a run of the configuration check and an operator's resolution in a
goroutine of its own - announce and resolve alerts, with every query and every
request a step. The channels a call has yet to serve are a set, worked off in the
order of `ChannelOf`. `log` is the sends that succeeded, each credited to the
occurrence current when it was logged. `told` counts announcements per channel;
`excused` and `doubt` collect, by the action that caused it, the issues and
alerts that a person, a failure or one of the overlaps of section 6 spoiled.

### Schema and Startup

Every migration is an operator from a database to the set of its results: done,
failed with an error, failed and only logged, refused, and - for a step of
several statements outside a transaction - any prefix of them. `Startup` walks
two servers through the steps in the order of AutoMigrate and runBootstrap under
the schema lock; a server may crash anywhere, its drain continues while another
serves, and administrators, tenants and a user signing in change what later
starts find. The initial states are installations: a database and `auth`, what the
configuration says of simple auth (`AuthKinds`: not enabled, without a
default_email, without a default_user or default_pass, complete), which stays as
it is. A sign-in may be refused because the account is inactive or blocked
(`SignIn(claim, FALSE)`): then its claim is stored and its time is not. The
proofs take any database of the set `Database` with any configuration. `born` and `gone` are the times a tenant was
last created and deleted, and `unqueued` collects the tenants whose later queue
entry was removed with that of an earlier deletion (section 6). Tables
are reduced to what a migration tells apart (an index is none, plain or live;
a row has a realm, its true owner and its tenant_id).

## 3. Runs

| Run | Instance | Distinct states | Checks |
|---|---|---|---|
| `monitor_pool` | 1 tenant, 2 changes, queue of 1 | 0.19 million | `OneMonitorPerTenant`, `DisabledTenantStops`, `ChangesAreHandled`, `StopReturns` |
| `event_cursor` | 3 events, page of 1, walks of 2 pages, skew 1, horizon 2 | 1.6 million | `CursorNotAhead`, `NoEventLost`, `ProcessedOnce` |
| `outage_alerts` | 2 occurrences, 2 issues, restarts, silences, all operator actions | 1.7 million | `AnnouncedOrRetried`, `NewOutageNewOccurrence`, `EventuallyAnnounced` |
| `tenant_cache` | 2 tenants, 2 callers, 3 versions, all work, all faults | 7.0 million | `CacheFollowsDatabase`, `EditsBuildOnLatest`, `HealthAgrees`, `ConfigDefinedReadOnly` |
| `access` | 1 account, 2 names, 2 subjects, 2 requests, 2 sessions or tokens, 2 changes that end them | 2.2 million | `EndedStaysEnded`, `CurrentSessionsKept`, `TokensEndWithStatus` |
| `read_api` | 1 user, 2 tenants, 2 realms, 1 custom role, 2 administrators, 3 changes | 0.5 million | `ReadsConfined`, `AccessibleIsListed`, `NoEmptyRole` |
| `amfa_mirror` | 2 tenants, 1 mirror, 2 logins, page of 2, overlap 2, 2 restarts, 1 fault | 0.86 million | `NoLoginSkipped`, `RefinesLoginStore`, `HalvesMerge` |
| `check_alerts` | one scene per kind of check: realm, client, provider, events, AMFA | 0.55 million | `ResolvedOnlyWhenFixed`, `OperatorChoiceKept`, `AlertsFollowProblems` |
| `amfa_event_check` | 3 events, window 4, lookback 2, 1 fault, 1 crash, a silence | 0.57 million | `NoEventLost`, `AlertedOnce`, `DueHandled` |
| `shared_issues` | 3 alerts of a provider, 2 channels, 2 occurrences, 1 fault, 1 person | 1.1 million | `HeldIssueOpen`, `AnnouncedOnce`, `NoIssueLeft`, `EveryChannelTold` |
| `startup` | 2 servers, 2 tenants, 5 installations, 1 fault, 1 crash, 2 changes | 6.8 million | `ServesSafely`, `NothingInherited`, `MigratedOnce`, `NewerRowsSurvive` |
| `sso_login` | 2 browsers, 2 requests, 2 logins, spacing and timeout of 1 tick | 0.76 million | `SignInVouched`, `AttemptsSpaced`, `Recovers` |

Every run explores its whole state space; that of `tenant_cache` is cut by a
CONSTRAINT (below). The remaining `.cfg` files are the
reproductions of section 6.

**Bounds.** *Pool*: tenants are treated alike and share only the mutex and the
queue, so one tenant with two changes and a queue of one reaches a change during
a retry, another behind it, and a full queue. *Cursor*: with pages of one, an event
fills a page, a second goes on to the next, and a third is below a walk by date of
two pages; the clocks differ by the margin, and two ticks cover a sweep, the next one and an
event committed between them. The VIEW of MCEventCursor tells states apart up to
*how* an event was settled (stored, given up or missed) and which events were
processed twice, on which neither a step nor a property depends. The properties
also hold with `PageSize = 2`, where events of one time meet at a page boundary,
and walks of two pages (1.9 million states) or one (1.5 million). *Outages*: two
occurrences are one announced outage and one to be told from it. *Cache*:
`updateMu` admits one caller at a time, so two suffice: one holds it, the other
reads or waits; three versions are the row of the last run, an edit and an edit
of that edit. Two tenants compete for the default flag; the CONSTRAINT
`OneOrChanges` of MCTenantCache follows cached reads and health checks only while
no more than one tenant is there, where they meet every change of that tenant, so
what a read of one tenant does to a change of another is left to the proofs. *Access*: two requests are the one that read a row and the one
that changes it before it is written; two sessions are the old and the new one;
two cuts are an end and a restoration. *Reads*: two tenants and two realms
distinguish a row from its neighbour; a viewer's assignment may exist at the
start, and three changes are two that set a scene and one during the request.
*Mirror*: two logins fill a page or share a time; the clock of four covers a
backfill, an overlap and a login after it; the second tenant is there for the
sweep over all tenants' rows. *Checks*: two misses are needed to resolve, so two
changes of the realm raise, clear and raise an alert; a third, and a restart with
the sub-check switched off, put a read that does not look between two misses;
scenes without operators or faults leave those to others. *Event checks*: three events are a handled one,
one late before it, and one after. *Shared issues*: one alert that supersedes
another and a third that only shares. *Startup*: the five installations are an
empty database with simple auth complete, not enabled, and without a password; a
single-tenant release without a default_email; and an early multi-tenant release
whose users came by SSO; one crash and one fault in any
step of any start, with the other server behind the lock or serving; two rows of
telemetry are an old and a new one, and a drain limit of one stops the drain
between them. *Sign-in*: two browsers are one that began a login and one that
opens its link. What section 5 lists is proved without these bounds.

Deadlock checking is off where the system may rightly stop: the bounds on
changes, versions and ticks run out, and a pool that was stopped does nothing
more. `outage_alerts` and `sso_login`, where something is always possible, keep it
on.

## 4. Fairness

- `MonitorPool`: every goroutine keeps running (weak fairness), which is what
  Go's scheduler gives. Where a goroutine takes the pool mutex it is strong
  fairness: the mutex can be free and taken again many times while a goroutine
  waits, and sync.RWMutex hands itself over to a writer that has waited. The
  attempts of the retry loop and the administrator's changes need no fairness.
  `ChangesAreHandled` covers the bounded queue whose sender holds `updateMu`,
  `StopReturns` the wait for an attempt in progress.
- `OutageAlerts`: the retrier keeps running, and a channel that is called again
  and again works some day (strong fairness of its send and log). Without that
  assumption on GitLab nothing can be promised; with it `EventuallyAnnounced`
  shows that no interleaving of health checks and operator actions makes the
  retrier forget a failed announcement, unless restarts never end.
- `AmfaMirror`: the ticker starts cycles, and each call of a cycle returns (it
  has a deadline). Faults and restarts are bounded by constants.
- `CheckAlerts`: the ticker starts runs, a run finishes, and time passes between
  runs (strong fairness of `Tick`, which is only enabled between them).
- `AmfaEventCheck`: the ticker starts runs, a run finishes, and a stopped process
  is started again.
- `SharedIssues`: the check runs again and again, and a goroutine that was started
  goes on.
- `SsoLogin`: time passes, the ticker ticks, `Run` goes on, discovery ends (its
  context has a timeout), and `Run` gets the mutex in the end: Go's mutex does
  not starve a waiter. `Recovers` assumes that browsers do not give up during
  discovery for ever: each time one does, the attempts are spaced anew.

`Access`, `ReadApi`, `EventCursor`, `TenantCache` and `Startup` state safety only.

## 5. Proofs

Eight modules hold theorems that `tlapm` checks; each stands beside the module
it is about, four of them (`AccountProofs`, `AlertProofs`, `CheckAlertProofs`,
`TelemetryProofs`) beside two. The constants are arbitrary up to the named assumptions of that
module: sets of tenants, callers, events, browsers, roles and so on may have any
size, bounds are natural numbers, and values that stand for "nobody", "free" or
"none" are not members of those sets. What goes beyond that is named below.
Every inductive invariant was first checked by TLC on the instance of a run.

| Module | Theorems (property of a run in brackets where the name differs) |
|---|---|
| `MonitorPoolProofs` | `TypeCorrect`; `NoSecondMonitor` (`OneMonitorPerTenant`); `DisabledStops` (`DisabledTenantStops`) |
| `TenantCacheProofs` | `TypeCorrect`; `CacheFollows` (`CacheFollowsDatabase`); `NoLostEdit` (`EditsBuildOnLatest`); `HealthsAgree` (`HealthAgrees`); `ReadOnlyHolds` (`ConfigDefinedReadOnly`); `SingleDefault` (`OneDefault`, which `TenantCacheDefault.cfg` checks on two tenants) |
| `AccountProofs` | of Access: `Invariance`; `SessionsEnd` (`EndedStaysEnded`); `SessionsKept` (`CurrentSessionsKept`); `TokensEnd` (`TokensEndWithStatus`). Of SsoLogin: `SignInInvariance`; `SignInsVouched` (`SignInVouched`); `AttemptsAreSpaced` (`AttemptsSpaced`) |
| `TelemetryProofs` | of EventCursor: `Invariance`; `NotAhead` (`CursorNotAhead`); `EventsKept` (`NoEventLost`); `EventsOnce` (`ProcessedOnce`). Of Startup: `StartupInvariance`; `ServesSafe` (`ServesSafely`); `NothingIsInherited` (`NothingInherited`); `NothingIsEverInherited` (`NothingEverInherited`, with one server); `NewerSurvive` (`NewerRowsSurvive`); `MigratesOnce` (`MigratedOnce`) |
| `AlertProofs` | of AmfaEventCheck: `Invariance`; `EventsKept` (`NoEventLost`); `EventsAlertedOnce` (`AlertedOnce`). Of OutageAlerts: `OutageInvariance`; `OutagesAnnounced` (`AnnouncedOrRetried`, as long as saves and log entries succeed); `OutagesAreNew` (`NewOutageNewOccurrence`, without acknowledgements from outdated pages) |
| `CheckAlertProofs` | of CheckAlerts: `FixedBeforeResolved` (`ResolvedOnlyWhenFixed`); `ChoicesKept` (`OperatorChoiceKept`). Of SharedIssues: `IssueStaysOpen` (`HeldIssueOpen`); `AnnouncedAtMostOnce` (`AnnouncedOnce`); `NoIssueIsLeft` (`NoIssueLeft`) |
| `AmfaMirrorProofs` | `Invariance`; `StoreRefined` (`RefinesLoginStore`); `NoneSkipped` (`NoLoginSkipped`, as long as what a cycle reads is less than a page) |
| `ReadApiProofs` | `Invariance`; `AnswersConfined` (`ReadsConfined`); `ListsAgree` (`AccessibleIsListed`); `NoRoleLeftEmpty` (`NoEmptyRole`) |

A proof has the same shape everywhere: the initial states satisfy `IInv`, one
lemma per action shows that it keeps `IInv`, and each property follows from
`IInv`, or, for an action property, from `IInv` and the step. Steps that touch
little share a "calm" lemma that asks only what they could disturb.

**MonitorPoolProofs.** That the map knows every running monitor is not
inductive: a start that is under way would add a monitor to a tenant that got
one meanwhile. The strengthening says why that cannot happen:

    IInv == TypeOK /\ MutexInv /\ LiveInv /\ OneMonitorPerTenant

`MutexInv`: a goroutine is creating a monitor exactly when it holds the mutex,
and then its tenant has none in the map (the check was made under the same
mutex). `LiveInv`: a monitor in the map runs, which also holds during shutdown
when `OneMonitorPerTenant` says nothing.

`DisabledStops` needs a second invariant, because between the moment a tenant
is disabled and the moment the handler stops its monitor, boot, the handler and
a retry may each be about to start one:

    StopsInv == PhaseInv /\ VerInv /\ NoticeInv /\ OffInv

`OffInv` is the argument: for a disabled tenant the pool was told of, everything
that could start a monitor with the settings of the present tenant - a queued
change, a start in any goroutine, an entry of boot's list - and every monitor
that runs is followed by the change that disables the tenant, later in the queue
or on its way into it, or by the handler that is about to stop it, or is a retry
whose pending entry that change has cancelled and which looks at the tenant again
before it leaves its monitor running. `VerInv` bounds the
revisions kept anywhere by those given out, `NoticeInv` says that changes are
announced one at a time in their order (updateMu), and `PhaseInv` that the
handler has nothing to do before the callback is registered.

**TenantCacheProofs.** From

    IInv == TypeOK /\ LockInv /\ DataInv

`LockInv` ties `updateMu` to the program counters: a caller holds it exactly
from Lock to Return, so two callers are never both past it. `DataInv` describes
what is true *while* a change is half done: the caller about to store holds what
it wrote, and the other rows and entries differ at most by the default flag it
takes (`StoreInv`); a row read on a miss is current as long as the tenant is not
cached, unless its writer is storing (`FillInv`, which is why the second look in
GetTenant suffices); an edit has its tenant in the cache (`EditInv`); a deletion
forgets only after the row is gone (`HookInv`); what LoadTenants listed is
current (`ListInv`); cache and table agree or somebody is storing (`AgreeInv`);
at most one row is the default (`DefaultInv`).

`HealthsAgree` adds `HealthsInv`, since a health check takes no lock and may run
between any two steps of a change: the health about to be cached is the stored
one (`CheckInv`); row and entry have one health unless they are the ones being
checked, in the middle of an edit too (`SameHealthInv`); an entry without a row
is about to be forgotten (`GoneInv`), so an edit that inserts a row which is gone
cannot meet an old entry; and a row read on a miss, an entry that replaces none,
and what LoadTenants listed carry the stored health (`MissInv`, `NewInv`,
`LoadedInv`).

`ReadOnlyHolds` adds `ConfInv`: boot makes its calls one by one with nothing
overtaken, so when the server starts, cache and table agree on which tenants are
config-defined (`BootInv`, with `AgreeInv`); from then on all calls are API
requests (`OpInv`), every copy of a config-defined row says that it is one, and
no call past the check is about to change it (`MarkedInv`). The property compares
every field of the row (`Untouched`), and a write of one tenant reaches the rows of
the others only at the default flag (`WriteLeavesOthers`): that is `LosesDefault`,
the exception it makes.

**AccountProofs, Access.** From

    IInv == TypeOK /\ RowInv /\ SessionInv /\ CallInv /\ ListInv /\ TokenInv

A cookie, or a login about to write one, has the count of cuts its account had
when the request read it. `SessionInv` and `CallInv` say (`Good`) that this count
is at most the account's, that a smaller count shows in a smaller epoch, and
that, while no subject changed hands, the same count means the same epoch. So a
cookie that should be refused has an epoch the account has left, and one that
should be kept has the current one. `RowInv` holds the unique indexes on subject
and email, `ListInv` that a blacklist forgets a session only when it is too old
anyway, and `TokenInv` that a token which is not revoked is from after the last
change of status.

**TelemetryProofs, EventCursor.** From

    IInv == /\ TypeOK /\ StreamInv /\ ClockInv /\ NoCursorInv /\ SweepPosInv
            /\ PollPosInv /\ LostInv /\ WalkInv /\ SeenInv /\ ProcessedOnce

`LostInv`: an event that is visible is handled, was passed over by a walk by date,
or the rest of this poll, of this sweep, or the next sweep returns it. `WalkInv`
follows a walk, which starts over the newest events: what it has not kept yet is
older than all it kept and further down the list than the walk has come, shares
its time with an event it kept, or is left to the next sweep. `SeenInv`: whatever a later request may
return again is still in `seen`, unless the clock has stepped back. `StreamInv`,
`ClockInv`, `SweepPosInv` and `PollPosInv` say where the reads stand. The lemma
they meet in, `PageRead`, is that a page in the order of GetEventsSince never
jumps over an event, also where it ends in the middle of one time and the offset
takes over. The assumptions are that the clocks differ by at most
eventClockMargin (`ClockAssumption`) and, in the guard of `Commit`, that no more
events share a time than fit a page.

**TelemetryProofs, Startup.** From

    StartupInv == /\ StateInv /\ StageInv /\ SchemaInv /\ ChangedInv
                  /\ QueueInv /\ RowInv /\ DrainInv

A server's stage says what it has behind it, but another server may hold the lock
and migrate meanwhile, or have died in the middle of a migration. `SchemaInv` says
that what a step is to leave is nevertheless there at every later stage of every
server. It is kept because every *result* of every migration, the partial ones of
a failure or a crash included, stands (`ResultsStand`): it takes back none of the
columns, live indexes, roles or default administrator that are there (`Keeps`).
Of the default user it says what the configuration promises (`HasAdmin`): nothing
without simple auth, some user with it, and with a default_email no default user
without the admin role that could be looked up. Each step from one value to the
next keeps that.
`ServesSafe` is its last stage. `ChangedInv` says the same of later changes:
grants are taken, and claims made at a sign-in after the cutoff, where the
migrations that once concerned them do not reach any more; `MigratesOnce` follows from it and from `Keeps`.

`RowInv` is `NothingInherited` without its reference to deletion: a row that was
stored in its tenant's time belongs to the present tenant or is older than the
queue's entry for it. What lets the drain remove that entry is `DrainInv`: behind
its cursor a drain leaves only rows stored late, rows of the present tenant, and
rows of a tenant deleted again after its entry. An entry is of a deletion that is
over (`EntryInv`, in the queue and in the list every drain has read), so the
cursor never reaches a row of the present tenant, which is `NewerSurvive`. The
exception for `unqueued` is needed with two servers and not with one, which
`docs/deployment.md:435` asks for: then nothing is stored, created or deleted while
the server drains (`AloneInv`), and `NothingIsEverInherited` has no exception.
`StartupAssumption` asks of the initial database only its type and that no
migration is marked as done before the columns of tenants are there.

**AlertProofs, AmfaEventCheck.** From

    IInv == TypeOK /\ StateInv /\ RunInv /\ DueInv /\ RowInv /\ QuietInv

`DueInv` is the argument for `EventsKept`: neither the cursor nor what a run has
read moves past an event that is due by more than the window. `RunInv` follows a
run through its events (each is waiting, in hand or stored, none handled
before), `RowInv` ties announcements to alerts, so that none is announced
twice, and `QuietInv` keeps a silenced event from being read as new.

**AlertProofs, OutageAlerts.** From

    OutageInv == /\ OutageTypes /\ OccurrenceInv /\ StepInv
                 /\ Faults \cap {"save", "log"} = {} => AnnounceInv
                 /\ "late" \notin Ops => HealInv

`AnnounceInv` is `AnnouncedOrRetried` at every step instead of between calls: the
announcement of an outage the manager tracks is in the log, as sent or as failed,
or the monitor is on its way from saving the alert to logging it, or a silence
matched the outage when it was found (`hushed`). `StepInv` is what
that needs of the steps: only an issue is logged as sent, and the monitor is
resolving only when it no longer tracks an outage. `HealInv`: as long as no
occurrence begins after a recovery, the row stays resolved or absent, so the next
outage is saved over one of those two and opens an occurrence; `OccurrenceInv` says
that no occurrence is raised or healed before it begins.

Both theorems take their hypothesis from the constants, and both hypotheses are
needed. After a failed save nothing tracks the outage (`OutageSaveFails.cfg`);
after a failed log entry a send is as unknown to the retrier as if it had not been
tried; and a late acknowledgement reopens a row that is resolved (section 6).
Failing sends, restarts and every other act of an operator are allowed.

**AccountProofs, SsoLogin.** From `SignInInv == LoginTypes /\ RequestInv /\
DiscoveryInv /\ AdminInv`, for the specification with its fairness, of which the
proofs use only the steps. `RequestInv`: a login in a cookie or in a callback was begun by that
browser. `DiscoveryInv`: whoever runs discovery took the mutex after the spacing
had passed. `AdminInv`: claims that make an administrator, on their way, stored
or turned into the role, were both listed and verified in one token.

**CheckAlertProofs, CheckAlerts.** From

    AlertInv == CheckInv /\ RunInv /\ MissesInv /\ FixedInv

`FixedBeforeResolved` compares what the code counts with what is true, so it needs
the two to keep step *through* a run. `MissesInv`: the misses of an alert are at
most its quiet looks, and one less for a run that has read the realm and not yet
counted, unless the run found the problem. That a problem which is there and looked
for is found is the lemma `ProblemFound`, proved for every rule of `CheckRules` and
every state of a realm. `FixedInv` carries the count from the decision to the
resolution, with database calls in between. `CheckAssumption` gives the types of
the configurations and switches of a scene; realms, clients, providers and events
are arbitrary. `ChoicesKept` rests on `RunInv`: the row that a run read and is about
to save over is still the row, unless an operator wrote it meanwhile (`raced`).

**CheckAlertProofs, SharedIssues.** From

    IssueInv == NoticeInv /\ JoinInv /\ LeaveInv /\ HeldInv

`HeldInv` is `HeldIssueOpen` for all alerts at once. What can break it is a close,
several requests after the question that justifies it, and a send logged on an
issue that was closed since. `LeaveInv`: a resolution that closes an issue is of
an alert that does not hold it, and no open alert holds it *now*, at every step
between the count and the close. `JoinInv`: an issue that an announcement has
opened or found open, and is about to log, is open. Both except the issues that
`excused` has collected (a close by hand, a failure, or an overlap of section 6);
the actions that add to it are the ones in which those overlaps
happen. `NoticeInv` is what each step of a call knows of its alert, channel and
issue. `AnnouncedAtMostOnce` follows from `NoticeInv` and `ToldInv`: what was
announced is logged or about to be, and between the lookup and the request it
was not announced. Its exception is `doubt`, a failed lookup, a failed log entry or
an answer that was lost.

`NoIssueIsLeft` asks the opposite of `HeldIssueOpen`: that an issue which is open
still has somebody who will close it. It needs, beside `NoticeInv`,

    LeaveNoneInv == BegunInv /\ ChoiceInv /\ LatestInv /\ PassedInv /\ LeftInv

An alert *bears* the issues it holds and those of the alerts it replaces. `LeftInv`:
an open issue is borne by an alert that is not resolved, or minded by a call: one
that is about to log a send on it, to look for what the resolved alert bears, or to
close it. The resolution finds by the log only the last issue of its alert, so the
rest says that there is no other: `ChoiceInv` (a send, from its look for a shared issue
to its log entry, has chosen the only issue its alert bears, or none is borne where it
opens a new one), `LatestInv` (an alert was last sent on the issue it holds) and
`PassedInv` (an issue of a replaced alert was taken over by the first send).
`BegunInv` keeps a replaced alert from being announced after the one that
replaces it was raised. The proof showed what the property first left out, in a
failed lookup and in a replacing alert resolved too early (section 6), which
`excused` now collects. It uses of `Replaces` what `NoticeAssumption` says: an
alert that replaces others is not replaced itself, and is not found together
with one it replaces. In the code a certificate that has expired replaces
the one that expires soon, and a certificate is one or the other
(`internal/configcheck/idp_metadata_check.go:335`).

**AmfaMirrorProofs.** `StoreRefined` is the refinement of section 2, step by
step: under the mapping, a row's becoming visible in AMFA is `Arrive`, merging a row is
`Learn`, and purging a tenant is `Forget`. Reading pages, moving the watermark,
failures and restarts stutter; so does the Keycloak half of a login, which keeps
the AMFA data its row carries, and the sweep, which moves a login from its own row
onto its twin (`AbsorbFacts`). It rests on `VisibleInv` (what is stored, or on a page, is
visible in AMFA for that tenant) and `OwnInv` (no row carries another tenant's
data, which `NoLoginSkipped` also states).

`NoneSkipped == Spec /\ []OnePage => []NoLoginSkipped`: a mirror that never has a
full page to read skips no login, whatever is late, fails, restarts, is purged or
re-created. The hypothesis is about behaviours, not about constants, and is
needed: section 6 (AmfaPageEdge) lists three ways in which full pages
skip a login. The property is not inductive; `ReadInv` is, on top of
`IInv`. It says of every tenant that no position and no row is ahead of the clock
(so a row that becomes visible now is within the overlap of every position, since
MaxLag < Overlap); that what lies more than the overlap behind the
position in memory, and behind the stored one, is known; and that while a page is saved, what lies
that far behind any row of the page is known or still on the page, so the
position may follow the last one. That a page which is not full is all there
is needs the library's facts about cardinalities, and that AMFA's table is finite
in every state (`VisibleFinite`), which is proved and not assumed of `Ids`.

**ReadApiProofs.** From

    IInv == DataInv /\ PhaseInv /\ HttpInv /\ McpInv /\ EntitledInv /\ ServedInv

A handler is a function of the tenant, the realm asked for and the caller's
scope, so the lemmas about handlers hold for *any* pairs of a permission and a
tenant and any pairs of a realm and a tenant: every row of the answer is within
them. `EntitledInv` then says that what the user is entitled to at the moment is in
`held` and `scope`, and `HttpInv` and `McpInv` that what the middleware has
passed on is, too. `ListsAgree` is a statement about the two ways the code asks
who may see a tenant. `NoRoleLeftEmpty` has two hypotheses besides: an
administrator gives every new role a permission, and the deletion that undoes a
failed creation does not fail (section 6 has what happens when it does).

**Only model-checked.**

- Liveness: `ChangesAreHandled`, `StopReturns`, `EventuallyAnnounced`,
  `HalvesMerge`, `AlertsFollowProblems`, `DueHandled`, `EveryChannelTold`,
  `Recovers`. Fairness and ENABLED are outside the prover.
- `NoLoginSkipped` of AmfaMirror for cycles that read full pages: it is not true
  of every instance that keeps the assumptions (section 6, AmfaPageEdge). It holds
  in the run's instance, where a page of two may be full.
- `AnnouncedOrRetried` where saves and log entries fail, and
  `NewOutageNewOccurrence` with late acknowledgements: false there, see above.

No module with a theorem reaches a RECURSIVE operator.

## 6. Where the code and what it says differ

TLC finds a counterexample for each of the following claims, which comments, docs
or messages of the repository make. Those with a `.cfg` are reproduced by it
(`tlc -config X.cfg MCModule`); the others are kept as definitions and fail under
the constants of `PoolDeletedTenant.cfg` (those of MonitorPool) or
`TenantCacheDefault.cfg` (those of TenantCache; DefaultNotTaken is a PROPERTY).

| Claim | Counterexample |
|---|---|
| `MonitorPool!DeletedTenantStops` (`PoolDeletedTenant.cfg`) | A retry reads the tenant, the tenant is deleted and the deletion handled, the attempt succeeds; the second look gets an error from GetTenant, and only a nil error stops the monitor (`internal/tenant/monitor_pool_retry.go:252`; `:203` says a retry "never revives a tenant that was disabled or deleted meanwhile"). |
| `MonitorPool!CurrentSettings` | A retry reads the tenant, an update stops nothing, the retry starts the monitor with the old settings; the handler's own start finds a monitor running. The second look only asks whether the tenant is disabled. |
| `MonitorPool!NoAlertForUnmonitored` | A retry succeeds after the tenant was disabled; before it is undone the monitor reports DOWN, and nobody closes that alert. |
| `MonitorPool!RetriedWhileEnabled` | A retry reads the tenant as disabled; it is enabled and its start fails and schedules a new retry; the first attempt then drops the pending entry of the second. |
| `MonitorPool!DisabledIsUnmonitored` | A tenant is disabled between the listing at boot and the registration of the callback. |
| `MonitorPool!StopStopsAll` | The callback worker starts a monitor after Stop has collected the running ones. |
| `EventCursor!NeverTwice` (`EventCursorTwice.cfg`) | The monitor's clock steps back; the next sweep is anchored at the earlier time and reaches events already pruned from `seen` (`internal/keycloak/event_cursor.go:226`; `:68` says sweeps "never process an event twice"). |
| `OutageAlerts!OutageRecorded` (`OutageSaveFails.cfg`) | The status is remembered before the alert is saved; after a failed save the following DOWN checks are no transition (`internal/fx/monitoring.go:326`; `:460` says "Every new outage notifies"). |
| `OutageAlerts!NewOutageNewOccurrence` with "late" added to the `Ops` of `OutageAlerts.cfg` | An acknowledgement from a page that still showed the alert open reaches a resolved row; the next outage continues the old occurrence and is not announced. |
| `TenantCache!EveryWriteInOrder` (`TenantCacheLoad.cfg`) | LoadTenants stores what it listed before an edit over the entry of that edit; reads are stale from then on, and the next edit starts from the stale entry (`internal/tenant/service.go:180`; `:92` says updateMu orders the writes). |
| `TenantCache!DeletedIsForgotten` | A read misses and reads the row, the tenant is deleted and forgotten, the read caches its copy. |
| `TenantCache!DefaultNotTaken` | Two requests pass the is_default conflict check; the second takes the flag from the first. |
| `Access!NewerSessionsLeftAlone` (`AccessRename.cfg`) | A subject changes hands: the epoch an old cookie carries equals that of the account that has its subject now, and logging it out ends that account's sessions (`internal/users/postgres/repository.go:794`; `:791`-`:793` say a rejected cookie "cannot be replayed at logout to end the user's newer sessions"). |
| `AmfaMirror!NoLoginSkipped` with more rows of one time than a page holds (`AmfaPageEdge.cfg`) | The next page asks for strictly newer rows, and the overlap returns to the same full page (`internal/amfamirror/service.go:253`; `:14`-`:16` say such events "are never skipped"). The same happens to rows of different times when the overlap holds more rows than a page and one of them is late: after a full page of rows read before, the next page asks for rows after the watermark (`:248`), in this cycle and every later one. TLC finds it with four logins, a page of one, an overlap of three and a lag of two. And it happens with an overlap that fits a page, when a cycle that reads full pages outlasts the overlap of two seconds (`:17`): a row that becomes visible between two pages, older than the first one's last row, is behind the next page and then behind the position by more than the overlap (four logins of different times, a page of two, an overlap of two, a lag of one). |
| `CheckAlerts!MissesInARow` (`CheckMisses.cfg`) | The list of open alerts fails in a run that found the problem: its misses are kept, and the next miss resolves it (`internal/configcheck/service.go:450`; `:434`-`:438`). |
| `CheckAlerts!OperatorChoiceAlwaysKept` (`CheckAck.cfg`) | An acknowledgement between a run's lookup and its save is overwritten with the status that was read (`internal/configcheck/service.go:229`). |
| `Startup!NothingEverInherited` with `Installations <- MCCurrent`, one tenant, `MaxClock = 4`, `MaxAdmin = 4` and no faults or crashes in `Startup.cfg` | Two servers start with a deleted tenant in the queue and read it; one serves, the tenant is created, stores a row, and is deleted and queued again; the other ends its drain of the first deletion and removes the entry by tenant id, so the row is left to whoever is created next under that id (`pkg/database/tenant_purge.go:165`; `:125`-`:126` says a queue row is removed "once that tenant is fully drained"). |
| `Startup!NoClaimClobbered` as a PROPERTY of `Startup.cfg` | An account that last signed in before the cutoff, and is inactive or blocked by now, signs in: FindOrCreateBySubject writes the provider's claim and, because the account is not usable, keeps last_login_at (`internal/users/postgres/repository.go:161`, `:171`, `:198`-`:200`); the next start clears the claim (`pkg/database/client.go:772`-`:779`; `:767`-`:769` say a login "updates last_login_at past it", so "a re-run can therefore never clobber a claim the IdP made"). |
| `AmfaEventCheck!OpenIsAnnounced` (`AmfaEventUnsent.cfg`) | The send of an event's alert fails; nothing asks for it again, since these checks never find a handled event a second time (`internal/fx/notification_retry.go:21`-`:24` says "The checkers re-request their own open alerts every hour"). |

Other differences are conditions of the properties, named by a history variable or
a guard of the module:

- *Event cursor.* On a Keycloak before 26.2 an event may be lost (`missed`). A walk
  that is cut at 50 pages loses the oldest events: the comment of
  getEventsSinceByDate and its log message say so
  (`pkg/keycloakadmin/events.go:272`-`:273`, `:284`). The comment also says that an
  event "can come back twice at a page boundary, never be skipped" (`:271`); that
  rests on an order the list does not have, as "events sharing a millisecond can
  swap places between requests, and an offset could skip one at a page boundary"
  (`internal/keycloak/monitor.go:390`-`:392`), and the walk pages by offset. A sweep
  that goes on after an exact page drops the `first` oldest events of a walk, and
  these need not be the ones that were read.
- *Tenants.* A request that makes a tenant the default takes the flag from every
  other row, from one that is config-defined too
  (`internal/tenant/postgres/repository.go:171`-`:184`); the check on config-defined
  tenants is of the tenant the request names. No other field of such a tenant
  changes (`LosesDefault`).
- *Outages.* An outage that a silence matches when it is found is tracked but
  neither saved, announced nor logged (`internal/fx/monitoring.go:438`-`:446`); as
  the next DOWN checks are no transition, nobody is told of it when the silence
  ends, until the tenant has recovered or the server restarts (`hushed`; `:460`
  says "Every new outage notifies"). Monitor and retrier may both pass CheckAlreadySent before either
  logs its send; a retrier's send may be logged in a later occurrence; an alert
  resolved between a send and its log entry leaves its issue open.
- *Access.* The SSO callback reads the epoch at its end, so a deactivation and a
  restoration during the login are not seen by it. The blacklist is one process's:
  when the write of the epoch fails, a logout holds only there. updateUser
  writes the row it read, stale or not. When the epoch cannot be looked up, the
  cookie is accepted.
- *SSO.* A request that is cancelled during discovery makes every caller get its
  "context canceled" for 10 s, and repeated give-ups starve the background loop
  (excluded in `Recovers`). A late callback clears the cookie of a newer login in
  another tab. A callback during the pause after a failed discovery loses its
  login. handleRefresh cannot succeed, as no token is stored. The comment of
  EnsureAdminRole (`internal/auth/oauth2_admin.go:77`) is not exact when logins of
  an account overlap: the row may hold the claims of the other.
- *RBAC and reads.* updateRole writes the is_active flag it read
  (`internal/http/chi/rbac_handlers.go:351`). CreateRoleWithPermissions says
  (`internal/rbac/service.go:437`) that a failure never leaves an empty role: it does
  when the deletion fails too, or the process stops. The MCP tools ask for
  alerts:read only where HTTP also asks for tenants:read; IsAdmin is decided once
  per MCP request.
- *Mirror.* A row that becomes visible between two pages of a slow cycle, further
  back than the overlap from its end, is skipped; an upsert does not refresh
  final_status; a tenant of the configuration that was refused adoption gets a
  mirror nevertheless.
- *Checks.* An alert deleted between a run's lookup and its save comes back without
  a notification (`lost`). An operator's resolution between a read and a save
  starts an occurrence that is unannounced for an hour. ResolveAfter is measured from
  the last *saved* sighting. Misses and handled events are in memory only. Checks
  are built at start, for the tenants enabled then.
- *Event checks.* A late event whose save failed moves the cursor back over events
  already pruned from `handled`, so one silenced before is alerted later. A
  restart gives up events older than the newest alert less lookback and window,
  and the events of the downtime when there is no alert yet. A window with more
  than 20 pages of events never progresses
  (`internal/amfa/httpclient/client.go:425`).
- *Shared issues.* A resolution while the announcement is not logged yet finds no
  issue and leaves it open (`internal/notifications/service.go:284`); a close
  that races a share leaves an open alert on a closed issue (`:305`-`:314`); a
  resolution of an alert that is raised again meanwhile closes the issue of the
  new occurrence; a failed resolution is never retried; a superseded alert's
  issue may be left behind by a failure, or by an operator who resolves the alert
  that supersedes it before the run has superseded anything; a failed lookup of
  CheckAlreadySent sends an alert again, perhaps on a second issue, and its
  resolution closes only the last one; an operator who re-activates an alert
  reopens no issue.
- *Startup.* A crash between the per-table transactions of migratePreTenantSchema,
  after alerts and before events, makes the next start take the database for one
  with tenants (`pkg/database/pre_tenant_upgrade.go:40`). The backfill of events
  runs before migrateRealmNameIndex, and one that failed may attribute rows after
  a tenant was deleted. Telemetry a deleted tenant's monitor stores late stays. A failing
  AssignPermissions after CreateRole of the last system role leaves it empty. A
  server may serve without an administrator: with simple auth off nobody is given
  the role at a start (`internal/fx/bootstrap.go:72`); with users there and no
  default_email the default user is not looked at (`:170`-`:173`, `:211`-`:213`; the
  address is "admin@example.com" unless it is set, `internal/config/loader.go:254`);
  where the first users came by SSO the default user is never created; and a
  failing lookup of it is only logged (`:217`-`:222`).

## 7. Not modelled

- *Not yet*: event storage alerts, the collection of realm information with the
  retiring of deleted realms, the ids made for Keycloak events that have none,
  ConvertEvent, the background closing of a deleted tenant's alerts (section 8).
- *Not reachable*: role_sync, metricscheck, DatabaseSessionStore, BlockUser and
  UnblockUser, RequireAnyPermission, IsOperator, UpdateTenantPolicy,
  MigrateEncryptClientSecrets: nothing constructs or calls them. The DEGRADED
  status: GetHealthMetrics returns UP or DOWN.
- *Startup*: hypertable set-up and retention, the series tables set aside,
  dropGlobalUniqueIndexes and the events' global index, the infinispan and
  password-grant columns, removeTenantScopedAdminRoles (whose failure is only
  logged); two servers creating the default user at once; administrators who take
  the admin role from the default user or delete it; a configuration of simple auth
  that changes between starts; a server of an older release running beside.
- *Reads*: who may manage which account (`internal/http/chi/user_handlers.go:94`),
  paging and sorting parameters, rate limits beyond "refused".
- *Event cursor*: the whole days by which a walk by date asks (they only leave out
  events the walk drops itself).
- *Input and output*: the Keycloak HTTP client beyond GetEventsSince, encryption,
  cookies' signatures, logging, configuration loading, wire formats and wording of
  notifications, reports' layout, the web UI.
- Within the modelled parts: request validation and the fields of a tenant (one
  version number), warning and metric state of the event cursor, the timeout of
  Workers.Drain (a run may end between any two steps instead).

## 8. Plan

The state machines of the first plan are written. In order of importance, what is
left:

1. Event storage alerts on the alert store, and realm information with the
   retiring of realms.
2. The background closing of a deleted tenant's alerts, beside SharedIssues.

Abstract specifications worth stating: the tenant service as a register that is
written atomically (TenantCache implements it outside `overtaken`), and the pool
as the set of monitored tenants following the enabled ones.
