------------------------------ MODULE Startup -------------------------------
(* Starts of the API server against one database: the schema lock, the       *)
(* migrations (Schema), the seeding and the drain of the telemetry of        *)
(* deleted tenants (pkg/database, internal/fx/bootstrap.go), with servers    *)
(* that fail, crash and start again between any two statements, while        *)
(* another server serves and tenants come and go.                            *)
EXTENDS Schema

CONSTANTS
  Servers,      \* API servers
  Installations,  \* what a start can meet: a database, by earlier releases, and auth.simple
  DrainLimit,   \* drainBatchLimit
  MaxClock,     \* bound: times
  MaxRows,      \* bound: rows of telemetry
  MaxFaults,    \* bound: failed statements
  MaxCrashes,   \* bound: crashes and shutdowns
  MaxAdmin      \* bound: changes by administrators and users

NoServer == "none"

\* A data migration is marked in a database that has the columns of tenants.
ASSUME StartupAssumption ==
  /\ {DrainLimit, MaxClock, MaxRows, MaxFaults, MaxCrashes, MaxAdmin} \subseteq Nat /\ NoServer \notin Servers
  /\ Installations \subseteq Database \X AuthKinds
  /\ \A i \in Installations : i[1].marks # {} => i[1].cols = {"realms", "alerts", "events"}

VARIABLES
  db,         \* the schema and the rows the migrations look at (Schema)
  tenants,    \* keycloak_tenants: tenant id -> "none", "open", "locked" (config-defined)
  telemetry,  \* rows of the hypertables: [tenant, time, born, late], stored for the tenant
              \* created at born, and late when it was deleted already
  queue,      \* pending_tenant_purges: [tenant, at]
  config,     \* the tenants of config.yaml
  auth,       \* auth.simple of the configuration, which does not change
  clock,
  lock,       \* the holder of the schema lock
  stage,      \* where each server is
  drain,      \* each server's drain: [todo, entry, cursor, deleted]
  born,       \* history: when each tenant was last created
  gone,       \* history: when each tenant was last deleted
  taken,      \* history: roles whose amfa:read an administrator took away
  claimed,    \* history: the identity provider's last word on the SSO user's address, "no" or
              \* verified, "refused" at a sign-in that left their last one where it was
  unqueued,   \* history: tenants whose later queue entry went with an earlier one's removal
  used        \* how often each bounded event has happened

purge == <<tenants, telemetry, queue, config, clock, born, gone, unqueued>>
apart == <<auth, taken, claimed>>
startupVars == <<db, purge, lock, stage, drain, apart, used>>

NoDrain == [todo |-> {}, entry |-> [tenant |-> NoTenant, at |-> 0], cursor |-> 0, deleted |-> 0]
Existing == {t \in Tenants : tenants[t] # "none"}

StartupInit ==
  /\ \E i \in Installations : db = i[1] /\ auth = i[2]
  /\ tenants = [t \in Tenants |-> IF \E r \in db.rows.realms : r.tenant = t THEN "open" ELSE "none"]
  /\ telemetry = {} /\ queue = {} /\ config \in {{}} \cup {{t} : t \in Tenants}
  /\ clock = 1 /\ born = [t \in Tenants |-> 0] /\ gone = born
  /\ lock = NoServer /\ stage = [s \in Servers |-> "down"] /\ drain = [s \in Servers |-> NoDrain]
  /\ taken = {} /\ claimed = "no" /\ unqueued = {}
  /\ used = [faults |-> 0, crashes |-> 0, admin |-> 0]

Use(what, max) == used[what] < max /\ used' = [used EXCEPT ![what] = @ + 1]

-----------------------------------------------------------------------------
(* The schema lock and the migrations under it.                              *)

\* The order of AutoMigrate, after the lock and before its release, then that
\* of the bootstrap.
Steps == <<"pre", "tables", "backfill", "revoke", "amfa", "auth", "verified", "baseline",
           "username", "users", "assert", "role", "assignments", "realm", "alert", "lookup",
           "seedqueue", "unlock", "roles", "admin", "readqueue">>
After(step) == Steps[1 + CHOOSE n \in DOMAIN Steps : Steps[n] = step]

\* The errors that end the start; the others are logged.
Fatal == {"pre", "tables", "assert", "role", "assignments", "roles", "admin"}

\* preTenantOwner: the one tenant the configuration defines.
preTenantOwner == IF Cardinality(config) = 1 THEN CHOOSE t \in config : TRUE ELSE NoTenant

\* EnsureSystemRolesAndPermissions seeds where a system role is missing.
EnsureSystemRoles(d) == IF \E r \in Roles : d.roles[r] = NoRole THEN seedRoles(d) ELSE Transaction(d, d)

Results(step) ==
  CASE step = "pre" -> migratePreTenantSchema(db, preTenantOwner)
    [] step = "tables" -> AutoMigrate(db)
    [] step = "backfill" -> backfillEventTenantIDs(db)
    [] step = "revoke" -> revokeCutOffUsersTokens(db)
    [] step = "amfa" -> migrateAmfaReadPermission(db)
    [] step = "auth" -> migrateUserAuthMethod(db)
    [] step = "verified" -> migrateUnprovenEmailVerified(db)
    [] step = "baseline" -> baselineSSOLastLogin(db)
    [] step = "username" -> migrateUsernameIndex(db)
    [] step = "users" -> migrateUserUniqueIndexes(db)
    [] step = "assert" -> assertUserUniqueIndexesAreSafe(db)
    [] step = "role" -> migrateRoleNameIndex(db)
    [] step = "assignments" -> removeDeletedRoleAssignments(db)
    [] step = "realm" -> migrateRealmNameIndex(db)
    [] step = "alert" -> migrateAlertIDIndex(db)
    [] step = "lookup" -> ensureAlertLookupIndex(db)
    [] step = "roles" -> EnsureSystemRoles(db)
    [] step = "admin" -> IF auth = "sso" THEN Succeeds(db) ELSE ensureDefaultAdminUser(db, auth)
    [] OTHER -> {}

Goto(s, step) == stage' = [stage EXCEPT ![s] = step]
Release(s) == lock' = IF lock = s THEN NoServer ELSE lock
Dies(s) == Goto(s, "down") /\ Release(s) /\ drain' = [drain EXCEPT ![s] = NoDrain]

Start(s) ==
  /\ stage[s] = "down" /\ Goto(s, "lock")
  /\ UNCHANGED <<db, purge, lock, drain, apart, used>>

\* lockSchema polls until it has the lock.
lockSchema(s) ==
  /\ stage[s] = "lock" /\ lock = NoServer
  /\ lock' = s /\ Goto(s, "pre")
  /\ UNCHANGED <<db, purge, drain, apart, used>>

\* A migration: done; failed, which ends the start or is logged; or the server
\* dies half way through it.
Migrate(s) ==
  \E r \in Results(stage[s]) :
    /\ db' = r.db
    /\ \/ r.end = "ok" /\ Goto(s, After(stage[s])) /\ UNCHANGED <<lock, drain, used>>
       \/ r.end = "refused" /\ Dies(s) /\ UNCHANGED used
       \/ /\ r.end \in {"fault", "logged"} /\ Use("faults", MaxFaults)
          /\ IF r.end = "fault" /\ stage[s] \in Fatal THEN Dies(s)
             ELSE Goto(s, After(stage[s])) /\ UNCHANGED <<lock, drain>>
       \/ r.end = "fault" /\ Use("crashes", MaxCrashes) /\ Dies(s)
    /\ UNCHANGED <<purge, apart>>

\* migrateSeedTenantPurgeQueue: the tenants with rows and without a tenant row,
\* unless there is no tenant at all.
Orphans == {r.tenant : r \in telemetry \cup UNION {db.rows[t] : t \in DOMAIN db.rows}} \ (Existing \cup {NoTenant})

migrateSeedTenantPurgeQueue(s) ==
  /\ stage[s] = "seedqueue" /\ Goto(s, "unlock")
  /\ \/ /\ queue' = IF Existing = {} THEN queue
                    ELSE queue \cup {[tenant |-> t, at |-> clock] : t \in Orphans \ {q.tenant : q \in queue}}
        /\ UNCHANGED used
     \/ Use("faults", MaxFaults) /\ UNCHANGED queue
  /\ UNCHANGED <<db, tenants, telemetry, config, clock, born, gone, unqueued, lock, drain, apart>>

Unlock(s) ==
  /\ stage[s] = "unlock" /\ Release(s) /\ Goto(s, "roles")
  /\ UNCHANGED <<db, purge, drain, apart, used>>

-----------------------------------------------------------------------------
(* DrainPendingPurges, within a budget.                                      *)

ReadQueue(s) ==
  /\ stage[s] = "readqueue"
  /\ \/ /\ drain' = [drain EXCEPT ![s] = [NoDrain EXCEPT !.todo = queue]]
        /\ Goto(s, IF queue = {} THEN "sync" ELSE "entry") /\ UNCHANGED used
     \/ Use("faults", MaxFaults) /\ Goto(s, "sync") /\ UNCHANGED drain
  /\ UNCHANGED <<db, purge, lock, apart>>

NextEntry(s) ==
  /\ stage[s] = "entry"
  /\ IF drain[s].todo = {} THEN Goto(s, "sync") /\ drain' = [drain EXCEPT ![s] = NoDrain]
     ELSE \E q \in drain[s].todo :
       /\ drain' = [drain EXCEPT ![s] = [todo |-> @.todo \ {q}, entry |-> q, cursor |-> q.at, deleted |-> 0]]
       /\ Goto(s, "window")
  /\ UNCHANGED <<db, purge, lock, apart, used>>

\* Mutant of Below: everything the tenant has is older than the queue entry.
BelowNow(s) == {r \in telemetry : r.tenant = drain[s].entry.tenant}

\* The entry's rows that are older than the cursor.
Below(s) == {r \in telemetry : r.tenant = drain[s].entry.tenant /\ r.time < drain[s].cursor}

\* Mutant of AfterWindow: the batch limit ends the entry.
AfterWindowDone(deleted) == IF deleted >= DrainLimit THEN "dequeue" ELSE "window"

AfterWindow(deleted) == IF deleted >= DrainLimit THEN "entry" ELSE "window"

\* drainTelemetryTable deletes a window of rows, the newest first, and stops at
\* the batch limit; a failure, or the end of the budget, leaves the entry.
drainTelemetryTable(s) ==
  LET newest == CHOOSE t \in {r.time : r \in Below(s)} : \A r \in Below(s) : r.time <= t
      window == {r \in Below(s) : r.time = newest}
      deleted == drain[s].deleted + Cardinality(window)
  IN
  /\ stage[s] = "window"
  /\ \/ /\ Below(s) = {} /\ Goto(s, "dequeue") /\ UNCHANGED <<telemetry, drain, used>>
     \/ /\ Below(s) # {} /\ telemetry' = telemetry \ window
        /\ drain' = [drain EXCEPT ![s] = [@ EXCEPT !.cursor = newest, !.deleted = deleted]]
        /\ Goto(s, AfterWindow(deleted)) /\ UNCHANGED used
     \/ Use("faults", MaxFaults) /\ Goto(s, "entry") /\ UNCHANGED <<telemetry, drain>>
  /\ UNCHANGED <<db, tenants, queue, config, clock, born, gone, unqueued, lock, apart>>

\* The queue row is deleted by its tenant id, also where the tenant was queued
\* again meanwhile.
Dequeue(s) ==
  LET entry == drain[s].entry
      removed == {q \in queue : q.tenant = entry.tenant}
  IN
  /\ stage[s] = "dequeue" /\ Goto(s, "entry")
  /\ \/ /\ queue' = queue \ removed /\ UNCHANGED used
        /\ unqueued' = IF removed \subseteq {entry} THEN unqueued ELSE unqueued \cup {entry.tenant}
     \/ Use("faults", MaxFaults) /\ UNCHANGED <<queue, unqueued>>
  /\ UNCHANGED <<db, tenants, telemetry, config, clock, born, gone, lock, drain, apart>>

\* syncTenantsFromConfig: the tenants of the configuration are created and
\* locked, the others unlocked; a tenant that cannot be saved is passed over.
Synced(t) == IF t \in config THEN "locked" ELSE IF tenants[t] = "locked" THEN "open" ELSE tenants[t]

syncTenantsFromConfig(s) ==
  /\ stage[s] = "sync" /\ Goto(s, "serve")
  /\ \E saved \in SUBSET {t \in Tenants : Synced(t) # tenants[t]} :
       /\ tenants' = [t \in Tenants |-> IF t \in saved THEN Synced(t) ELSE tenants[t]]
       /\ born' = [t \in Tenants |-> IF t \in saved \ Existing THEN clock ELSE born[t]]
       /\ IF \A t \in Tenants : tenants'[t] = Synced(t) THEN UNCHANGED used ELSE Use("faults", MaxFaults)
  /\ UNCHANGED <<db, telemetry, queue, config, clock, gone, unqueued, lock, drain, apart>>

Crash(s) ==
  /\ stage[s] # "down" /\ Use("crashes", MaxCrashes) /\ Dies(s)
  /\ UNCHANGED <<db, purge, apart>>

-----------------------------------------------------------------------------
(* What goes on while a server serves.                                       *)

Serving == \E s \in Servers : stage[s] = "serve"
Admin == Serving /\ Use("admin", MaxAdmin)
ClockTicks == clock < MaxClock /\ clock' = clock + 1

CreateTenant(t) ==
  /\ Admin /\ tenants[t] = "none" /\ tenants' = [tenants EXCEPT ![t] = "open"]
  /\ born' = [born EXCEPT ![t] = clock]
  /\ UNCHANGED <<db, telemetry, queue, config, clock, gone, unqueued, lock, stage, drain, apart>>

\* PurgeTenant: the tenant and its rows go in one transaction, which queues its
\* telemetry.
PurgeTenant(t) ==
  /\ Admin /\ tenants[t] = "open" /\ ClockTicks
  /\ tenants' = [tenants EXCEPT ![t] = "none"]
  /\ db' = [db EXCEPT !.rows = [x \in DOMAIN @ |-> {r \in @[x] : r.tenant # t}]]
  /\ queue' = {q \in queue : q.tenant # t} \cup {[tenant |-> t, at |-> clock']}
  /\ gone' = [gone EXCEPT ![t] = clock']
  /\ UNCHANGED <<telemetry, config, born, unqueued, lock, stage, drain, apart>>

\* A monitor stores metrics of now, or an event of a moment ago; that of a
\* deleted tenant may still do so.
Collect(t, time) ==
  LET row == [tenant |-> t, time |-> time, born |-> born[t], late |-> tenants[t] = "none"] IN
  /\ Serving /\ row \notin telemetry /\ Cardinality(telemetry) < MaxRows
  /\ tenants[t] # "none" \/ gone[t] = clock
  /\ telemetry' = telemetry \cup {row}
  /\ UNCHANGED <<db, tenants, queue, config, clock, born, gone, unqueued, lock, stage, drain, apart, used>>

ConfigChanges(c) ==
  /\ Use("admin", MaxAdmin) /\ c # config /\ config' = c
  /\ UNCHANGED <<db, tenants, telemetry, queue, clock, born, gone, unqueued, lock, stage, drain, apart>>

\* A grant is taken away, in the database; it counts once the migration has run
\* and while no server is seeding the roles.
TakeGrant(r) ==
  /\ Admin /\ "amfa:read" \in db.roles[r]
  /\ db' = [db EXCEPT !.roles[r] = @ \ {"amfa:read"}]
  /\ taken' = IF "amfa" \in db.marks /\ \A s \in Servers : stage[s] # "roles" THEN taken \cup {r} ELSE taken
  /\ UNCHANGED <<purge, lock, stage, drain, auth, claimed>>

\* FindOrCreateBySubject: an SSO sign-in stores the provider's claim; the time only
\* where the account is active and not blocked (onlyIfUsable), as a new one is.
SignIn(claim, usable) ==
  /\ Admin /\ (db.admin = "none" => usable)
  /\ db' = [db EXCEPT !.sso = [oauth |-> TRUE, verified |-> claim, login |-> IF usable THEN "after" ELSE @.login],
                     !.admin = IF @ = "none" THEN "others" ELSE @]
  /\ db' # db
  /\ claimed' = IF ~claim THEN "no" ELSE IF db'.sso.login = "after" THEN "yes" ELSE "refused"
  /\ UNCHANGED <<purge, lock, stage, drain, auth, taken>>

-----------------------------------------------------------------------------
Step(s) ==
  \/ Start(s) \/ lockSchema(s) \/ Migrate(s) \/ migrateSeedTenantPurgeQueue(s) \/ Unlock(s)
  \/ ReadQueue(s) \/ NextEntry(s) \/ drainTelemetryTable(s) \/ Dequeue(s) \/ syncTenantsFromConfig(s)

StartupNext ==
  \/ \E s \in Servers : Step(s) \/ Crash(s)
  \/ \E t \in Tenants : CreateTenant(t) \/ PurgeTenant(t) \/ Collect(t, clock) \/ Collect(t, clock - 1)
  \/ \E c \in {{}} \cup {{t} : t \in Tenants} : ConfigChanges(c)
  \/ \E r \in Roles : TakeGrant(r)
  \/ \E claim, usable \in BOOLEAN : SignIn(claim, usable)

StartupSpec == StartupInit /\ [][StartupNext]_startupVars

-----------------------------------------------------------------------------
(* Properties.                                                               *)

\* The types of the state; only the holder of the lock migrates.
StartupTypes ==
  /\ db \in Database
  /\ \A q, p \in queue : q.tenant = p.tenant => q = p
  /\ \A s \in Servers : (\E n \in 1..18 : stage[s] = Steps[n]) <=> lock = s

\* Whatever failed, crashed or was retried on the way, a server that serves has
\* the indexes it relies on: each unique index on users and on role names covers
\* live rows only (assertUserUniqueIndexesAreSafe), and the upserts of alerts have
\* theirs.  With simple auth there are users to sign in, and with a default_email the
\* default user is no user without the admin role, also where a start died between
\* creating it and giving it the role, unless it could not be looked up.  An SSO-only
\* server may have no administrator, nor has one whose first users came by SSO, for
\* then the default user is never created.  The types hold.
ServesSafely ==
  /\ StartupTypes
  /\ Serving =>
       /\ \A i \in {"email", "subject", "username", "role"} : db.idx[i] = "live"
       /\ db.idx.alert # "none"
       /\ HasAdmin(auth, db.admin)

\* What one start migrated, later starts leave as it was changed since: an
\* amfa:read an administrator took from a role stays taken, a claim the identity
\* provider made is not clobbered, and an event left without a tenant is not given
\* one when its realm becomes unique because another tenant is deleted.  Excepted is
\* the claim of a sign-in that was refused (an inactive or blocked account) and left
\* the last sign-in before the cutoff: the next start clears it.
MigratedOnce ==
  [][/\ \A r \in taken' : "amfa:read" \notin db'.roles[r]
     /\ claimed' = "yes" => db'.sso.verified
     /\ \A e \in db.rows.events :
          "events" \in db.marks /\ e.tenant = NoTenant => e \in db'.rows.events]_startupVars

\* Does not hold: "a re-run can therefore never clobber a claim the IdP made".
NoClaimClobbered == [][claimed' # "no" => db'.sso.verified]_startupVars

\* "The recreated tenant's newer rows must survive": no drain deletes what a
\* tenant stored since it was created.
NewerRowsSurvive ==
  [][\A r \in telemetry \ telemetry' : r.tenant \in Existing => r.time < born[r.tenant]]_startupVars

\* A row of an earlier tenant of that id, stored while it was there, that no
\* drain will delete.
Inherited(r) ==
  /\ r.tenant \in Existing /\ r.born # born[r.tenant] /\ ~r.late
  /\ \A q \in queue : q.tenant = r.tenant => q.at <= r.time

\* A tenant created again does not keep its predecessor's telemetry: what that had
\* stored when it was deleted stays queued until it is gone, through every limit,
\* failure and crash of the drain, unless a drain of an earlier deletion ended
\* after the tenant was deleted again, which takes two servers.
NothingInherited == \A r \in telemetry : r.tenant \in unqueued \/ ~Inherited(r)

\* Does not hold: "removes each queue row once that tenant is fully drained".
NothingEverInherited == \A r \in telemetry : ~Inherited(r)
=============================================================================
