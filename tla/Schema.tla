------------------------------- MODULE Schema -------------------------------
(* What a start does to the database: the migrations of pkg/database and the *)
(* seeding of internal/rbac and internal/fx, as functions of the database.   *)
(* A result says what the database is afterwards and how the step ended: all *)
(* done ("ok"), with an error ("fault"), with one that is only logged        *)
(* ("logged"), or refused by the step itself ("refused").  A step of several *)
(* statements also has results where only the first of them happened.        *)
EXTENDS Integers, Sequences, FiniteSets

CONSTANTS
  Tenants,    \* tenant ids
  RoleOrder   \* the system roles, in the order they are seeded

NoTenant == ""

ASSUME SchemaAssumption == RoleOrder \in Seq(STRING) /\ Tenants \subseteq STRING \ {NoTenant}

Roles == {RoleOrder[n] : n \in DOMAIN RoleOrder}

\* A role's permissions; the system roles hold both.
NoRole == {"none"}
Permissions == {"amfa:read", "others"}

\* The tables that gained a tenant_id, in the order they are upgraded.
RowTables == <<"realms", "alerts", "events">>
UserIndexes == <<"email", "subject", "username">>

Indexes == {"email", "subject", "username", "role", "realm", "alert", "lookup"}
\* The default user: no user at all, users but not that one, that one without and with
\* the admin role, and that one left without it because it could not be looked up.
Admins == {"none", "others", "user", "admin", "unassigned"}
IndexKinds == {"none", "plain", "partial", "tenant", "live", "valid", "invalid"}
Database ==
  [cols : SUBSET {"realms", "alerts", "events"},
   rows : [{"realms", "alerts", "events"} -> SUBSET [realm : STRING, owner : STRING, tenant : STRING]],
   idx : [Indexes -> IndexKinds], marks : SUBSET {"events", "inactive", "blocked", "amfa"},
   roles : [Roles -> {NoRole} \cup SUBSET Permissions],
   tokens : SUBSET {"inactive", "blocked"}, stale : BOOLEAN, admin : Admins,
   sso : [oauth : BOOLEAN, verified : BOOLEAN, login : {"never", "before", "after"}]]

Ok(db) == [db |-> db, end |-> "ok"]
Fault(db) == [db |-> db, end |-> "fault"]
Logged(db) == [db |-> db, end |-> "logged"]
Refused(db) == [db |-> db, end |-> "refused"]
Succeeds(db) == {Ok(db)}
Transaction(before, after) == {Ok(after), Fault(before)}

-----------------------------------------------------------------------------
(* A database of a single-tenant release.                                    *)

\* pendingPreTenant: the tables without a tenant_id.  Events are looked at only
\* where another table still waits.
pendingPreTenant(db) ==
  IF {"realms", "alerts"} \subseteq db.cols THEN {} ELSE {RowTables[n] : n \in DOMAIN RowTables} \ db.cols

GiveRows(db, given, owner) ==
  [db EXCEPT !.cols = @ \cup given,
             !.rows = [t \in DOMAIN @ |-> IF t \in given THEN {[r EXCEPT !.tenant = owner] : r \in @[t]} ELSE @[t]]]

\* Each table is upgraded in a transaction of its own.
migratePreTenantSchema(db, owner) ==
  LET tables == pendingPreTenant(db)
      upTo(n) == tables \cap {RowTables[k] : k \in 1..n}
  IN IF tables = {} THEN Succeeds(db)
     ELSE IF owner = NoTenant THEN {Refused(db)}
     ELSE {Ok(GiveRows(db, tables, owner))}
            \cup {Fault(GiveRows(db, upTo(n), owner)) : n \in {k \in 0..2 : upTo(k) # tables}}

\* AutoMigrate of gorm: the columns and indexes the models name, where missing.
AutoMigrate(db) ==
  Transaction(db, [db EXCEPT !.cols = {"realms", "alerts", "events"},
    !.idx = [i \in DOMAIN @ |-> IF @[i] # "none" \/ i = "lookup" THEN @[i]
                                ELSE IF i \in {"realm", "alert"} THEN "tenant" ELSE "plain"]])

-----------------------------------------------------------------------------
(* The data migrations that run once, each marked with the change it makes.  *)

Once(key, db, change) ==
  IF key \in db.marks THEN Succeeds(db) ELSE Transaction(db, [change EXCEPT !.marks = @ \cup {key}])

TenantsWith(db, realm) == {r.tenant : r \in {x \in db.rows.realms : x.realm = realm}}

\* An event without a tenant is given to the only tenant with its realm.
backfillEventTenantIDs(db) ==
  Once("events", db, [db EXCEPT !.rows.events =
    {IF e.tenant = NoTenant /\ Cardinality(TenantsWith(db, e.realm)) = 1
     THEN [e EXCEPT !.tenant = CHOOSE t \in TenantsWith(db, e.realm) : TRUE] ELSE e : e \in @}])

revokeCutOffUsersTokens(db) ==
  UNION {IF r.end = "ok" THEN Once("blocked", r.db, [r.db EXCEPT !.tokens = @ \ {"blocked"}]) ELSE {r} :
         r \in Once("inactive", db, [db EXCEPT !.tokens = @ \ {"inactive"}])}

\* Mutant of migrateAmfaReadPermission: it grants at every start.
grantAtEveryStart(db) ==
  Transaction(db, [db EXCEPT !.marks = @ \cup {"amfa"}, !.roles =
    [r \in Roles |-> IF @[r] = NoRole THEN NoRole ELSE @[r] \cup {"amfa:read"}]])

\* Granted to the default roles there are; a fresh database has none yet.
migrateAmfaReadPermission(db) ==
  Once("amfa", db, [db EXCEPT !.roles =
    [r \in Roles |-> IF @[r] = NoRole THEN NoRole ELSE @[r] \cup {"amfa:read"}]])

-----------------------------------------------------------------------------
(* The SSO user: when they last signed in, whether their address is verified. *)

\* migrateUserAuthMethod: a user without a password is an SSO user.
migrateUserAuthMethod(db) == Transaction(db, [db EXCEPT !.sso.oauth = TRUE])

\* A value written before the cutoff is nobody's claim.
migrateUnprovenEmailVerified(db) ==
  Transaction(db, [db EXCEPT !.sso.verified = @ /\ ~(db.sso.oauth /\ db.sso.login \in {"never", "before"})])

baselineSSOLastLogin(db) ==
  Transaction(db, [db EXCEPT !.sso.login = IF db.sso.oauth /\ @ = "never" THEN "after" ELSE @])

-----------------------------------------------------------------------------
(* Unique indexes: "none", "plain" (every row), "partial" (rows with a       *)
(* value), "tenant" (per tenant), "live" (as it should be).                  *)

SetIdx(db, i, kind) == [db EXCEPT !.idx[i] = kind]

\* The old index is dropped, then the new one created, in two statements.
Rebuild(db, i, kind) ==
  {Ok(SetIdx(db, i, kind)), Fault(SetIdx(db, i, "none")), Fault(db)}

migrateUsernameIndex(db) ==
  IF db.idx.username \in {"none", "plain"} THEN Rebuild(db, "username", "partial") ELSE Succeeds(db)

\* The indexes on users in turn, stopping at the first that cannot be rebuilt.
migrateUserUniqueIndexes(db) ==
  LET live(n) == [db EXCEPT !.idx = [i \in DOMAIN @ |-> IF \E k \in 1..n : UserIndexes[k] = i THEN "live" ELSE @[i]]]
  IN {Ok(live(Len(UserIndexes)))} \cup {Fault(live(n - 1)) : n \in DOMAIN UserIndexes}
       \cup {Fault(SetIdx(live(n - 1), UserIndexes[n], "none")) :
                n \in {k \in DOMAIN UserIndexes : db.idx[UserIndexes[k]] # "live"}}

\* Mutant of assertUserUniqueIndexesAreSafe: a missing index is let through.
assertUserUniqueIndexes(db) ==
  IF \A n \in DOMAIN UserIndexes : db.idx[UserIndexes[n]] \in {"none", "live"} THEN Succeeds(db) ELSE {Refused(db)}

assertUserUniqueIndexesAreSafe(db) ==
  IF \A n \in DOMAIN UserIndexes : db.idx[UserIndexes[n]] = "live" THEN Transaction(db, db) ELSE {Refused(db)}

migrateRoleNameIndex(db) == IF db.idx.role = "live" THEN Transaction(db, db) ELSE Rebuild(db, "role", "live")

\* removeDeletedRoleAssignments: user_roles rows of roles deleted long ago.
removeDeletedRoleAssignments(db) == Transaction(db, [db EXCEPT !.stale = FALSE])

migrateRealmNameIndex(db) ==
  IF db.idx.realm \in {"none", "live"} THEN Succeeds(db) ELSE Rebuild(db, "realm", "live")

\* The drop and the create are one transaction.
migrateAlertIDIndex(db) ==
  IF db.idx.alert \in {"none", "live"} THEN Succeeds(db) ELSE Transaction(db, SetIdx(db, "alert", "live"))

\* An interrupted concurrent build leaves an invalid index, which is dropped.
ensureAlertLookupIndex(db) ==
  IF db.idx.alert # "live" \/ db.idx.lookup = "valid" THEN Succeeds(db)
  ELSE {Ok(SetIdx(db, "lookup", "valid")), Fault(SetIdx(db, "lookup", "invalid")), Fault(SetIdx(db, "lookup", "none"))}

-----------------------------------------------------------------------------
(* Seeding.                                                                  *)

\* seedRoles: each role is created, then given its permissions; a failure to
\* give them is only logged.
SeedUpTo(db, n) == [db EXCEPT !.roles = [r \in Roles |->
  IF \E k \in 1..n : RoleOrder[k] = r THEN Permissions ELSE @[r]]]
CreateRole(db, r) == [db EXCEPT !.roles[r] = IF @ = NoRole THEN {} ELSE @]

seedRoles(db) ==
  LET all == Len(RoleOrder)
      created(n) == CreateRole(SeedUpTo(db, n - 1), RoleOrder[n])
      without(n) == [SeedUpTo(db, all) EXCEPT !.roles[RoleOrder[n]] = created(n).roles[RoleOrder[n]]]
  IN {Ok(SeedUpTo(db, all))} \cup {Fault(created(n)) : n \in 1..all} \cup {Fault(SeedUpTo(db, n)) : n \in 0..(all - 1)}
       \cup {Logged(without(n)) : n \in 1..all}

\* auth.simple of the configuration: not enabled; enabled without a default_email,
\* or with one but without a default_user or default_pass; all set.
AuthKinds == {"sso", "noemail", "nopassword", "full"}

SetAdmin(db, value) == [db EXCEPT !.admin = value]

\* Where there are no users the default user is created, which takes the whole
\* configuration, then given the admin role; one that is there without it is given
\* it, if its address is configured.  Where it cannot be found it is left without.
ensureDefaultAdminUser(db, auth) ==
  LET there == IF db.admin = "none" THEN SetAdmin(db, "user") ELSE db IN
  IF db.admin = "none" /\ auth # "full" THEN {Refused(db)}
  ELSE IF db.admin = "others" \/ auth = "noemail" THEN Transaction(db, db)
  ELSE {Ok(SetAdmin(db, "admin")), Fault(db), Fault(there)}
         \cup (IF db.admin = "admin" THEN {} ELSE {Logged(SetAdmin(db, "unassigned"))})

\* What a start that went through leaves of the default user: with simple auth there
\* are users, and with an address to look it up by it is not left without the role.
HasAdmin(auth, admin) ==
  /\ auth # "sso" => admin # "none"
  /\ auth \in {"nopassword", "full"} => admin # "user"
=============================================================================
