--------------------------- MODULE TelemetryProofs ---------------------------
(* EventCursor and Startup: how telemetry gets into the database, and how a  *)
(* start of the server migrates that database and drains the telemetry of    *)
(* deleted tenants.  Proved for any set of events, any durations, page sizes *)
(* and batch limits that keep the assumptions, any tenants and servers, and  *)
(* any number of faults, crashes and changes.                                *)
EXTENDS EventCursor, Startup, FiniteSetTheorems, WellFoundedInduction, TLAPS

-----------------------------------------------------------------------------
(* Least and greatest elements: what the model's CHOOSE over times picks.    *)

LEMMA LeastElement ==
  ASSUME NEW T \in SUBSET Nat, T # {}
  PROVE  \E m \in T : \A n \in T : m <= n
<1>1. \E m \in T : \A n \in T : ~(<<n, m>> \in OpToRel(<, Nat))
  BY NatLessThanWellFounded, WFMin, Zenon
<1>2. PICK m \in T : \A n \in T : ~(<<n, m>> \in OpToRel(<, Nat))
  BY <1>1
<1>3. ASSUME NEW n \in T
      PROVE  m <= n
  <2>1. <<n, m>> \in Nat \X Nat
    OBVIOUS
  <2>2. ~(n < m)
    BY <1>2, <2>1, <1>3 DEF OpToRel
  <2> QED BY <2>2
<1> QED BY <1>3

LEMMA GreatestElement ==
  ASSUME NEW S \in SUBSET Nat, S # {}, NEW b \in Nat, \A s \in S : s <= b
  PROVE  \E m \in S : \A s \in S : s <= m
<1> DEFINE Bounds == {n \in Nat : \A s \in S : s <= n}
<1>1. PICK m \in Bounds : \A n \in Bounds : m <= n
  <2>1. b \in Bounds
    OBVIOUS
  <2> HIDE DEF Bounds
  <2>2. Bounds \in SUBSET Nat
    BY DEF Bounds
  <2> QED BY <2>1, <2>2, LeastElement
<1>2. m \in S
  <2> SUFFICES ASSUME m \notin S PROVE FALSE
    OBVIOUS
  <2>1. \A s \in S : s <= m - 1
    OBVIOUS
  <2>2. m - 1 \in Nat
    <3>1. PICK s \in S : TRUE
      OBVIOUS
    <3> QED BY <2>1, <3>1
  <2> QED BY <1>1, <2>1, <2>2
<1> QED BY <1>2

-----------------------------------------------------------------------------
(* Startup: the inductive invariant.                                         *)

\* The stages a server is at under the schema lock, and those after a step that
\* leaves something a server relies on.
Migrating ==
  {"pre", "tables", "backfill", "revoke", "amfa", "auth", "verified", "baseline", "username", "users",
   "assert", "role", "assignments", "realm", "alert", "lookup", "seedqueue", "unlock"}
PastAdmin == {"readqueue", "entry", "window", "dequeue", "sync", "serve"}
PastRoles == {"admin"} \cup PastAdmin
PastRole == {"assignments", "realm", "alert", "lookup", "seedqueue", "unlock", "roles"} \cup PastRoles
PastAssert == {"role"} \cup PastRole
PastTables ==
  {"backfill", "revoke", "amfa", "auth", "verified", "baseline", "username", "users", "assert"} \cup PastAssert
Stages == {"down", "lock"} \cup Migrating \cup {"roles"} \cup PastRoles

AllCols == {"realms", "alerts", "events"}
Entries == [tenant : STRING \cup {NoTenant}, at : Nat]
Drains == [todo : SUBSET Entries, entry : Entries, cursor : Nat, deleted : Nat]
Owned(r) == r.tenant \in Existing /\ r.born = born[r.tenant]

StateInv ==
  /\ db \in Database /\ tenants \in [Tenants -> {"none", "open", "locked"}]
  /\ telemetry \subseteq [tenant : Tenants, time : Nat, born : Nat, late : BOOLEAN] /\ IsFiniteSet(telemetry)
  /\ queue \subseteq Entries /\ config \subseteq Tenants /\ clock \in Nat \ {0}
  /\ born \in [Tenants -> Nat] /\ gone \in [Tenants -> Nat]
  /\ drain \in [Servers -> Drains]
  /\ taken \subseteq Roles /\ claimed \in {"no", "yes", "refused"} /\ auth \in AuthKinds

\* Only the holder of the lock migrates.
StageInv ==
  /\ stage \in [Servers -> Stages] /\ lock \in Servers \cup {NoServer}
  /\ \A s \in Servers : stage[s] \in Migrating <=> lock = s

\* What a step left is there after it, whoever is migrating meanwhile.
SchemaInv ==
  \A s \in Servers :
    /\ stage[s] \in PastTables => db.cols = AllCols /\ db.idx.alert # "none"
    /\ stage[s] \in PastAssert => \A i \in {"email", "subject", "username"} : db.idx[i] = "live"
    /\ stage[s] \in PastRole => db.idx.role = "live"
    /\ stage[s] \in PastRoles => \A r \in Roles : db.roles[r] # NoRole
    /\ stage[s] \in PastAdmin => HasAdmin(auth, db.admin)

\* What was changed since a migration ran is where that migration does not reach.
ChangedInv ==
  /\ db.marks # {} => db.cols = AllCols
  /\ taken # {} => "amfa" \in db.marks /\ \A r \in Roles : db.roles[r] # NoRole
  /\ \A r \in taken : "amfa:read" \notin db.roles[r]
  /\ claimed = "yes" => db.sso.verified /\ db.sso.login = "after"

\* An entry is of a deletion that is over: its tenant, if there is one again, is
\* younger.  The queue has the last deletion of each tenant.
EntryInv(q) == q.at <= clock /\ (q.tenant \in Existing => q.at <= born[q.tenant])
QueueInv ==
  /\ \A q, p \in queue : q.tenant = p.tenant => q = p
  /\ \A t \in Tenants : gone[t] <= clock
  /\ \A q \in queue : EntryInv(q) /\ (q.tenant \in Tenants => gone[q.tenant] <= q.at)
  /\ \A s \in Servers : /\ \A q \in drain[s].todo \cup {drain[s].entry} : EntryInv(q)
                        /\ drain[s].cursor <= drain[s].entry.at

\* A row that was stored in its tenant's time is of the present tenant or queued.
RowInv ==
  \A r \in telemetry :
    /\ r.time <= clock
    /\ r.late \/ Owned(r) \/ r.tenant \in unqueued \/ \E q \in queue : q.tenant = r.tenant /\ r.time < q.at

\* Behind its cursor a drain leaves only what came, or was deleted, after its entry.
DrainInv ==
  \A s \in Servers, r \in telemetry :
    /\ stage[s] \in {"window", "dequeue"} /\ r.tenant = drain[s].entry.tenant /\ r.time < drain[s].entry.at
    /\ stage[s] = "window" => drain[s].cursor <= r.time
    => r.late \/ Owned(r) \/ r.tenant \in unqueued \/ drain[s].entry.at < gone[r.tenant]

StartupInv == StateInv /\ StageInv /\ SchemaInv /\ ChangedInv /\ QueueInv /\ RowInv /\ DrainInv

\* One server: while it drains, nothing else touches the queue.
AloneInv ==
  /\ unqueued = {}
  /\ \A s \in Servers :
       /\ stage[s] \in {"entry", "window", "dequeue"} => drain[s].todo \subseteq queue
       /\ stage[s] \in {"window", "dequeue"} => drain[s].entry \in queue \ drain[s].todo

-----------------------------------------------------------------------------
(* Startup: the results of the migrations (Schema).                          *)

\* What no result of a step takes back.
Keeps(d, e) ==
  /\ d.cols = AllCols => e.cols = AllCols /\ ("events" \in d.marks => e.rows = d.rows)
  /\ \A i \in {"email", "subject", "username", "role"} : d.idx[i] = "live" => e.idx[i] = "live"
  /\ d.idx.alert # "none" => e.idx.alert # "none"
  /\ \A r \in Roles : d.roles[r] # NoRole => e.roles[r] # NoRole
  /\ "amfa" \in d.marks /\ (\A r \in Roles : d.roles[r] # NoRole) => e.roles = d.roles
  /\ d.admin # "none" => e.admin # "none"
  /\ d.admin \notin {"none", "user"} => e.admin \notin {"none", "user"}
  /\ d.marks \subseteq e.marks
  /\ d.sso.verified /\ d.sso.login = "after" => e.sso.verified /\ e.sso.login = "after"

Stands(d, r) == r.db \in Database /\ Keeps(d, r.db) /\ r.end \in {"ok", "fault", "logged", "refused"}

LEMMA SameStands == ASSUME NEW d \in Database, NEW r \in {Ok(d), Fault(d), Refused(d)} PROVE Stands(d, r)
BY DEF Stands, Keeps, Ok, Fault, Refused

LEMMA PreStands ==
  ASSUME NEW d \in Database, NEW owner \in STRING \cup {NoTenant}, NEW r \in migratePreTenantSchema(d, owner)
  PROVE  Stands(d, r) /\ r.db.marks = d.marks
<1> DEFINE tables == pendingPreTenant(d)
<1>1. ASSUME NEW given \in SUBSET tables, owner \in STRING
      PROVE  LET e == GiveRows(d, given, owner) IN
             e \in Database /\ Keeps(d, e) /\ e.marks = d.marks
  <2>1. given \subseteq AllCols /\ (d.cols = AllCols => given = {})
    BY <1>1 DEF pendingPreTenant, AllCols, RowTables
  <2> DEFINE e == GiveRows(d, given, owner)
             rows == [t \in DOMAIN d.rows |-> IF t \in given THEN {[x EXCEPT !.tenant = owner] : x \in d.rows[t]} ELSE d.rows[t]]
  <2>2. rows \in [AllCols -> SUBSET [realm : STRING, owner : STRING, tenant : STRING]]
    BY <1>1 DEF Database, AllCols
  <2>3. e = [d EXCEPT !.cols = d.cols \cup given, !.rows = rows]
    BY DEF GiveRows
  <2>4. d.cols = AllCols => rows = d.rows
    BY <2>1 DEF Database
  <2>5. e \in Database /\ e.cols = d.cols \cup given /\ e.rows = rows /\ e.marks = d.marks
        /\ e.idx = d.idx /\ e.roles = d.roles /\ e.admin = d.admin /\ e.sso = d.sso
    <3> HIDE DEF rows, e
    <3> QED BY <2>1, <2>2, <2>3 DEF Database, AllCols
  <2> QED BY <2>1, <2>4, <2>5 DEF Keeps, Database, AllCols
<1>2. CASE tables = {} \/ owner = NoTenant
  <2>1. r \in {Ok(d), Refused(d)}
    BY <1>2 DEF migratePreTenantSchema, Succeeds
  <2>2. Stands(d, r)
    BY <2>1, SameStands
  <2> QED BY <2>1, <2>2 DEF Refused, Ok
<1>3. CASE ~(tables = {} \/ owner = NoTenant)
  <2>1. \E given \in SUBSET tables : r \in {Ok(GiveRows(d, given, owner)), Fault(GiveRows(d, given, owner))}
    BY <1>3 DEF migratePreTenantSchema
  <2> QED BY <1>1, <1>3, <2>1 DEF Stands, Ok, Fault
<1> QED BY <1>2, <1>3

LEMMA TablesStands ==
  ASSUME NEW d \in Database, NEW r \in AutoMigrate(d)
  PROVE  /\ Stands(d, r) /\ r.db.marks = d.marks
         /\ r.end \in {"ok", "logged"} => r.db.cols = AllCols /\ r.db.idx.alert # "none"
<1> DEFINE idx == [i \in DOMAIN d.idx |->
                     IF d.idx[i] # "none" \/ i = "lookup" THEN d.idx[i]
                     ELSE IF i \in {"realm", "alert"} THEN "tenant" ELSE "plain"]
           e == [d EXCEPT !.cols = AllCols, !.idx = idx]
<1>1. r \in {Ok(e), Fault(d)}
  BY DEF AutoMigrate, Transaction, AllCols
<1>2. /\ idx \in [Indexes -> IndexKinds] /\ idx.alert # "none"
      /\ \A i \in {"email", "subject", "username", "role"} : d.idx[i] = "live" => idx[i] = "live"
  BY DEF Database, Indexes, IndexKinds
<1>3. /\ e \in Database /\ e.cols = AllCols /\ e.idx = idx /\ e.rows = d.rows /\ e.marks = d.marks
      /\ e.roles = d.roles /\ e.admin = d.admin /\ e.sso = d.sso
  <2> HIDE DEF idx
  <2> QED BY <1>2 DEF Database, AllCols, Indexes, IndexKinds
<1>4. Keeps(d, e)
  <2> HIDE DEF e, idx
  <2> QED BY <1>2, <1>3 DEF Keeps, Database
<1> HIDE DEF e, idx
<1>5. CASE r = Ok(e)
  BY <1>2, <1>3, <1>4, <1>5 DEF Stands, Ok
<1>6. CASE r = Fault(d)
  BY <1>6, SameStands DEF Fault
<1> QED BY <1>1, <1>5, <1>6

\* An index that is live stays live.
LEMMA IdxKeeps ==
  ASSUME NEW d \in Database, NEW x \in [Indexes -> IndexKinds], d.idx.alert # "none" => x.alert # "none",
         \A i \in {"email", "subject", "username", "role"} : d.idx[i] = "live" => x[i] = "live"
  PROVE  LET e == [d EXCEPT !.idx = x] IN e \in Database /\ e.idx = x /\ Keeps(d, e)
<1> DEFINE e == [d EXCEPT !.idx = x]
<1>1. /\ e \in Database /\ e.cols = d.cols /\ e.idx = x /\ e.rows = d.rows /\ e.marks = d.marks
      /\ e.roles = d.roles /\ e.admin = d.admin /\ e.sso = d.sso
  BY DEF Database
<1> HIDE DEF e
<1>2. Keeps(d, e)
  BY <1>1 DEF Keeps, Database
<1> QED BY <1>1, <1>2 DEF e

LEMMA SetIdxKeeps ==
  ASSUME NEW d \in Database, NEW i \in Indexes, NEW kind \in IndexKinds,
         i \in {"email", "subject", "username", "role"} /\ d.idx[i] = "live" => kind = "live",
         i = "alert" => kind # "none"
  PROVE  SetIdx(d, i, kind) \in Database /\ SetIdx(d, i, kind).idx[i] = kind /\ Keeps(d, SetIdx(d, i, kind))
<1> DEFINE x == [d.idx EXCEPT ![i] = kind]
<1>1. /\ x \in [Indexes -> IndexKinds] /\ (d.idx.alert # "none" => x.alert # "none") /\ x[i] = kind
      /\ \A j \in {"email", "subject", "username", "role"} : d.idx[j] = "live" => x[j] = "live"
  BY DEF Database, Indexes, IndexKinds
<1>2. SetIdx(d, i, kind) = [d EXCEPT !.idx = x]
  BY DEF SetIdx
<1> HIDE DEF x
<1> QED BY <1>1, <1>2, IdxKeeps

LEMMA RebuildStands ==
  ASSUME NEW d \in Database, NEW i \in Indexes \ {"alert"}, NEW kind \in IndexKinds \ {"none"},
         NEW r \in Rebuild(d, i, kind), i \in {"email", "subject", "username", "role"} => d.idx[i] # "live"
  PROVE  Stands(d, r) /\ (r.end \in {"ok", "logged"} => r.db.idx[i] = kind)
<1>1. /\ SetIdx(d, i, kind) \in Database /\ SetIdx(d, i, kind).idx[i] = kind /\ Keeps(d, SetIdx(d, i, kind))
      /\ SetIdx(d, i, "none") \in Database /\ Keeps(d, SetIdx(d, i, "none"))
  <2>1. "none" \in IndexKinds
    BY DEF IndexKinds
  <2> QED BY <2>1, SetIdxKeeps
<1>2. r \in {Ok(SetIdx(d, i, kind)), Fault(SetIdx(d, i, "none")), Fault(d)}
  BY DEF Rebuild
<1>3. CASE r = Ok(SetIdx(d, i, kind))
  BY <1>1, <1>3 DEF Stands, Ok
<1>4. CASE r = Fault(SetIdx(d, i, "none"))
  BY <1>1, <1>4 DEF Stands, Fault
<1>5. CASE r = Fault(d)
  <2>1. Stands(d, r)
    BY <1>5, SameStands
  <2> QED BY <1>5, <2>1 DEF Fault
<1> QED BY <1>2, <1>3, <1>4, <1>5

LEMMA SucceedsStands == ASSUME NEW d \in Database, NEW r \in Succeeds(d) PROVE Stands(d, r) /\ r.db = d
<1>1. r = Ok(d)
  BY DEF Succeeds
<1> QED BY <1>1, SameStands DEF Ok

LEMMA TransactionStands ==
  ASSUME NEW d \in Database, NEW e \in Database, Keeps(d, e), NEW r \in Transaction(d, e)
  PROVE  Stands(d, r) /\ (r.end = "ok" => r.db = e)
<1>1. CASE r = Ok(e)
  BY <1>1 DEF Stands, Ok
<1>2. CASE r = Fault(d)
  <2>1. Stands(d, r)
    BY <1>2, SameStands
  <2> QED BY <1>2, <2>1 DEF Fault
<1> QED BY <1>1, <1>2 DEF Transaction

\* What a migration that is marked changes, it changes once.
LEMMA OnceStands ==
  ASSUME NEW d \in Database, NEW key \in {"events", "inactive", "blocked", "amfa"}, NEW change \in Database,
         NEW r \in Once(key, d, change), change.marks = d.marks,
         key \notin d.marks => LET e == [change EXCEPT !.marks = d.marks \cup {key}] IN Keeps(d, e)
  PROVE  Stands(d, r)
<1>1. CASE key \in d.marks
  BY <1>1, SucceedsStands DEF Once
<1>2. CASE key \notin d.marks
  <2> DEFINE e == [change EXCEPT !.marks = d.marks \cup {key}]
  <2>1. e \in Database
    BY DEF Database
  <2>2. r \in Transaction(d, e)
    BY <1>2 DEF Once
  <2>3. Keeps(d, e)
    BY <1>2
  <2> HIDE DEF e
  <2> QED BY <2>1, <2>2, <2>3, TransactionStands
<1> QED BY <1>1, <1>2

\* A step that changes only fields that nothing relies on.
LEMMA BackfillStands == ASSUME NEW d \in Database, NEW r \in backfillEventTenantIDs(d) PROVE Stands(d, r)
<1> DEFINE events == {IF e.tenant = NoTenant /\ Cardinality(TenantsWith(d, e.realm)) = 1
                      THEN [e EXCEPT !.tenant = CHOOSE t \in TenantsWith(d, e.realm) : TRUE] ELSE e : e \in d.rows.events}
           change == [d EXCEPT !.rows.events = events]
<1>1. r \in Once("events", d, change)
  BY DEF backfillEventTenantIDs
<1>2. events \subseteq [realm : STRING, owner : STRING, tenant : STRING]
  <2> SUFFICES ASSUME NEW e \in d.rows.events
               PROVE  (IF e.tenant = NoTenant /\ Cardinality(TenantsWith(d, e.realm)) = 1
                       THEN [e EXCEPT !.tenant = CHOOSE t \in TenantsWith(d, e.realm) : TRUE] ELSE e)
                      \in [realm : STRING, owner : STRING, tenant : STRING]
    OBVIOUS
  <2>1. e \in [realm : STRING, owner : STRING, tenant : STRING]
    BY DEF Database
  <2>2. TenantsWith(d, e.realm) \subseteq STRING
    BY DEF TenantsWith, Database
  <2>3. CASE Cardinality(TenantsWith(d, e.realm)) = 1
    <3>1. TenantsWith(d, e.realm) # {}
      BY <2>3, FS_EmptySet
    <3>2. (CHOOSE t \in TenantsWith(d, e.realm) : TRUE) \in STRING
      BY <2>2, <3>1
    <3> QED BY <2>1, <3>2
  <2> QED BY <2>1, <2>3
<1> HIDE DEF events
<1>3. /\ change \in Database /\ change.marks = d.marks /\ change.cols = d.cols /\ change.idx = d.idx
      /\ change.roles = d.roles /\ change.admin = d.admin /\ change.sso = d.sso
  BY <1>2 DEF Database
<1> HIDE DEF change
<1>4. "events" \notin d.marks => LET e == [change EXCEPT !.marks = d.marks \cup {"events"}] IN Keeps(d, e)
  BY <1>3 DEF Keeps, Database
<1> QED BY <1>1, <1>3, <1>4, OnceStands

LEMMA KeepsOn ==
  ASSUME NEW d \in Database, NEW e \in Database, NEW f \in Database, Keeps(d, e), Keeps(e, f)
  PROVE  Keeps(d, f)
BY DEF Keeps

LEMMA RevokeStands == ASSUME NEW d \in Database, NEW r \in revokeCutOffUsersTokens(d) PROVE Stands(d, r)
<1>1. ASSUME NEW key \in {"inactive", "blocked"}, NEW e \in Database,
             NEW q \in Once(key, e, [e EXCEPT !.tokens = @ \ {key}])
      PROVE  Stands(e, q)
  <2> DEFINE change == [e EXCEPT !.tokens = e.tokens \ {key}]
  <2>1. /\ change \in Database /\ change.marks = e.marks /\ change.cols = e.cols /\ change.idx = e.idx
        /\ change.rows = e.rows /\ change.roles = e.roles /\ change.admin = e.admin /\ change.sso = e.sso
    BY DEF Database
  <2>2. q \in Once(key, e, change)
    BY <1>1
  <2> HIDE DEF change
  <2>3. key \notin e.marks => LET f == [change EXCEPT !.marks = e.marks \cup {key}] IN Keeps(e, f)
    BY <2>1 DEF Keeps, Database
  <2> QED BY <2>1, <2>2, <2>3, OnceStands
<1>2. PICK q \in Once("inactive", d, [d EXCEPT !.tokens = @ \ {"inactive"}]) :
        IF q.end = "ok" THEN r \in Once("blocked", q.db, [q.db EXCEPT !.tokens = @ \ {"blocked"}]) ELSE r = q
  BY DEF revokeCutOffUsersTokens
<1>3. Stands(d, q)
  BY <1>1
<1>4. CASE q.end = "ok"
  <2>1. q.db \in Database /\ r \in Once("blocked", q.db, [q.db EXCEPT !.tokens = @ \ {"blocked"}])
    BY <1>2, <1>3, <1>4 DEF Stands
  <2>2. Stands(q.db, r)
    BY <2>1, <1>1
  <2> QED BY <1>3, <2>2, KeepsOn DEF Stands
<1>5. CASE q.end # "ok"
  BY <1>2, <1>3, <1>5
<1> QED BY <1>4, <1>5

LEMMA AmfaStands == ASSUME NEW d \in Database, NEW r \in migrateAmfaReadPermission(d) PROVE Stands(d, r)
<1> DEFINE roles == [q \in Roles |-> IF d.roles[q] = NoRole THEN NoRole ELSE d.roles[q] \cup {"amfa:read"}]
           change == [d EXCEPT !.roles = roles]
<1>1. r \in Once("amfa", d, change)
  BY DEF migrateAmfaReadPermission
<1>2. roles \in [Roles -> {NoRole} \cup SUBSET Permissions] /\ \A q \in Roles : d.roles[q] # NoRole => roles[q] # NoRole
  BY DEF Database, Permissions, NoRole
<1> HIDE DEF roles
<1>3. /\ change \in Database /\ change.marks = d.marks /\ change.cols = d.cols /\ change.idx = d.idx
      /\ change.rows = d.rows /\ change.roles = roles /\ change.admin = d.admin /\ change.sso = d.sso
  BY <1>2 DEF Database
<1> HIDE DEF change
<1>4. "amfa" \notin d.marks => LET e == [change EXCEPT !.marks = d.marks \cup {"amfa"}] IN Keeps(d, e)
  BY <1>2, <1>3 DEF Keeps, Database
<1> QED BY <1>1, <1>3, <1>4, OnceStands

\* A claim made since the cutoff is kept.
LEMMA SsoKeeps ==
  ASSUME NEW d \in Database, NEW x \in [oauth : BOOLEAN, verified : BOOLEAN, login : {"never", "before", "after"}],
         d.sso.verified /\ d.sso.login = "after" => x.verified /\ x.login = "after"
  PROVE  LET e == [d EXCEPT !.sso = x] IN e \in Database /\ Keeps(d, e)
<1> DEFINE e == [d EXCEPT !.sso = x]
<1>1. /\ e \in Database /\ e.cols = d.cols /\ e.idx = d.idx /\ e.rows = d.rows /\ e.marks = d.marks
      /\ e.roles = d.roles /\ e.admin = d.admin /\ e.sso = x
  BY DEF Database
<1> HIDE DEF e
<1> QED BY <1>1 DEF Keeps, Database, e

LEMMA SsoStands ==
  ASSUME NEW d \in Database,
         NEW r \in migrateUserAuthMethod(d) \cup migrateUnprovenEmailVerified(d) \cup baselineSSOLastLogin(d)
  PROVE  Stands(d, r)
<1>0. d.sso \in [oauth : BOOLEAN, verified : BOOLEAN, login : {"never", "before", "after"}]
  BY DEF Database
<1>1. CASE r \in migrateUserAuthMethod(d)
  <2> DEFINE x == [d.sso EXCEPT !.oauth = TRUE]
  <2>1. r \in Transaction(d, [d EXCEPT !.sso = x])
    BY <1>1 DEF migrateUserAuthMethod
  <2>2. /\ x \in [oauth : BOOLEAN, verified : BOOLEAN, login : {"never", "before", "after"}]
        /\ x.verified = d.sso.verified /\ x.login = d.sso.login
    BY <1>0
  <2> HIDE DEF x
  <2> QED BY <2>1, <2>2, SsoKeeps, TransactionStands
<1>2. CASE r \in migrateUnprovenEmailVerified(d)
  <2> DEFINE x == [d.sso EXCEPT !.verified = d.sso.verified /\ ~(d.sso.oauth /\ d.sso.login \in {"never", "before"})]
  <2>1. r \in Transaction(d, [d EXCEPT !.sso = x])
    BY <1>2 DEF migrateUnprovenEmailVerified
  <2>2. /\ x \in [oauth : BOOLEAN, verified : BOOLEAN, login : {"never", "before", "after"}]
        /\ d.sso.verified /\ d.sso.login = "after" => x.verified /\ x.login = "after"
    BY <1>0
  <2> HIDE DEF x
  <2> QED BY <2>1, <2>2, SsoKeeps, TransactionStands
<1>3. CASE r \in baselineSSOLastLogin(d)
  <2> DEFINE x == [d.sso EXCEPT !.login = IF d.sso.oauth /\ d.sso.login = "never" THEN "after" ELSE d.sso.login]
  <2>1. r \in Transaction(d, [d EXCEPT !.sso = x])
    BY <1>3 DEF baselineSSOLastLogin
  <2>2. /\ x \in [oauth : BOOLEAN, verified : BOOLEAN, login : {"never", "before", "after"}]
        /\ d.sso.verified /\ d.sso.login = "after" => x.verified /\ x.login = "after"
    BY <1>0
  <2> HIDE DEF x
  <2> QED BY <2>1, <2>2, SsoKeeps, TransactionStands
<1> QED BY <1>1, <1>2, <1>3

LEMMA UsernameStands == ASSUME NEW d \in Database, NEW r \in migrateUsernameIndex(d) PROVE Stands(d, r)
<1>1. CASE d.idx.username \in {"none", "plain"}
  <2>1. r \in Rebuild(d, "username", "partial") /\ "username" \in Indexes \ {"alert"} /\ "partial" \in IndexKinds \ {"none"}
    BY <1>1 DEF migrateUsernameIndex, Indexes, IndexKinds
  <2>2. d.idx["username"] # "live"
    BY <1>1
  <2> QED BY <2>1, <2>2, RebuildStands
<1>2. CASE d.idx.username \notin {"none", "plain"}
  BY <1>2, SucceedsStands DEF migrateUsernameIndex
<1> QED BY <1>1, <1>2

\* The indexes on users become live one by one, or are left as they are.
LEMMA UsersStands == ASSUME NEW d \in Database, NEW r \in migrateUserUniqueIndexes(d) PROVE Stands(d, r)
<1> DEFINE idx(n) == [i \in DOMAIN d.idx |-> IF \E k \in 1 .. n : UserIndexes[k] = i THEN "live" ELSE d.idx[i]]
           live(n) == [d EXCEPT !.idx = idx(n)]
<1>1. DOMAIN UserIndexes = 1 .. 3 /\ Len(UserIndexes) = 3
  BY DEF UserIndexes
<1>2. ASSUME NEW n \in 0 .. 3
      PROVE  /\ idx(n) \in [Indexes -> IndexKinds] /\ idx(n).alert = d.idx.alert
             /\ \A i \in {"email", "subject", "username", "role"} : d.idx[i] = "live" => idx(n)[i] = "live"
             /\ \A i \in Indexes : idx(n)[i] \in {"live", d.idx[i]}
             /\ \A k \in 1 .. 3 : k > n => idx(n)[UserIndexes[k]] = d.idx[UserIndexes[k]]
  BY DEF Database, Indexes, IndexKinds, UserIndexes
<1>3. ASSUME NEW n \in 0 .. 3 PROVE live(n) \in Database /\ Keeps(d, live(n)) /\ live(n).idx = idx(n)
  <2>1. /\ idx(n) \in [Indexes -> IndexKinds] /\ idx(n).alert = d.idx.alert
        /\ \A i \in {"email", "subject", "username", "role"} : d.idx[i] = "live" => idx(n)[i] = "live"
    BY <1>2
  <2> HIDE DEF idx
  <2> QED BY <2>1, IdxKeeps
<1>4. r \in {Ok(live(3))} \cup {Fault(live(n - 1)) : n \in 1 .. 3}
            \cup {Fault(SetIdx(live(n - 1), UserIndexes[n], "none")) : n \in {k \in 1 .. 3 : d.idx[UserIndexes[k]] # "live"}}
  BY <1>1 DEF migrateUserUniqueIndexes
<1>5. CASE \E n \in 0 .. 3 : r \in {Ok(live(n)), Fault(live(n))}
  <2> HIDE DEF live
  <2> QED BY <1>3, <1>5 DEF Stands, Ok, Fault
<1>6. CASE \E n \in 1 .. 3 : d.idx[UserIndexes[n]] # "live" /\ r = Fault(SetIdx(live(n - 1), UserIndexes[n], "none"))
  <2>1. PICK n \in 1 .. 3 : d.idx[UserIndexes[n]] # "live" /\ r = Fault(SetIdx(live(n - 1), UserIndexes[n], "none"))
    BY <1>6
  <2>2. n - 1 \in 0 .. 3 /\ n > n - 1
    OBVIOUS
  <2>3. live(n - 1) \in Database /\ Keeps(d, live(n - 1)) /\ live(n - 1).idx[UserIndexes[n]] # "live"
    BY <1>2, <1>3, <2>1, <2>2
  <2> HIDE DEF live
  <2>4. UserIndexes[n] \in Indexes \ {"alert"} /\ "none" \in IndexKinds
    BY DEF UserIndexes, Indexes, IndexKinds
  <2>5. SetIdx(live(n - 1), UserIndexes[n], "none") \in Database
        /\ Keeps(live(n - 1), SetIdx(live(n - 1), UserIndexes[n], "none"))
    BY <2>3, <2>4, SetIdxKeeps
  <2>6. Keeps(d, SetIdx(live(n - 1), UserIndexes[n], "none"))
    BY <2>3, <2>5, KeepsOn
  <2> QED BY <2>1, <2>5, <2>6 DEF Stands, Fault
<1> HIDE DEF live
<1>7. (\E n \in 0 .. 3 : r \in {Ok(live(n)), Fault(live(n))})
      \/ \E n \in 1 .. 3 : d.idx[UserIndexes[n]] # "live" /\ r = Fault(SetIdx(live(n - 1), UserIndexes[n], "none"))
  <2>1. \A n \in 1 .. 3 : n - 1 \in 0 .. 3
    OBVIOUS
  <2> QED BY <1>4, <2>1
<1> QED BY <1>5, <1>6, <1>7

\* The start goes on only where the indexes on users are as they should be.
LEMMA AssertStands ==
  ASSUME NEW d \in Database, NEW r \in assertUserUniqueIndexesAreSafe(d)
  PROVE  Stands(d, r) /\ (r.end \in {"ok", "logged"} => \A i \in {"email", "subject", "username"} : r.db.idx[i] = "live")
<1>1. r \in {Ok(d), Fault(d), Refused(d)}
  BY DEF assertUserUniqueIndexesAreSafe, Transaction
<1>2. r.end \in {"ok", "logged"} => r.db = d /\ \A n \in DOMAIN UserIndexes : d.idx[UserIndexes[n]] = "live"
  BY DEF assertUserUniqueIndexesAreSafe, Transaction, Ok, Fault, Refused
<1>3. \A i \in {"email", "subject", "username"} : \E n \in DOMAIN UserIndexes : UserIndexes[n] = i
  <2>1. /\ 1 \in DOMAIN UserIndexes /\ 2 \in DOMAIN UserIndexes /\ 3 \in DOMAIN UserIndexes
        /\ UserIndexes[1] = "email" /\ UserIndexes[2] = "subject" /\ UserIndexes[3] = "username"
    BY DEF UserIndexes
  <2> QED BY <2>1
<1>4. r.end \in {"ok", "logged"} => \A i \in {"email", "subject", "username"} : r.db.idx[i] = "live"
  BY <1>2, <1>3
<1> QED BY <1>1, <1>4, SameStands

LEMMA DatabaseKeepsItself == ASSUME NEW d \in Database PROVE Keeps(d, d)
BY DEF Keeps

LEMMA RoleStands ==
  ASSUME NEW d \in Database, NEW r \in migrateRoleNameIndex(d)
  PROVE  Stands(d, r) /\ (r.end \in {"ok", "logged"} => r.db.idx.role = "live")
<1>1. CASE d.idx.role = "live"
  <2>1. r \in Transaction(d, d)
    BY <1>1 DEF migrateRoleNameIndex
  <2>2. Keeps(d, d)
    BY DatabaseKeepsItself
  <2>3. Stands(d, r) /\ (r.end = "ok" => r.db = d)
    BY <2>1, <2>2, TransactionStands
  <2>4. r.end # "logged"
    BY <2>1 DEF Transaction, Ok, Fault
  <2> QED BY <1>1, <2>3, <2>4
<1>2. CASE d.idx.role # "live"
  <2>1. r \in Rebuild(d, "role", "live") /\ "role" \in Indexes \ {"alert"} /\ "live" \in IndexKinds \ {"none"}
    BY <1>2 DEF migrateRoleNameIndex, Indexes, IndexKinds
  <2>2. d.idx["role"] # "live"
    BY <1>2
  <2>3. Stands(d, r) /\ (r.end \in {"ok", "logged"} => r.db.idx["role"] = "live")
    BY <2>1, <2>2, RebuildStands
  <2> QED BY <2>3
<1> QED BY <1>1, <1>2

LEMMA AssignmentsStands == ASSUME NEW d \in Database, NEW r \in removeDeletedRoleAssignments(d) PROVE Stands(d, r)
<1> DEFINE e == [d EXCEPT !.stale = FALSE]
<1>1. r \in Transaction(d, e)
  BY DEF removeDeletedRoleAssignments
<1>2. e \in Database /\ Keeps(d, e)
  BY DEF Keeps, Database
<1> HIDE DEF e
<1> QED BY <1>1, <1>2, TransactionStands

LEMMA OtherIndexesStand ==
  ASSUME NEW d \in Database,
         NEW r \in migrateRealmNameIndex(d) \cup migrateAlertIDIndex(d) \cup ensureAlertLookupIndex(d)
  PROVE  Stands(d, r)
<1>0. {"realm", "alert", "lookup"} \subseteq Indexes /\ {"live", "valid", "invalid", "none"} \subseteq IndexKinds
  BY DEF Indexes, IndexKinds
<1>1. CASE r \in Succeeds(d)
  BY <1>1, SucceedsStands
<1>2. CASE r \in Rebuild(d, "realm", "live")
  <2>1. "realm" \in Indexes \ {"alert"} /\ "live" \in IndexKinds \ {"none"}
    BY <1>0
  <2> QED BY <1>2, <2>1, RebuildStands
<1>3. CASE r \in Transaction(d, SetIdx(d, "alert", "live"))
  <2>1. SetIdx(d, "alert", "live") \in Database /\ Keeps(d, SetIdx(d, "alert", "live"))
    BY <1>0, SetIdxKeeps
  <2> QED BY <1>3, <2>1, TransactionStands
<1>4. CASE r \in {Ok(SetIdx(d, "lookup", "valid")), Fault(SetIdx(d, "lookup", "invalid")), Fault(SetIdx(d, "lookup", "none"))}
  <2>1. ASSUME NEW kind \in IndexKinds
        PROVE  SetIdx(d, "lookup", kind) \in Database /\ Keeps(d, SetIdx(d, "lookup", kind))
    BY <1>0, SetIdxKeeps
  <2>2. \E kind \in IndexKinds : r \in {Ok(SetIdx(d, "lookup", kind)), Fault(SetIdx(d, "lookup", kind))}
    BY <1>0, <1>4
  <2> QED BY <2>1, <2>2 DEF Stands, Ok, Fault
<1> QED BY <1>1, <1>2, <1>3, <1>4 DEF migrateRealmNameIndex, migrateAlertIDIndex, ensureAlertLookupIndex

LEMMA RolesKeep ==
  ASSUME NEW d \in Database, NEW x \in [Roles -> {NoRole} \cup SUBSET Permissions],
         \A q \in Roles : d.roles[q] # NoRole => x[q] # NoRole,
         "amfa" \in d.marks => \E q \in Roles : d.roles[q] = NoRole
  PROVE  LET e == [d EXCEPT !.roles = x] IN e \in Database /\ Keeps(d, e) /\ e.roles = x
<1> DEFINE e == [d EXCEPT !.roles = x]
<1>1. /\ e \in Database /\ e.cols = d.cols /\ e.idx = d.idx /\ e.rows = d.rows /\ e.marks = d.marks
      /\ e.roles = x /\ e.admin = d.admin /\ e.sso = d.sso
  BY DEF Database
<1> HIDE DEF e
<1> QED BY <1>1 DEF Keeps, Database, e

LEMMA SystemRolesStand ==
  ASSUME NEW d \in Database, NEW r \in EnsureSystemRoles(d)
  PROVE  Stands(d, r) /\ (r.end \in {"ok", "logged"} => \A q \in Roles : r.db.roles[q] # NoRole)
<1>1. CASE \A q \in Roles : d.roles[q] # NoRole
  <2>1. r \in Transaction(d, d)
    BY <1>1 DEF EnsureSystemRoles
  <2>2. Stands(d, r)
    BY <2>1, DatabaseKeepsItself, TransactionStands
  <2>3. r.db = d
    BY <2>1 DEF Transaction, Ok, Fault
  <2> QED BY <1>1, <2>2, <2>3
<1>2. CASE \E q \in Roles : d.roles[q] = NoRole
  <2> DEFINE all == Len(RoleOrder)
             up(n) == [q \in Roles |-> IF \E k \in 1 .. n : RoleOrder[k] = q THEN Permissions ELSE d.roles[q]]
             created(n) == [up(n - 1) EXCEPT ![RoleOrder[n]] = IF @ = NoRole THEN {} ELSE @]
             without(n) == [up(all) EXCEPT ![RoleOrder[n]] = created(n)[RoleOrder[n]]]
             Set(x) == [d EXCEPT !.roles = x]
  <2>0. all \in Nat /\ \A n \in 1 .. all : RoleOrder[n] \in Roles
    BY SchemaAssumption DEF Roles
  <2>1. \A q \in Roles : \E k \in 1 .. all : RoleOrder[k] = q
    BY SchemaAssumption DEF Roles
  <2>2. Permissions # NoRole /\ {} # NoRole /\ {} \subseteq Permissions
    BY DEF Permissions, NoRole
  <2>3. \A n \in Int : /\ up(n) \in [Roles -> {NoRole} \cup SUBSET Permissions]
                       /\ \A q \in Roles : d.roles[q] # NoRole => up(n)[q] # NoRole
    BY <2>2 DEF Database
  <2>4. \A q \in Roles : up(all)[q] # NoRole
    BY <2>1, <2>2
  <2> HIDE DEF up
  <2>5. \A n \in 1 .. all : /\ created(n) \in [Roles -> {NoRole} \cup SUBSET Permissions]
                            /\ \A q \in Roles : d.roles[q] # NoRole => created(n)[q] # NoRole
                            /\ created(n)[RoleOrder[n]] # NoRole
    <3> SUFFICES ASSUME NEW n \in 1 .. all
                 PROVE  /\ created(n) \in [Roles -> {NoRole} \cup SUBSET Permissions]
                        /\ \A q \in Roles : d.roles[q] # NoRole => created(n)[q] # NoRole
                        /\ created(n)[RoleOrder[n]] # NoRole
      OBVIOUS
    <3>1. n - 1 \in Int /\ RoleOrder[n] \in Roles
      BY <2>0
    <3>2. /\ up(n - 1) \in [Roles -> {NoRole} \cup SUBSET Permissions]
          /\ \A q \in Roles : d.roles[q] # NoRole => up(n - 1)[q] # NoRole
      BY <2>3, <3>1
    <3> QED BY <2>2, <3>1, <3>2
  <2> HIDE DEF created
  <2>6. \A n \in 1 .. all : /\ without(n) \in [Roles -> {NoRole} \cup SUBSET Permissions]
                            /\ \A q \in Roles : without(n)[q] # NoRole
    <3> SUFFICES ASSUME NEW n \in 1 .. all
                 PROVE  /\ without(n) \in [Roles -> {NoRole} \cup SUBSET Permissions]
                        /\ \A q \in Roles : without(n)[q] # NoRole
      OBVIOUS
    <3>1. RoleOrder[n] \in Roles /\ all \in Int
      BY <2>0
    <3>2. /\ created(n)[RoleOrder[n]] \in {NoRole} \cup SUBSET Permissions
          /\ created(n)[RoleOrder[n]] # NoRole
      BY <2>5, <3>1
    <3>3. up(all) \in [Roles -> {NoRole} \cup SUBSET Permissions]
      BY <2>3, <3>1
    <3> QED BY <2>4, <3>1, <3>2, <3>3
  <2> HIDE DEF without
  <2>7. \/ r = Ok(Set(up(all)))
        \/ \E n \in 1 .. all : r \in {Fault(Set(created(n))), Logged(Set(without(n)))}
        \/ \E n \in 0 .. (all - 1) : r = Fault(Set(up(n)))
    <3>1. r \in seedRoles(d)
      BY <1>2 DEF EnsureSystemRoles
    <3>2. \A n \in Int : SeedUpTo(d, n) = Set(up(n))
      BY DEF SeedUpTo, up
    <3>3. \A n \in 1 .. all : CreateRole(SeedUpTo(d, n - 1), RoleOrder[n]) = Set(created(n))
      <4> SUFFICES ASSUME NEW n \in 1 .. all PROVE CreateRole(SeedUpTo(d, n - 1), RoleOrder[n]) = Set(created(n))
        OBVIOUS
      <4>1. SeedUpTo(d, n - 1) = Set(up(n - 1))
        BY <3>2
      <4>2. Set(up(n - 1)).roles = up(n - 1)
        BY <2>0 DEF Database
      <4> QED BY <4>1, <4>2 DEF CreateRole, created
    <3>4. \A n \in 1 .. all :
            [SeedUpTo(d, all) EXCEPT !.roles[RoleOrder[n]] =
               CreateRole(SeedUpTo(d, n - 1), RoleOrder[n]).roles[RoleOrder[n]]] = Set(without(n))
      <4> SUFFICES ASSUME NEW n \in 1 .. all
                   PROVE  [SeedUpTo(d, all) EXCEPT !.roles[RoleOrder[n]] =
                             CreateRole(SeedUpTo(d, n - 1), RoleOrder[n]).roles[RoleOrder[n]]] = Set(without(n))
        OBVIOUS
      <4>1. SeedUpTo(d, all) = Set(up(all)) /\ Set(up(all)).roles = up(all) /\ Set(created(n)).roles = created(n)
        BY <2>0, <3>2 DEF Database
      <4> QED BY <3>3, <4>1 DEF without
    <3>5. \/ r = Ok(SeedUpTo(d, all))
          \/ \E n \in 1 .. all : r = Fault(CreateRole(SeedUpTo(d, n - 1), RoleOrder[n]))
          \/ \E n \in 0 .. (all - 1) : r = Fault(SeedUpTo(d, n))
          \/ \E n \in 1 .. all :
               r = Logged([SeedUpTo(d, all) EXCEPT !.roles[RoleOrder[n]] =
                             CreateRole(SeedUpTo(d, n - 1), RoleOrder[n]).roles[RoleOrder[n]]])
      BY <3>1 DEF seedRoles
    <3> HIDE DEF Set
    <3>6. CASE r = Ok(SeedUpTo(d, all))
      BY <2>0, <3>2, <3>6
    <3>7. CASE \E n \in 1 .. all : r = Fault(CreateRole(SeedUpTo(d, n - 1), RoleOrder[n]))
      BY <3>3, <3>7
    <3>8. CASE \E n \in 0 .. (all - 1) : r = Fault(SeedUpTo(d, n))
      BY <3>2, <3>8
    <3>9. CASE \E n \in 1 .. all :
                 r = Logged([SeedUpTo(d, all) EXCEPT !.roles[RoleOrder[n]] =
                               CreateRole(SeedUpTo(d, n - 1), RoleOrder[n]).roles[RoleOrder[n]]])
      BY <3>4, <3>9
    <3> QED BY <3>5, <3>6, <3>7, <3>8, <3>9
  <2>8. ASSUME NEW x \in [Roles -> {NoRole} \cup SUBSET Permissions], \A q \in Roles : d.roles[q] # NoRole => x[q] # NoRole
        PROVE  Set(x) \in Database /\ Keeps(d, Set(x)) /\ Set(x).roles = x
    BY <1>2, <2>8, RolesKeep
  <2>9. CASE r = Ok(Set(up(all)))
    <3>1. Set(up(all)) \in Database /\ Keeps(d, Set(up(all))) /\ Set(up(all)).roles = up(all)
      BY <2>0, <2>3, <2>8
    <3> HIDE DEF Set
    <3> QED BY <2>4, <2>9, <3>1 DEF Stands, Ok
  <2>10. CASE \E n \in 1 .. all : r \in {Fault(Set(created(n))), Logged(Set(without(n)))}
    <3>1. PICK n \in 1 .. all : r \in {Fault(Set(created(n))), Logged(Set(without(n)))}
      BY <2>10
    <3>2. Set(created(n)) \in Database /\ Keeps(d, Set(created(n)))
      BY <2>5, <2>8
    <3>3. Set(without(n)) \in Database /\ Keeps(d, Set(without(n))) /\ Set(without(n)).roles = without(n)
      BY <2>6, <2>8
    <3> HIDE DEF Set
    <3> QED BY <2>6, <3>1, <3>2, <3>3 DEF Stands, Fault, Logged
  <2>11. CASE \E n \in 0 .. (all - 1) : r = Fault(Set(up(n)))
    <3>1. PICK n \in 0 .. (all - 1) : r = Fault(Set(up(n)))
      BY <2>11
    <3>2. Set(up(n)) \in Database /\ Keeps(d, Set(up(n)))
      BY <2>3, <2>8
    <3> HIDE DEF Set
    <3> QED BY <3>1, <3>2 DEF Stands, Fault
  <2> QED BY <2>7, <2>9, <2>10, <2>11
<1> QED BY <1>1, <1>2

LEMMA AdminStands ==
  ASSUME NEW d \in Database, NEW kind \in AuthKinds \ {"sso"}, NEW r \in ensureDefaultAdminUser(d, kind)
  PROVE  Stands(d, r) /\ (r.end \in {"ok", "logged"} => HasAdmin(kind, r.db.admin))
<1>1. ASSUME NEW value \in {"user", "admin", "unassigned"}, d.admin # "none" => value # "user"
      PROVE  SetAdmin(d, value) \in Database /\ Keeps(d, SetAdmin(d, value)) /\ SetAdmin(d, value).admin = value
  <2> DEFINE e == SetAdmin(d, value)
  <2>1. /\ e \in Database /\ e.cols = d.cols /\ e.idx = d.idx /\ e.rows = d.rows /\ e.marks = d.marks
        /\ e.roles = d.roles /\ e.admin = value /\ e.sso = d.sso
    BY DEF Database, SetAdmin, Admins
  <2> HIDE DEF e
  <2> QED BY <1>1, <2>1 DEF Keeps, Database, e
<1>2. CASE r \in {Fault(d), Refused(d)}
  <2>1. Stands(d, r)
    BY <1>2, SameStands
  <2> QED BY <1>2, <2>1 DEF Fault, Refused
<1>3. CASE r = Ok(d) /\ d.admin # "none" /\ (d.admin = "others" \/ kind = "noemail")
  <2>1. Stands(d, r)
    BY <1>3, SameStands
  <2> QED BY <1>3, <2>1 DEF Ok, HasAdmin
<1>4. CASE r = Fault(SetAdmin(d, "user")) /\ d.admin = "none"
  BY <1>1, <1>4 DEF Stands, Fault
<1>5. CASE r \in {Ok(SetAdmin(d, "admin")), Logged(SetAdmin(d, "unassigned"))}
  BY <1>1, <1>5 DEF Stands, Ok, Logged, HasAdmin
<1>6. CASE d.admin = "none" /\ kind # "full"
  BY <1>2, <1>6 DEF ensureDefaultAdminUser
<1>7. CASE ~(d.admin = "none" /\ kind # "full") /\ (d.admin = "others" \/ kind = "noemail")
  BY <1>2, <1>3, <1>7 DEF ensureDefaultAdminUser, Transaction
<1>8. CASE ~(d.admin = "none" /\ kind # "full") /\ ~(d.admin = "others" \/ kind = "noemail")
  BY <1>2, <1>4, <1>5, <1>8 DEF ensureDefaultAdminUser
<1> QED BY <1>6, <1>7, <1>8

-----------------------------------------------------------------------------
(* Startup: the stages of a start.                                           *)

MigrationSteps == (Migrating \ {"seedqueue", "unlock"}) \cup {"roles", "admin"}

\* Each step is followed by one that the invariants do not ask more of than the
\* step itself establishes.
LEMMA AfterFacts ==
  ASSUME NEW step \in MigrationSteps \cup {"seedqueue", "unlock"}
  PROVE  /\ After(step) \in Stages \ {"window", "dequeue", "entry", "serve"}
         /\ step # "unlock" => (After(step) \in Migrating <=> step \in Migrating)
         /\ After(step) \in PastTables => step \in PastTables \cup {"tables"}
         /\ After(step) \in PastAssert => step \in PastAssert \cup {"assert"}
         /\ After(step) \in PastRole => step \in PastRole \cup {"role"}
         /\ After(step) \in PastRoles => step \in PastRoles \cup {"roles"}
         /\ After(step) \in PastAdmin => step \in PastAdmin \cup {"admin"}
<1>1. /\ Steps[1] = "pre" /\ Steps[2] = "tables" /\ Steps[3] = "backfill" /\ Steps[4] = "revoke" /\ Steps[5] = "amfa"
      /\ Steps[6] = "auth" /\ Steps[7] = "verified" /\ Steps[8] = "baseline" /\ Steps[9] = "username"
      /\ Steps[10] = "users" /\ Steps[11] = "assert" /\ Steps[12] = "role" /\ Steps[13] = "assignments"
      /\ Steps[14] = "realm" /\ Steps[15] = "alert" /\ Steps[16] = "lookup" /\ Steps[17] = "seedqueue"
      /\ Steps[18] = "unlock" /\ Steps[19] = "roles" /\ Steps[20] = "admin" /\ Steps[21] = "readqueue"
      /\ DOMAIN Steps = 1 .. 21
  BY DEF Steps
<1>2. PICK n \in 1 .. 20 : Steps[n] = step
  BY <1>1 DEF MigrationSteps, Migrating
<1>3. \A m \in 1 .. 21 : Steps[m] = step => m = n
  BY <1>1, <1>2
<1>4. After(step) = Steps[n + 1]
  <2>1. (CHOOSE m \in DOMAIN Steps : Steps[m] = step) = n
    BY <1>1, <1>2, <1>3
  <2>2. 1 + n = n + 1
    OBVIOUS
  <2> QED BY <2>1, <2>2 DEF After
<1> QED BY <1>1, <1>2, <1>4 DEF Stages, Migrating, PastTables, PastAssert, PastRole, PastRoles, PastAdmin

LEMMA OwnerIs == ASSUME StateInv PROVE preTenantOwner \in STRING \cup {NoTenant}
<1>1. CASE Cardinality(config) = 1
  <2>1. config # {} /\ config \subseteq STRING
    <3>1. config \subseteq Tenants /\ Tenants \subseteq STRING
      BY SchemaAssumption DEF StateInv
    <3>2. config # {}
      BY <1>1, FS_EmptySet
    <3> QED BY <3>1, <3>2
  <2> QED BY <1>1, <2>1 DEF preTenantOwner
<1>2. CASE Cardinality(config) # 1
  BY <1>2 DEF preTenantOwner
<1> QED BY <1>1, <1>2

LEMMA ResultsStand ==
  ASSUME StateInv, NEW step \in Stages, NEW r \in Results(step)
  PROVE  /\ step \in MigrationSteps /\ Stands(db, r)
         /\ step \in {"pre", "tables"} => r.db.marks = db.marks
         /\ r.end \in {"ok", "logged"} =>
              /\ step = "tables" => r.db.cols = AllCols /\ r.db.idx.alert # "none"
              /\ step = "assert" => \A i \in {"email", "subject", "username"} : r.db.idx[i] = "live"
              /\ step = "role" => r.db.idx.role = "live"
              /\ step = "roles" => \A q \in Roles : r.db.roles[q] # NoRole
              /\ step = "admin" => HasAdmin(auth, r.db.admin)
<1>0. db \in Database /\ preTenantOwner \in STRING \cup {NoTenant}
  BY OwnerIs DEF StateInv
<1>1. CASE step = "pre"
  <2>1. r \in migratePreTenantSchema(db, preTenantOwner)
    BY <1>1 DEF Results
  <2>2. Stands(db, r) /\ r.db.marks = db.marks
    BY <1>0, <2>1, PreStands
  <2> QED BY <1>1, <2>2 DEF MigrationSteps, Migrating
<1>2. CASE step = "tables"
  <2>1. r \in AutoMigrate(db)
    BY <1>2 DEF Results
  <2>2. /\ Stands(db, r) /\ r.db.marks = db.marks
        /\ r.end \in {"ok", "logged"} => r.db.cols = AllCols /\ r.db.idx.alert # "none"
    BY <1>0, <2>1, TablesStands
  <2> QED BY <1>2, <2>2 DEF MigrationSteps, Migrating
<1>3. CASE step = "assert"
  <2>1. r \in assertUserUniqueIndexesAreSafe(db)
    BY <1>3 DEF Results
  <2>2. Stands(db, r) /\ (r.end \in {"ok", "logged"} => \A i \in {"email", "subject", "username"} : r.db.idx[i] = "live")
    BY <1>0, <2>1, AssertStands
  <2> QED BY <1>3, <2>2 DEF MigrationSteps, Migrating
<1>4. CASE step = "role"
  <2>1. r \in migrateRoleNameIndex(db)
    BY <1>4 DEF Results
  <2>2. Stands(db, r) /\ (r.end \in {"ok", "logged"} => r.db.idx.role = "live")
    BY <1>0, <2>1, RoleStands
  <2> QED BY <1>4, <2>2 DEF MigrationSteps, Migrating
<1>5. CASE step = "roles"
  <2>1. r \in EnsureSystemRoles(db)
    BY <1>5 DEF Results
  <2>2. Stands(db, r) /\ (r.end \in {"ok", "logged"} => \A q \in Roles : r.db.roles[q] # NoRole)
    BY <1>0, <2>1, SystemRolesStand
  <2> QED BY <1>5, <2>2 DEF MigrationSteps
<1>6. CASE step = "admin"
  <2>1. r \in IF auth = "sso" THEN Succeeds(db) ELSE ensureDefaultAdminUser(db, auth)
    BY <1>6 DEF Results
  <2>2. CASE auth = "sso"
    <3>1. r = Ok(db)
      BY <2>1, <2>2 DEF Succeeds
    <3>2. Stands(db, r)
      BY <1>0, <3>1, SameStands
    <3> QED BY <1>6, <2>2, <3>2 DEF MigrationSteps, HasAdmin
  <2>3. CASE auth # "sso"
    <3>1. Stands(db, r) /\ (r.end \in {"ok", "logged"} => HasAdmin(auth, r.db.admin))
      BY <1>0, <2>1, <2>3, AdminStands DEF StateInv
    <3> QED BY <1>6, <3>1 DEF MigrationSteps
  <2> QED BY <2>2, <2>3
<1>7. CASE step \notin {"pre", "tables", "assert", "role", "roles", "admin"}
  <2>1. \/ step = "backfill" /\ r \in backfillEventTenantIDs(db)
        \/ step = "revoke" /\ r \in revokeCutOffUsersTokens(db)
        \/ step = "amfa" /\ r \in migrateAmfaReadPermission(db)
        \/ step = "auth" /\ r \in migrateUserAuthMethod(db)
        \/ step = "verified" /\ r \in migrateUnprovenEmailVerified(db)
        \/ step = "baseline" /\ r \in baselineSSOLastLogin(db)
        \/ step = "username" /\ r \in migrateUsernameIndex(db)
        \/ step = "users" /\ r \in migrateUserUniqueIndexes(db)
        \/ step = "assignments" /\ r \in removeDeletedRoleAssignments(db)
        \/ step = "realm" /\ r \in migrateRealmNameIndex(db)
        \/ step = "alert" /\ r \in migrateAlertIDIndex(db)
        \/ step = "lookup" /\ r \in ensureAlertLookupIndex(db)
    BY <1>7 DEF Results
  <2>2. Stands(db, r)
    <3>1. CASE step = "backfill" /\ r \in backfillEventTenantIDs(db)
      BY <1>0, <3>1, BackfillStands
    <3>2. CASE step = "revoke" /\ r \in revokeCutOffUsersTokens(db)
      BY <1>0, <3>2, RevokeStands
    <3>3. CASE step = "amfa" /\ r \in migrateAmfaReadPermission(db)
      BY <1>0, <3>3, AmfaStands
    <3>4. CASE r \in migrateUserAuthMethod(db) \cup migrateUnprovenEmailVerified(db) \cup baselineSSOLastLogin(db)
      BY <1>0, <3>4, SsoStands
    <3>5. CASE step = "username" /\ r \in migrateUsernameIndex(db)
      BY <1>0, <3>5, UsernameStands
    <3>6. CASE step = "users" /\ r \in migrateUserUniqueIndexes(db)
      BY <1>0, <3>6, UsersStands
    <3>7. CASE step = "assignments" /\ r \in removeDeletedRoleAssignments(db)
      BY <1>0, <3>7, AssignmentsStands
    <3>8. CASE r \in migrateRealmNameIndex(db) \cup migrateAlertIDIndex(db) \cup ensureAlertLookupIndex(db)
      BY <1>0, <3>8, OtherIndexesStand
    <3> QED BY <2>1, <3>1, <3>2, <3>3, <3>4, <3>5, <3>6, <3>7, <3>8
  <2>3. step \in MigrationSteps
    BY <2>1 DEF MigrationSteps, Migrating
  <2> QED BY <1>7, <2>2, <2>3
<1> QED BY <1>1, <1>2, <1>3, <1>4, <1>5, <1>6, <1>7

-----------------------------------------------------------------------------
(* Startup: what steps leave alone.                                          *)

LEMMA NoDrainFacts ==
  ASSUME StateInv
  PROVE  /\ NoDrain \in Drains /\ NoDrain.cursor <= NoDrain.entry.at
         /\ \A q \in NoDrain.todo \cup {NoDrain.entry} : EntryInv(q)
<1>1. NoTenant \notin Existing
  BY SchemaAssumption DEF Existing
<1> QED BY <1>1 DEF NoDrain, Drains, Entries, StateInv, EntryInv

LEMMA StageFacts ==
  ASSUME StageInv, NEW s \in Servers, NEW where \in Stages, Goto(s, where)
  PROVE  /\ stage' \in [Servers -> Stages] /\ stage'[s] = where
         /\ \A t \in Servers : t # s => stage'[t] = stage[t]
BY DEF StageInv, Goto

LEMMA StageKept ==
  ASSUME StageInv, NEW s \in Servers, NEW where \in Stages, Goto(s, where), lock' = lock,
         where \in Migrating <=> stage[s] \in Migrating
  PROVE  StageInv'
<1>1. /\ stage' \in [Servers -> Stages] /\ stage'[s] = where
      /\ \A t \in Servers : t # s => stage'[t] = stage[t]
  BY StageFacts
<1> QED BY <1>1 DEF StageInv

LEMMA DiesFacts ==
  ASSUME StateInv, StageInv, NEW s \in Servers, Dies(s)
  PROVE  /\ StageInv' /\ drain' \in [Servers -> Drains] /\ stage'[s] = "down"
         /\ \A t \in Servers : drain'[t] \in {drain[t], NoDrain}
         /\ \A t \in Servers : t # s => stage'[t] = stage[t] /\ drain'[t] = drain[t]
<1>1. "down" \in Stages /\ "down" \notin Migrating
  BY DEF Stages, Migrating
<1>2. /\ stage' \in [Servers -> Stages] /\ stage'[s] = "down"
      /\ \A t \in Servers : t # s => stage'[t] = stage[t]
  BY <1>1, StageFacts DEF Dies
<1>3. lock' = IF lock = s THEN NoServer ELSE lock
  BY DEF Dies, Release
<1>4. StageInv'
  BY <1>1, <1>2, <1>3, StartupAssumption DEF StageInv
<1>5. drain' = [drain EXCEPT ![s] = NoDrain] /\ NoDrain \in Drains
  BY NoDrainFacts DEF Dies
<1>6. /\ drain' \in [Servers -> Drains] /\ \A t \in Servers : drain'[t] \in {drain[t], NoDrain}
      /\ \A t \in Servers : t # s => drain'[t] = drain[t]
  BY <1>5 DEF StateInv
<1> QED BY <1>2, <1>4, <1>6

\* Steps that change nothing about tenants, telemetry and the queue.
LEMMA PurgeCalm ==
  ASSUME StartupInv, UNCHANGED <<tenants, telemetry, queue, clock, born, gone, unqueued>>,
         \A s \in Servers : /\ \A q \in drain'[s].todo \cup {drain'[s].entry} : EntryInv(q)
                            /\ drain'[s].cursor <= drain'[s].entry.at,
         \A s \in Servers : stage'[s] \in {"window", "dequeue"} => stage'[s] = stage[s] /\ drain'[s] = drain[s]
  PROVE  QueueInv' /\ RowInv' /\ DrainInv'
<1>1. Existing' = Existing
  BY DEF Existing
<1>2. QueueInv'
  BY <1>1 DEF StartupInv, QueueInv, EntryInv
<1>3. RowInv'
  BY <1>1 DEF StartupInv, RowInv, Owned
<1>4. DrainInv'
  <2> SUFFICES ASSUME NEW s \in Servers, NEW r \in telemetry, stage'[s] \in {"window", "dequeue"},
                      r.tenant = drain'[s].entry.tenant, r.time < drain'[s].entry.at,
                      stage'[s] = "window" => drain'[s].cursor <= r.time
               PROVE  r.late \/ Owned(r) \/ r.tenant \in unqueued \/ drain'[s].entry.at < gone[r.tenant]
    BY <1>1 DEF DrainInv, Owned
  <2>1. stage'[s] = stage[s] /\ drain'[s] = drain[s]
    OBVIOUS
  <2> QED BY <2>1 DEF StartupInv, DrainInv
<1> QED BY <1>2, <1>3, <1>4

LEMMA DrainCalm ==
  ASSUME StartupInv, UNCHANGED <<tenants, telemetry, queue, clock, born, gone, unqueued>>,
         \A s \in Servers : drain'[s] \in {drain[s], NoDrain},
         \A s \in Servers : stage'[s] \in {"window", "dequeue"} => stage'[s] = stage[s] /\ drain'[s] = drain[s]
  PROVE  QueueInv' /\ RowInv' /\ DrainInv'
<1>1. ASSUME NEW s \in Servers
      PROVE  /\ \A q \in drain'[s].todo \cup {drain'[s].entry} : EntryInv(q)
             /\ drain'[s].cursor <= drain'[s].entry.at
  <2>1. /\ NoDrain.cursor <= NoDrain.entry.at
        /\ \A q \in NoDrain.todo \cup {NoDrain.entry} : EntryInv(q)
    BY NoDrainFacts DEF StartupInv
  <2>2. CASE drain'[s] = NoDrain
    BY <2>1, <2>2
  <2>3. CASE drain'[s] = drain[s]
    BY <2>3 DEF StartupInv, QueueInv
  <2> QED BY <2>2, <2>3
<1> QED BY <1>1, PurgeCalm

\* Steps that change nothing of the schema, and go where as much was done.
LEMMA SchemaCalm ==
  ASSUME StartupInv, db' = db, auth' = auth,
         \A s \in Servers : \/ stage'[s] \in {stage[s], "down", "lock", "pre"} \/ stage[s] \in PastAdmin
                            \/ stage[s] \in PastRole /\ stage'[s] \in {"unlock", "roles"}
  PROVE  SchemaInv'
<1> SUFFICES ASSUME NEW s \in Servers
             PROVE  /\ stage'[s] \in PastTables => db.cols = AllCols /\ db.idx.alert # "none"
                    /\ stage'[s] \in PastAssert => \A i \in {"email", "subject", "username"} : db.idx[i] = "live"
                    /\ stage'[s] \in PastRole => db.idx.role = "live"
                    /\ stage'[s] \in PastRoles => \A r \in Roles : db.roles[r] # NoRole
                    /\ stage'[s] \in PastAdmin => HasAdmin(auth, db.admin)
  BY DEF SchemaInv
<1>1. CASE stage'[s] \in {"down", "lock", "pre"}
  BY <1>1 DEF PastTables, PastAssert, PastRole, PastRoles, PastAdmin
<1>2. CASE stage'[s] = stage[s]
  BY <1>2 DEF StartupInv, SchemaInv
<1>3. CASE stage[s] \in PastAdmin
  BY <1>3 DEF StartupInv, SchemaInv, PastTables, PastAssert, PastRole, PastRoles
<1>4. CASE stage[s] \in PastRole /\ stage'[s] \in {"unlock", "roles"}
  BY <1>4 DEF StartupInv, SchemaInv, PastTables, PastAssert, PastRole, PastRoles, PastAdmin
<1> QED BY <1>1, <1>2, <1>3, <1>4

LEMMA ChangedCalm == ASSUME StartupInv, UNCHANGED <<db, taken, claimed, auth>> PROVE ChangedInv'
BY DEF StartupInv, ChangedInv

LEMMA StateCalm ==
  ASSUME StateInv, UNCHANGED <<db, tenants, telemetry, queue, config, clock, born, gone, taken, claimed, auth>>,
         drain' \in [Servers -> Drains]
  PROVE  StateInv'
BY DEF StateInv

-----------------------------------------------------------------------------
(* Startup: its steps.                                                       *)

LEMMA StartupInitInv == StartupInit => StartupInv
<1> SUFFICES ASSUME StartupInit PROVE StartupInv
  OBVIOUS
<1> USE DEF StartupInit
<1>1. StateInv
  <2>1. db \in Database
    BY StartupAssumption
  <2>2. NoDrain \in Drains
    BY DEF NoDrain, Drains, Entries
  <2>3. config \subseteq Tenants /\ tenants \in [Tenants -> {"none", "open", "locked"}]
    OBVIOUS
  <2>4. telemetry = {} /\ IsFiniteSet(telemetry)
    BY FS_EmptySet
  <2>5. drain \in [Servers -> Drains] /\ born \in [Tenants -> Nat] /\ gone \in [Tenants -> Nat]
    BY <2>2
  <2>6. queue = {} /\ taken = {} /\ clock \in Nat \ {0}
    OBVIOUS
  <2>7. claimed \in {"no", "yes", "refused"} /\ auth \in AuthKinds
    BY StartupAssumption
  <2> HIDE DEF StartupInit
  <2> QED BY <2>1, <2>3, <2>4, <2>5, <2>6, <2>7 DEF StateInv
<1>2. StageInv /\ SchemaInv
  BY StartupAssumption DEF StageInv, SchemaInv, Stages, Migrating, PastTables, PastAssert, PastRole, PastRoles, PastAdmin
<1>3. ChangedInv
  BY StartupAssumption DEF ChangedInv, AllCols
<1>4. QueueInv
  <2>1. /\ NoDrain.cursor <= NoDrain.entry.at
        /\ \A q \in NoDrain.todo \cup {NoDrain.entry} : EntryInv(q)
    BY <1>1, NoDrainFacts
  <2>2. \A t \in Tenants : gone[t] <= clock
    OBVIOUS
  <2> QED BY <2>1, <2>2 DEF QueueInv
<1>5. RowInv /\ DrainInv
  BY DEF RowInv, DrainInv
<1> QED BY <1>1, <1>2, <1>3, <1>4, <1>5 DEF StartupInv

LEMMA StartInv == ASSUME StartupInv, NEW s \in Servers, Start(s) PROVE StartupInv'
<1>0. StateInv /\ StageInv /\ "lock" \in Stages
  BY DEF StartupInv, Stages
<1>1. stage[s] = "down" /\ Goto(s, "lock") /\ UNCHANGED <<db, lock, drain, taken, claimed, auth>>
      /\ UNCHANGED <<tenants, telemetry, queue, config, clock, born, gone, unqueued>>
  BY DEF Start, purge, apart
<1>2. StageInv'
  BY <1>0, <1>1, StageKept DEF Migrating
<1>3. stage'[s] = "lock" /\ \A t \in Servers : t # s => stage'[t] = stage[t]
  BY <1>0, <1>1, StageFacts
<1>4. StateInv'
  BY <1>0, <1>1, StateCalm DEF StateInv
<1>5. QueueInv' /\ RowInv' /\ DrainInv'
  BY <1>1, <1>3, DrainCalm
<1>6. SchemaInv' /\ ChangedInv'
  BY <1>1, <1>3, SchemaCalm, ChangedCalm
<1> QED BY <1>2, <1>4, <1>5, <1>6 DEF StartupInv

LEMMA lockSchemaInv == ASSUME StartupInv, NEW s \in Servers, lockSchema(s) PROVE StartupInv'
<1>0. StateInv /\ StageInv /\ "pre" \in Stages /\ "pre" \in Migrating
  BY DEF StartupInv, Stages, Migrating
<1>1. lock = NoServer /\ lock' = s /\ Goto(s, "pre") /\ UNCHANGED <<db, drain, taken, claimed, auth>>
      /\ UNCHANGED <<tenants, telemetry, queue, config, clock, born, gone, unqueued>>
  BY DEF lockSchema, purge, apart
<1>3. /\ stage' \in [Servers -> Stages] /\ stage'[s] = "pre"
      /\ \A t \in Servers : t # s => stage'[t] = stage[t]
  BY <1>0, <1>1, StageFacts
<1>2. StageInv'
  BY <1>0, <1>1, <1>3, StartupAssumption DEF StageInv
<1>4. StateInv'
  BY <1>0, <1>1, StateCalm DEF StateInv
<1>5. QueueInv' /\ RowInv' /\ DrainInv'
  BY <1>1, <1>3, DrainCalm
<1>6. SchemaInv' /\ ChangedInv'
  BY <1>1, <1>3, SchemaCalm, ChangedCalm
<1> QED BY <1>2, <1>4, <1>5, <1>6 DEF StartupInv

\* A server dies, at a fault or wherever it is.
LEMMA DiesInv ==
  ASSUME StartupInv, NEW s \in Servers, Dies(s), UNCHANGED <<db, taken, claimed, auth>>,
         UNCHANGED <<tenants, telemetry, queue, config, clock, born, gone, unqueued>>
  PROVE  StartupInv'
<1>1. /\ StageInv' /\ drain' \in [Servers -> Drains] /\ stage'[s] = "down"
      /\ \A t \in Servers : drain'[t] \in {drain[t], NoDrain}
      /\ \A t \in Servers : t # s => stage'[t] = stage[t] /\ drain'[t] = drain[t]
  BY DiesFacts DEF StartupInv
<1>2. StateInv'
  BY <1>1, StateCalm DEF StartupInv
<1>3. QueueInv' /\ RowInv' /\ DrainInv'
  BY <1>1, DrainCalm
<1>4. SchemaInv' /\ ChangedInv'
  BY <1>1, SchemaCalm, ChangedCalm
<1> QED BY <1>1, <1>2, <1>3, <1>4 DEF StartupInv

LEMMA CrashInv == ASSUME StartupInv, NEW s \in Servers, Crash(s) PROVE StartupInv'
BY DiesInv DEF Crash, purge, apart

\* A migration: the database keeps what is there, and the server dies or goes on.
LEMMA MigrateInv == ASSUME StartupInv, NEW s \in Servers, Migrate(s) PROVE StartupInv'
<1>0. StateInv /\ StageInv /\ SchemaInv /\ ChangedInv /\ stage[s] \in Stages
  BY DEF StartupInv, StageInv
<1>1. PICK r \in Results(stage[s]) :
        /\ db' = r.db
        /\ \/ r.end = "ok" /\ Goto(s, After(stage[s])) /\ UNCHANGED <<lock, drain>>
           \/ Dies(s)
           \/ r.end \in {"fault", "logged"} /\ ~(r.end = "fault" /\ stage[s] \in Fatal)
              /\ Goto(s, After(stage[s])) /\ UNCHANGED <<lock, drain>>
        /\ UNCHANGED <<tenants, telemetry, queue, config, clock, born, gone, unqueued, taken, claimed, auth>>
  BY DEF Migrate, purge, apart
<1>2. /\ stage[s] \in MigrationSteps /\ Stands(db, r)
      /\ stage[s] \in {"pre", "tables"} => r.db.marks = db.marks
      /\ r.end \in {"ok", "logged"} =>
           /\ stage[s] = "tables" => r.db.cols = AllCols /\ r.db.idx.alert # "none"
           /\ stage[s] = "assert" => \A i \in {"email", "subject", "username"} : r.db.idx[i] = "live"
           /\ stage[s] = "role" => r.db.idx.role = "live"
           /\ stage[s] = "roles" => \A q \in Roles : r.db.roles[q] # NoRole
           /\ stage[s] = "admin" => HasAdmin(auth, r.db.admin)
  BY <1>0, ResultsStand
<1>3. db' \in Database /\ Keeps(db, db')
  BY <1>1, <1>2 DEF Stands
\* Who is elsewhere finds what it relies on.
<1>4. ASSUME NEW step \in Stages, \E t \in Servers : stage[t] = step
      PROVE  /\ step \in PastTables => db'.cols = AllCols /\ db'.idx.alert # "none"
             /\ step \in PastAssert => \A i \in {"email", "subject", "username"} : db'.idx[i] = "live"
             /\ step \in PastRole => db'.idx.role = "live"
             /\ step \in PastRoles => \A q \in Roles : db'.roles[q] # NoRole
             /\ step \in PastAdmin => HasAdmin(auth, db'.admin)
  BY <1>0, <1>3, <1>4 DEF SchemaInv, Keeps, HasAdmin
<1>5. ChangedInv'
  <2>1. db'.marks # {} => db'.cols = AllCols
    <3>1. CASE stage[s] \in {"pre", "tables"}
      BY <1>0, <1>1, <1>2, <1>3, <3>1 DEF ChangedInv, Keeps
    <3>2. CASE stage[s] \notin {"pre", "tables"}
      <4>1. stage[s] \in PastTables
        BY <1>2, <3>2 DEF MigrationSteps, Migrating, PastTables, PastAssert, PastRole, PastRoles
      <4> QED BY <1>0, <1>4, <4>1
    <3> QED BY <3>1, <3>2
  <2>2. taken # {} => "amfa" \in db'.marks /\ db'.roles = db.roles
    BY <1>0, <1>3 DEF ChangedInv, Keeps
  <2>3. claimed = "yes" => db'.sso.verified /\ db'.sso.login = "after"
    BY <1>0, <1>3 DEF ChangedInv, Keeps
  <2>4. /\ taken # {} => \A q \in Roles : db'.roles[q] # NoRole
        /\ \A q \in taken : "amfa:read" \notin db'.roles[q]
    BY <1>0, <2>2 DEF ChangedInv
  <2> QED BY <1>1, <2>1, <2>2, <2>3, <2>4 DEF ChangedInv
<1>6. CASE Dies(s)
  <2>1. /\ StageInv' /\ drain' \in [Servers -> Drains] /\ stage'[s] = "down"
        /\ \A t \in Servers : drain'[t] \in {drain[t], NoDrain}
        /\ \A t \in Servers : t # s => stage'[t] = stage[t] /\ drain'[t] = drain[t]
    BY <1>0, <1>6, DiesFacts
  <2>2. StateInv'
    BY <1>0, <1>1, <1>3, <2>1 DEF StateInv
  <2>3. QueueInv' /\ RowInv' /\ DrainInv'
    BY <1>1, <2>1, DrainCalm
  <2>4. SchemaInv'
    <3>1. ASSUME NEW t \in Servers, t # s
          PROVE  stage'[t] = stage[t] /\ stage[t] \in Stages
      BY <1>0, <2>1, <3>1 DEF StageInv
    <3> QED BY <1>1, <1>4, <2>1, <3>1 DEF SchemaInv, PastTables, PastAssert, PastRole, PastRoles, PastAdmin
  <2> QED BY <1>5, <2>1, <2>2, <2>3, <2>4 DEF StartupInv
<1>7. CASE /\ r.end = "ok" \/ (r.end \in {"fault", "logged"} /\ ~(r.end = "fault" /\ stage[s] \in Fatal))
           /\ Goto(s, After(stage[s])) /\ UNCHANGED <<lock, drain>>
  <2> DEFINE next == After(stage[s])
  <2>1. /\ next \in Stages \ {"window", "dequeue"} /\ (next \in Migrating <=> stage[s] \in Migrating)
        /\ next \in PastTables => stage[s] \in PastTables \cup {"tables"}
        /\ next \in PastAssert => stage[s] \in PastAssert \cup {"assert"}
        /\ next \in PastRole => stage[s] \in PastRole \cup {"role"}
        /\ next \in PastRoles => stage[s] \in PastRoles \cup {"roles"}
        /\ next \in PastAdmin => stage[s] \in PastAdmin \cup {"admin"}
    <3>1. stage[s] # "unlock"
      BY <1>2 DEF MigrationSteps, Migrating
    <3> QED BY <1>2, <3>1, AfterFacts
  <2> HIDE DEF next
  <2>2. Goto(s, next)
    BY <1>7 DEF next
  <2>3. StageInv'
    BY <1>0, <1>7, <2>1, <2>2, StageKept
  <2>4. /\ stage' \in [Servers -> Stages] /\ stage'[s] = next
        /\ \A t \in Servers : t # s => stage'[t] = stage[t]
    BY <1>0, <2>1, <2>2, StageFacts
  <2>5. StateInv'
    BY <1>0, <1>1, <1>3, <1>7 DEF StateInv
  <2>6. QueueInv' /\ RowInv' /\ DrainInv'
    BY <1>1, <1>7, <2>1, <2>4, DrainCalm
  <2>7. stage[s] \in {"tables", "assert", "role", "roles", "admin"} => r.end \in {"ok", "logged"}
    BY <1>7 DEF Fatal
  <2>8. /\ next \in PastTables => db'.cols = AllCols /\ db'.idx.alert # "none"
        /\ next \in PastAssert => \A i \in {"email", "subject", "username"} : db'.idx[i] = "live"
        /\ next \in PastRole => db'.idx.role = "live"
        /\ next \in PastRoles => \A q \in Roles : db'.roles[q] # NoRole
        /\ next \in PastAdmin => HasAdmin(auth, db'.admin)
    BY <1>0, <1>1, <1>2, <1>4, <2>1, <2>7
  <2>9. SchemaInv'
    <3>1. ASSUME NEW t \in Servers, t # s
          PROVE  stage'[t] = stage[t] /\ stage[t] \in Stages
      BY <1>0, <2>4, <3>1 DEF StageInv
    <3> QED BY <1>1, <1>4, <2>4, <2>8, <3>1 DEF SchemaInv
  <2> QED BY <1>5, <2>3, <2>5, <2>6, <2>9 DEF StartupInv
<1> QED BY <1>1, <1>6, <1>7

LEMMA UnlockInv == ASSUME StartupInv, NEW s \in Servers, Unlock(s) PROVE StartupInv'
<1>0. StateInv /\ StageInv /\ "roles" \in Stages /\ "roles" \notin Migrating /\ "unlock" \in Migrating
  BY DEF StartupInv, Stages, Migrating
<1>1. stage[s] = "unlock" /\ Release(s) /\ Goto(s, "roles") /\ UNCHANGED <<db, drain, taken, claimed, auth>>
      /\ UNCHANGED <<tenants, telemetry, queue, config, clock, born, gone, unqueued>>
  BY DEF Unlock, purge, apart
<1>2. /\ stage' \in [Servers -> Stages] /\ stage'[s] = "roles"
      /\ \A t \in Servers : t # s => stage'[t] = stage[t]
  BY <1>0, <1>1, StageFacts
<1>3. StageInv'
  BY <1>0, <1>1, <1>2, StartupAssumption DEF StageInv, Release
<1>4. StateInv'
  BY <1>0, <1>1, StateCalm DEF StateInv
<1>5. QueueInv' /\ RowInv' /\ DrainInv'
  BY <1>1, <1>2, DrainCalm
<1>6. SchemaInv' /\ ChangedInv'
  <2>1. stage[s] \in PastRole
    BY <1>1 DEF PastRole
  <2> QED BY <1>1, <1>2, <2>1, SchemaCalm, ChangedCalm
<1> QED BY <1>3, <1>4, <1>5, <1>6 DEF StartupInv

LEMMA SeedQueueInv == ASSUME StartupInv, NEW s \in Servers, migrateSeedTenantPurgeQueue(s) PROVE StartupInv'
<1>0. StateInv /\ StageInv /\ "unlock" \in Stages /\ {"seedqueue", "unlock"} \subseteq Migrating
  BY DEF StartupInv, Stages, Migrating
<1>1. /\ stage[s] = "seedqueue" /\ Goto(s, "unlock")
      /\ UNCHANGED <<db, tenants, telemetry, config, clock, born, gone, unqueued, lock, drain, taken, claimed, auth>>
  BY DEF migrateSeedTenantPurgeQueue, apart
<1> DEFINE added == {[tenant |-> t, at |-> clock] : t \in Orphans \ {q.tenant : q \in queue}}
<1>2. queue' \in {queue, queue \cup added}
  BY DEF migrateSeedTenantPurgeQueue
<1>3. /\ stage' \in [Servers -> Stages] /\ stage'[s] = "unlock"
      /\ \A t \in Servers : t # s => stage'[t] = stage[t]
  BY <1>0, <1>1, StageFacts
<1>4. StageInv'
  BY <1>0, <1>1, StageKept
<1>5. ASSUME NEW q \in added
      PROVE  /\ q \in Entries /\ q.at = clock /\ q.tenant \notin Existing
             /\ \A p \in queue : p.tenant # q.tenant
             /\ \A p \in added : p.tenant = q.tenant => p = q
  <2>1. Orphans \subseteq STRING \cup {NoTenant}
    <3>1. \A r \in telemetry : r.tenant \in STRING
      BY <1>0, SchemaAssumption DEF StateInv
    <3>2. \A t \in DOMAIN db.rows : \A r \in db.rows[t] : r.tenant \in STRING
      BY <1>0 DEF StateInv, Database
    <3> QED BY <3>1, <3>2 DEF Orphans
  <2>2. Orphans \cap Existing = {}
    BY DEF Orphans
  <2> QED BY <1>0, <2>1, <2>2 DEF Entries, StateInv
<1>6. StateInv'
  <2> HIDE DEF added
  <2>1. queue' \subseteq Entries
    BY <1>0, <1>2, <1>5 DEF StateInv
  <2> QED BY <1>0, <1>1, <2>1 DEF StateInv
<1>7. SchemaInv' /\ ChangedInv'
  <2>1. stage[s] \in PastRole
    BY <1>1 DEF PastRole
  <2> QED BY <1>1, <1>3, <2>1, SchemaCalm, ChangedCalm
<1>8. Existing' = Existing
  BY <1>1 DEF Existing
<1>9. QueueInv'
  <2> HIDE DEF added
  <2>1. \A q \in queue' : EntryInv(q) /\ (q.tenant \in Tenants => gone[q.tenant] <= q.at)
    <3> SUFFICES ASSUME NEW q \in queue' PROVE EntryInv(q) /\ (q.tenant \in Tenants => gone[q.tenant] <= q.at)
      OBVIOUS
    <3>1. CASE q \in queue
      BY <3>1 DEF StartupInv, QueueInv
    <3>2. CASE q \in added
      BY <1>0, <1>5, <3>2 DEF EntryInv, StartupInv, QueueInv, StateInv
    <3> QED BY <1>2, <3>1, <3>2
  <2>2. \A q, p \in queue' : q.tenant = p.tenant => q = p
    <3>1. \A q, p \in queue : q.tenant = p.tenant => q = p
      BY DEF StartupInv, QueueInv
    <3> QED BY <1>2, <1>5, <3>1
  <2> QED BY <1>1, <1>8, <2>1, <2>2 DEF StartupInv, QueueInv, EntryInv
<1>10. RowInv'
  <2>1. queue \subseteq queue'
    BY <1>2
  <2> QED BY <1>1, <1>8, <2>1 DEF StartupInv, RowInv, Owned
<1>11. DrainInv'
  BY <1>1, <1>3, <1>8 DEF StartupInv, DrainInv, Owned
<1> QED BY <1>4, <1>6, <1>7, <1>9, <1>10, <1>11 DEF StartupInv

\* Steps after the migrations, which need no lock.
LEMMA LaterFacts ==
  ASSUME StartupInv, NEW s \in Servers, NEW where \in PastAdmin, stage[s] \in PastAdmin,
         Goto(s, where), UNCHANGED <<db, lock, taken, claimed, auth>>
  PROVE  /\ StageInv' /\ SchemaInv' /\ ChangedInv' /\ stage'[s] = where
         /\ \A t \in Servers : t # s => stage'[t] = stage[t]
<1>1. where \in Stages /\ where \notin Migrating /\ stage[s] \notin Migrating
  BY DEF PastAdmin, PastRoles, Stages, Migrating
<1>2. stage'[s] = where /\ \A t \in Servers : t # s => stage'[t] = stage[t]
  BY <1>1, StageFacts DEF StartupInv
<1>3. StageInv'
  BY <1>1, StageKept DEF StartupInv
<1>4. SchemaInv' /\ ChangedInv'
  BY <1>2, SchemaCalm, ChangedCalm
<1> QED BY <1>2, <1>3, <1>4

LEMMA ReadQueueInv == ASSUME StartupInv, NEW s \in Servers, ReadQueue(s) PROVE StartupInv'
<1>0. StateInv
  BY DEF StartupInv
<1>1. PICK where \in {"sync", "entry"} :
        /\ stage[s] = "readqueue" /\ Goto(s, where) /\ UNCHANGED <<db, lock, taken, claimed, auth>>
        /\ UNCHANGED <<tenants, telemetry, queue, config, clock, born, gone, unqueued>>
        /\ drain' \in {drain, [drain EXCEPT ![s] = [NoDrain EXCEPT !.todo = queue]]}
  BY DEF ReadQueue, purge, apart
<1>2. /\ StageInv' /\ SchemaInv' /\ ChangedInv' /\ stage'[s] = where
      /\ \A t \in Servers : t # s => stage'[t] = stage[t]
  BY <1>1, LaterFacts DEF PastAdmin
<1> DEFINE read == [NoDrain EXCEPT !.todo = queue]
<1>3. /\ read \in Drains /\ read.cursor <= read.entry.at
      /\ \A q \in read.todo \cup {read.entry} : EntryInv(q)
  <2>1. /\ NoDrain \in Drains /\ NoDrain.cursor <= NoDrain.entry.at /\ EntryInv(NoDrain.entry)
    BY <1>0, NoDrainFacts
  <2>2. read.todo = queue /\ read.entry = NoDrain.entry /\ read.cursor = NoDrain.cursor /\ read \in Drains
    BY <1>0, <2>1 DEF Drains, StateInv
  <2>3. \A q \in queue : EntryInv(q)
    BY DEF StartupInv, QueueInv
  <2> HIDE DEF read
  <2> QED BY <2>1, <2>2, <2>3
<1> HIDE DEF read
<1>4. drain' \in [Servers -> Drains] /\ \A t \in Servers : drain'[t] \in {drain[t], read}
                                     /\ (t # s => drain'[t] = drain[t])
  BY <1>0, <1>1, <1>3 DEF StateInv, read
<1>5. StateInv'
  BY <1>0, <1>1, <1>4, StateCalm
<1>6. QueueInv' /\ RowInv' /\ DrainInv'
  <2>1. \A t \in Servers : /\ \A q \in drain'[t].todo \cup {drain'[t].entry} : EntryInv(q)
                           /\ drain'[t].cursor <= drain'[t].entry.at
    <3> SUFFICES ASSUME NEW t \in Servers
                 PROVE  /\ \A q \in drain'[t].todo \cup {drain'[t].entry} : EntryInv(q)
                        /\ drain'[t].cursor <= drain'[t].entry.at
      OBVIOUS
    <3>1. CASE drain'[t] = read
      BY <1>3, <3>1
    <3>2. CASE drain'[t] = drain[t]
      BY <3>2 DEF StartupInv, QueueInv
    <3> QED BY <1>4, <3>1, <3>2
  <2>2. \A t \in Servers : stage'[t] \in {"window", "dequeue"} => stage'[t] = stage[t] /\ drain'[t] = drain[t]
    BY <1>1, <1>2, <1>4
  <2> QED BY <1>1, <2>1, <2>2, PurgeCalm
<1> QED BY <1>2, <1>5, <1>6 DEF StartupInv

\* A drain begins an entry: nothing is behind its cursor yet.
LEMMA NextEntryInv == ASSUME StartupInv, NEW s \in Servers, NextEntry(s) PROVE StartupInv'
<1>0. StateInv /\ stage[s] = "entry" /\ UNCHANGED <<db, lock, taken, claimed, auth>>
      /\ UNCHANGED <<tenants, telemetry, queue, config, clock, born, gone, unqueued>>
  BY DEF NextEntry, StartupInv, purge, apart
<1>1. CASE Goto(s, "sync") /\ drain' = [drain EXCEPT ![s] = NoDrain]
  <2>1. /\ StageInv' /\ SchemaInv' /\ ChangedInv' /\ stage'[s] = "sync"
        /\ \A t \in Servers : t # s => stage'[t] = stage[t]
    BY <1>0, <1>1, LaterFacts DEF PastAdmin
  <2>2. /\ drain' \in [Servers -> Drains] /\ \A t \in Servers : drain'[t] \in {drain[t], NoDrain}
        /\ \A t \in Servers : t # s => drain'[t] = drain[t]
    BY <1>0, <1>1, NoDrainFacts DEF StateInv
  <2>3. StateInv'
    BY <1>0, <2>2, StateCalm
  <2>4. QueueInv' /\ RowInv' /\ DrainInv'
    BY <1>0, <2>1, <2>2, DrainCalm
  <2> QED BY <2>1, <2>3, <2>4 DEF StartupInv
<1>2. ASSUME NEW q \in drain[s].todo, Goto(s, "window"),
             drain' = [drain EXCEPT ![s] = [todo |-> @.todo \ {q}, entry |-> q, cursor |-> q.at, deleted |-> 0]]
      PROVE  StartupInv'
  <2>1. /\ StageInv' /\ SchemaInv' /\ ChangedInv' /\ stage'[s] = "window"
        /\ \A t \in Servers : t # s => stage'[t] = stage[t]
    BY <1>0, <1>2, LaterFacts DEF PastAdmin
  <2> DEFINE begun == [todo |-> drain[s].todo \ {q}, entry |-> q, cursor |-> q.at, deleted |-> 0]
  <2>2. drain[s] \in Drains /\ q \in Entries /\ begun \in Drains
    BY <1>0 DEF StateInv, Drains, Entries
  <2>3. /\ drain' \in [Servers -> Drains] /\ drain'[s] = begun
        /\ \A t \in Servers : t # s => drain'[t] = drain[t]
    BY <1>0, <1>2, <2>2 DEF StateInv
  <2>4. StateInv'
    BY <1>0, <2>3, StateCalm
  <2>5. Existing' = Existing
    BY <1>0 DEF Existing
  <2>6. QueueInv'
    <3>1. ASSUME NEW t \in Servers
          PROVE  /\ \A p \in drain'[t].todo \cup {drain'[t].entry} : EntryInv(p)
                 /\ drain'[t].cursor <= drain'[t].entry.at
      <4>1. CASE t = s
        <5>1. \A p \in drain[s].todo : EntryInv(p)
          BY DEF StartupInv, QueueInv
        <5>2. begun.todo \subseteq drain[s].todo /\ begun.entry = q /\ begun.cursor = q.at /\ q.at <= q.at
          BY <2>2 DEF Entries
        <5> QED BY <2>3, <4>1, <5>1, <5>2
      <4>2. CASE t # s
        BY <2>3, <4>2 DEF StartupInv, QueueInv
      <4> QED BY <4>1, <4>2
    <3> QED BY <1>0, <2>5, <3>1 DEF StartupInv, QueueInv, EntryInv
  <2>7. RowInv'
    BY <1>0, <2>5 DEF StartupInv, RowInv, Owned
  <2>8. DrainInv'
    <3> SUFFICES ASSUME NEW t \in Servers, NEW r \in telemetry, stage'[t] \in {"window", "dequeue"},
                        r.tenant = drain'[t].entry.tenant, r.time < drain'[t].entry.at,
                        stage'[t] = "window" => drain'[t].cursor <= r.time
                 PROVE  r.late \/ Owned(r) \/ r.tenant \in unqueued \/ drain'[t].entry.at < gone[r.tenant]
      BY <1>0, <2>5 DEF DrainInv, Owned
    <3>1. CASE t = s
      <4>1. r.time \in Nat /\ q.at \in Nat
        BY <1>0, <2>2 DEF StateInv, Entries
      <4> QED BY <2>1, <2>3, <3>1, <4>1
    <3>2. CASE t # s
      BY <2>1, <2>3, <3>2 DEF StartupInv, DrainInv
    <3> QED BY <3>1, <3>2
  <2> QED BY <2>1, <2>4, <2>6, <2>7, <2>8 DEF StartupInv
<1> QED BY <1>1, <1>2 DEF NextEntry

\* The newest of the rows that a drain has still to delete.
LEMMA NewestBelow ==
  ASSUME StateInv, RowInv, NEW s \in Servers, Below(s) # {}
  PROVE  \E m \in {r.time : r \in Below(s)} : \A r \in Below(s) : r.time <= m
<1> DEFINE times == {r.time : r \in Below(s)}
<1>1. times \subseteq Nat /\ times # {} /\ clock \in Nat
  BY DEF StateInv, Below
<1>2. \A t \in times : t <= clock
  BY DEF RowInv, Below
<1> HIDE DEF times
<1>3. \E m \in times : \A t \in times : t <= m
  BY <1>1, <1>2, GreatestElement
<1> QED BY <1>3 DEF times

LEMMA drainTelemetryTableInv == ASSUME StartupInv, NEW s \in Servers, drainTelemetryTable(s) PROVE StartupInv'
<1>0. /\ StateInv /\ RowInv /\ stage[s] = "window" /\ UNCHANGED <<db, lock, taken, claimed, auth>>
      /\ UNCHANGED <<tenants, queue, config, clock, born, gone, unqueued>>
  BY DEF drainTelemetryTable, StartupInv, apart
<1>1. Existing' = Existing
  BY <1>0 DEF Existing
<1>2. CASE Below(s) = {} /\ Goto(s, "dequeue") /\ UNCHANGED <<telemetry, drain>>
  <2>1. /\ StageInv' /\ SchemaInv' /\ ChangedInv' /\ stage'[s] = "dequeue"
        /\ \A t \in Servers : t # s => stage'[t] = stage[t]
    BY <1>0, <1>2, LaterFacts DEF PastAdmin
  <2>2. StateInv'
    BY <1>0, <1>2, StateCalm DEF StateInv
  <2>3. QueueInv'
    BY <1>0, <1>1, <1>2 DEF StartupInv, QueueInv, EntryInv
  <2>4. RowInv'
    BY <1>0, <1>1, <1>2 DEF RowInv, Owned
  <2>5. DrainInv'
    <3> SUFFICES ASSUME NEW t \in Servers, NEW r \in telemetry, stage'[t] \in {"window", "dequeue"},
                        r.tenant = drain[t].entry.tenant, r.time < drain[t].entry.at,
                        stage'[t] = "window" => drain[t].cursor <= r.time
                 PROVE  r.late \/ Owned(r) \/ r.tenant \in unqueued \/ drain[t].entry.at < gone[r.tenant]
      BY <1>0, <1>1, <1>2 DEF DrainInv, Owned
    <3>1. CASE t = s
      <4>1. r.time \in Nat /\ drain[s].cursor \in Nat
        BY <1>0 DEF StateInv, Drains
      <4>2. drain[s].cursor <= r.time
        BY <1>2, <3>1, <4>1 DEF Below
      <4> QED BY <1>0, <3>1, <4>2 DEF StartupInv, DrainInv
    <3>2. CASE t # s
      BY <2>1, <3>2 DEF StartupInv, DrainInv
    <3> QED BY <3>1, <3>2
  <2> QED BY <2>1, <2>2, <2>3, <2>4, <2>5 DEF StartupInv
<1>3. CASE Goto(s, "entry") /\ UNCHANGED <<telemetry, drain>>
  <2>1. /\ StageInv' /\ SchemaInv' /\ ChangedInv' /\ stage'[s] = "entry"
        /\ \A t \in Servers : t # s => stage'[t] = stage[t]
    BY <1>0, <1>3, LaterFacts DEF PastAdmin
  <2>2. StateInv'
    BY <1>0, <1>3, StateCalm DEF StateInv
  <2>3. QueueInv' /\ RowInv' /\ DrainInv'
    BY <1>0, <1>3, <2>1, DrainCalm
  <2> QED BY <2>1, <2>2, <2>3 DEF StartupInv
<1>4. ASSUME Below(s) # {}, NEW newest, NEW window, NEW deleted, NEW where \in {"entry", "window"}, Goto(s, where),
             newest = CHOOSE t \in {r.time : r \in Below(s)} : \A r \in Below(s) : r.time <= t,
             window = {r \in Below(s) : r.time = newest},
             deleted = drain[s].deleted + Cardinality(window), telemetry' = telemetry \ window,
             drain' = [drain EXCEPT ![s] = [@ EXCEPT !.cursor = newest, !.deleted = deleted]]
      PROVE  StartupInv'
  <2>1. /\ StageInv' /\ SchemaInv' /\ ChangedInv' /\ stage'[s] = where
        /\ \A t \in Servers : t # s => stage'[t] = stage[t]
    BY <1>0, <1>4, LaterFacts DEF PastAdmin
  <2>2. newest \in {r.time : r \in Below(s)} /\ \A r \in Below(s) : r.time <= newest
    BY <1>0, <1>4, NewestBelow
  <2>3. drain[s] \in Drains /\ drain[s].cursor \in Nat /\ drain[s].deleted \in Nat /\ drain[s].entry.at \in Nat
    BY <1>0 DEF StateInv, Drains, Entries
  <2>4. newest \in Nat /\ newest < drain[s].cursor
    BY <1>0, <2>2 DEF Below, StateInv
  <2>5. IsFiniteSet(telemetry') /\ telemetry' \subseteq telemetry /\ deleted \in Nat
    <3>1. window \subseteq telemetry /\ IsFiniteSet(telemetry)
      BY <1>0, <1>4 DEF Below, StateInv
    <3>2. IsFiniteSet(window) /\ IsFiniteSet(telemetry \ window)
      BY <3>1, FS_Subset
    <3>3. Cardinality(window) \in Nat
      BY <3>2, FS_CardinalityType
    <3> QED BY <1>4, <2>3, <3>2, <3>3
  <2> DEFINE left == [drain[s] EXCEPT !.cursor = newest, !.deleted = deleted]
  <2>6. /\ left \in Drains /\ left.entry = drain[s].entry /\ left.todo = drain[s].todo /\ left.cursor = newest
    BY <2>3, <2>4, <2>5 DEF Drains
  <2>7. /\ drain' \in [Servers -> Drains] /\ drain'[s] = left
        /\ \A t \in Servers : t # s => drain'[t] = drain[t]
    <3>1. drain \in [Servers -> Drains]
      BY <1>0 DEF StateInv
    <3>2. drain' = [drain EXCEPT ![s] = left]
      BY <1>4, <3>1 DEF left
    <3> HIDE DEF left
    <3> QED BY <2>6, <3>1, <3>2
  <2> HIDE DEF left
  <2>8. StateInv'
    BY <1>0, <2>5, <2>7 DEF StateInv
  <2>9. QueueInv'
    <3>1. ASSUME NEW t \in Servers
          PROVE  /\ \A q \in drain'[t].todo \cup {drain'[t].entry} : EntryInv(q)
                 /\ drain'[t].cursor <= drain'[t].entry.at
      <4>1. CASE t = s
        <5>1. drain[s].cursor <= drain[s].entry.at /\ \A q \in drain[s].todo \cup {drain[s].entry} : EntryInv(q)
          BY DEF StartupInv, QueueInv
        <5> QED BY <2>3, <2>4, <2>6, <2>7, <4>1, <5>1
      <4>2. CASE t # s
        BY <2>7, <4>2 DEF StartupInv, QueueInv
      <4> QED BY <4>1, <4>2
    <3> QED BY <1>0, <1>1, <3>1 DEF StartupInv, QueueInv, EntryInv
  <2>10. RowInv'
    BY <1>0, <1>1, <2>5 DEF RowInv, Owned
  <2>11. DrainInv'
    <3> SUFFICES ASSUME NEW t \in Servers, NEW r \in telemetry', stage'[t] \in {"window", "dequeue"},
                        r.tenant = drain'[t].entry.tenant, r.time < drain'[t].entry.at,
                        stage'[t] = "window" => drain'[t].cursor <= r.time
                 PROVE  r.late \/ Owned(r) \/ r.tenant \in unqueued \/ drain'[t].entry.at < gone[r.tenant]
      BY <1>0, <1>1 DEF DrainInv, Owned
    <3>0. r \in telemetry /\ r.time \in Nat
      BY <1>0, <2>5 DEF StateInv
    <3>1. CASE t = s
      <4>1. newest <= r.time
        BY <1>4, <2>1, <2>6, <2>7, <3>1
      <4>2. drain[s].cursor <= r.time
        <5> SUFFICES ASSUME r.time < drain[s].cursor PROVE FALSE
          BY <2>3, <3>0
        <5>1. r \in Below(s)
          BY <2>6, <2>7, <3>0, <3>1 DEF Below
        <5>2. r.time = newest
          BY <2>2, <2>4, <3>0, <4>1, <5>1
        <5> QED BY <1>4, <5>1, <5>2
      <4> QED BY <1>0, <2>6, <2>7, <3>0, <3>1, <4>2 DEF StartupInv, DrainInv
    <3>2. CASE t # s
      BY <2>1, <2>7, <3>0, <3>2 DEF StartupInv, DrainInv
    <3> QED BY <3>1, <3>2
  <2> QED BY <2>1, <2>8, <2>9, <2>10, <2>11 DEF StartupInv
<1> QED
  <2>1. CASE Below(s) # {} /\ ~(Goto(s, "entry") /\ UNCHANGED <<telemetry, drain>>)
    <3> DEFINE newest == CHOOSE t \in {r.time : r \in Below(s)} : \A r \in Below(s) : r.time <= t
               window == {r \in Below(s) : r.time = newest}
               deleted == drain[s].deleted + Cardinality(window)
    <3>1. /\ telemetry' = telemetry \ window /\ Goto(s, AfterWindow(deleted))
          /\ drain' = [drain EXCEPT ![s] = [@ EXCEPT !.cursor = newest, !.deleted = deleted]]
      BY <2>1 DEF drainTelemetryTable
    <3>2. AfterWindow(deleted) \in {"entry", "window"}
      BY DEF AfterWindow
    <3>3. /\ newest = CHOOSE t \in {r.time : r \in Below(s)} : \A r \in Below(s) : r.time <= t
          /\ window = {r \in Below(s) : r.time = newest}
          /\ deleted = drain[s].deleted + Cardinality(window)
      OBVIOUS
    <3> HIDE DEF newest, window, deleted
    <3> QED BY <1>4, <2>1, <3>1, <3>2, <3>3
  <2> QED BY <1>2, <1>3, <2>1 DEF drainTelemetryTable

\* An entry that is removed is done, or another's, or its tenant's later one went.
LEMMA DequeueInv == ASSUME StartupInv, NEW s \in Servers, Dequeue(s) PROVE StartupInv'
<1>0. /\ StateInv /\ RowInv /\ stage[s] = "dequeue" /\ Goto(s, "entry") /\ UNCHANGED <<db, lock, taken, claimed, auth>>
      /\ UNCHANGED <<tenants, telemetry, config, clock, born, gone, drain>>
  BY DEF Dequeue, StartupInv, apart
<1>1. Existing' = Existing
  BY <1>0 DEF Existing
<1> DEFINE entry == drain[s].entry
           removed == {q \in queue : q.tenant = entry.tenant}
<1>2. \/ queue' = queue /\ unqueued' = unqueued
      \/ queue' = queue \ removed /\ unqueued' = IF removed \subseteq {entry} THEN unqueued ELSE unqueued \cup {entry.tenant}
  BY DEF Dequeue
<1>3. queue' \subseteq queue /\ unqueued \subseteq unqueued'
  BY <1>2
<1>4. /\ StageInv' /\ SchemaInv' /\ ChangedInv' /\ stage'[s] = "entry"
      /\ \A t \in Servers : t # s => stage'[t] = stage[t]
  BY <1>0, LaterFacts DEF PastAdmin
<1>5. StateInv'
  BY <1>0, <1>3 DEF StateInv
<1>6. QueueInv'
  BY <1>0, <1>1, <1>3 DEF StartupInv, QueueInv, EntryInv
<1>7. RowInv'
  <2> SUFFICES ASSUME NEW r \in telemetry
               PROVE  /\ r.time <= clock
                      /\ r.late \/ Owned(r) \/ r.tenant \in unqueued' \/ \E q \in queue' : q.tenant = r.tenant /\ r.time < q.at
    BY <1>0, <1>1 DEF RowInv, Owned
  <2>1. r.time <= clock
    BY <1>0 DEF RowInv
  <2>2. CASE r.late \/ Owned(r) \/ r.tenant \in unqueued
    BY <1>3, <2>1, <2>2
  <2>3. ASSUME NEW q \in queue, q.tenant = r.tenant, r.time < q.at
        PROVE  r.late \/ Owned(r) \/ r.tenant \in unqueued' \/ \E p \in queue' : p.tenant = r.tenant /\ r.time < p.at
    <3>1. CASE q \in queue'
      BY <2>3, <3>1
    <3>2. CASE q \notin queue'
      <4>1. q \in removed /\ unqueued' = IF removed \subseteq {entry} THEN unqueued ELSE unqueued \cup {entry.tenant}
        BY <1>2, <2>3, <3>2
      <4>2. CASE ~(removed \subseteq {entry})
        BY <2>3, <4>1, <4>2
      <4>3. CASE removed \subseteq {entry}
        <5>1. q = entry
          BY <4>1, <4>3
        <5>2. r.late \/ Owned(r) \/ r.tenant \in unqueued \/ entry.at < gone[r.tenant]
          BY <1>0, <2>3, <5>1 DEF StartupInv, DrainInv
        <5>3. r.tenant \in Tenants /\ gone[r.tenant] \in Nat /\ q.at \in Nat
          BY <1>0, <2>3 DEF StateInv, Entries
        <5>4. gone[r.tenant] <= q.at
          BY <2>3, <5>3 DEF StartupInv, QueueInv
        <5> QED BY <1>3, <5>1, <5>2, <5>3, <5>4
      <4> QED BY <4>2, <4>3
    <3> QED BY <3>1, <3>2
  <2> QED BY <1>0, <2>1, <2>2, <2>3 DEF RowInv
<1>8. DrainInv'
  <2> SUFFICES ASSUME NEW t \in Servers, NEW r \in telemetry, stage'[t] \in {"window", "dequeue"},
                      r.tenant = drain[t].entry.tenant, r.time < drain[t].entry.at,
                      stage'[t] = "window" => drain[t].cursor <= r.time
               PROVE  r.late \/ Owned(r) \/ r.tenant \in unqueued' \/ drain[t].entry.at < gone[r.tenant]
    BY <1>0, <1>1 DEF DrainInv, Owned
  <2>1. t # s
    BY <1>4
  <2> QED BY <1>3, <1>4, <2>1 DEF StartupInv, DrainInv
<1> QED BY <1>4, <1>5, <1>6, <1>7, <1>8 DEF StartupInv

-----------------------------------------------------------------------------
(* Startup: tenants and telemetry that come and go.                          *)

\* Tenants are created now, and those that exist stay as they are.
LEMMA TenantsGrow ==
  ASSUME StartupInv, UNCHANGED <<telemetry, queue, clock, gone, unqueued, drain>>,
         \A t \in Existing : t \in Existing' /\ born'[t] = born[t],
         \A t \in Existing' \ Existing : born'[t] = clock,
         \A s \in Servers : stage'[s] \in {"window", "dequeue"} => stage'[s] = stage[s]
  PROVE  QueueInv' /\ RowInv' /\ DrainInv'
<1>0. StateInv /\ clock \in Nat
  BY DEF StartupInv, StateInv
<1>1. ASSUME NEW q, EntryInv(q)
      PROVE  q.at <= clock /\ (q.tenant \in Existing' => q.at <= born'[q.tenant])
  <2>1. CASE q.tenant \in Existing
    BY <1>1, <2>1 DEF EntryInv
  <2>2. CASE q.tenant \notin Existing
    BY <1>1, <2>2 DEF EntryInv
  <2> QED BY <2>1, <2>2
<1>2. QueueInv'
  <2>1. \A q \in queue : q.at <= clock /\ (q.tenant \in Existing' => q.at <= born'[q.tenant])
    BY <1>1 DEF StartupInv, QueueInv
  <2>2. \A s \in Servers : \A q \in drain[s].todo \cup {drain[s].entry} :
          q.at <= clock /\ (q.tenant \in Existing' => q.at <= born'[q.tenant])
    BY <1>1 DEF StartupInv, QueueInv
  <2> QED BY <2>1, <2>2 DEF StartupInv, QueueInv, EntryInv
<1>3. \A r \in telemetry : Owned(r) => r.tenant \in Existing' /\ r.born = born'[r.tenant]
  BY DEF Owned
<1>4. RowInv'
  BY <1>3 DEF StartupInv, RowInv, Owned
<1>5. DrainInv'
  <2> SUFFICES ASSUME NEW s \in Servers, NEW r \in telemetry, stage'[s] \in {"window", "dequeue"},
                      r.tenant = drain[s].entry.tenant, r.time < drain[s].entry.at,
                      stage'[s] = "window" => drain[s].cursor <= r.time
               PROVE  \/ r.late \/ (r.tenant \in Existing' /\ r.born = born'[r.tenant])
                      \/ r.tenant \in unqueued \/ drain[s].entry.at < gone[r.tenant]
    BY DEF DrainInv, Owned
  <2>1. r.late \/ Owned(r) \/ r.tenant \in unqueued \/ drain[s].entry.at < gone[r.tenant]
    BY DEF StartupInv, DrainInv
  <2> QED BY <1>3, <2>1
<1> QED BY <1>2, <1>4, <1>5

LEMMA syncTenantsFromConfigInv == ASSUME StartupInv, NEW s \in Servers, syncTenantsFromConfig(s) PROVE StartupInv'
<1>0. /\ StateInv /\ stage[s] = "sync" /\ Goto(s, "serve") /\ UNCHANGED <<db, lock, taken, claimed, auth>>
      /\ UNCHANGED <<telemetry, queue, config, clock, gone, unqueued, drain>>
  BY DEF syncTenantsFromConfig, StartupInv, apart
<1>1. PICK saved \in SUBSET Tenants :
        /\ tenants' = [t \in Tenants |-> IF t \in saved THEN Synced(t) ELSE tenants[t]]
        /\ born' = [t \in Tenants |-> IF t \in saved \ Existing THEN clock ELSE born[t]]
  BY DEF syncTenantsFromConfig
<1>2. /\ StageInv' /\ SchemaInv' /\ ChangedInv' /\ stage'[s] = "serve"
      /\ \A t \in Servers : t # s => stage'[t] = stage[t]
  BY <1>0, LaterFacts DEF PastAdmin
<1>3. ASSUME NEW t \in Tenants
      PROVE  /\ Synced(t) \in {"none", "open", "locked"}
             /\ tenants[t] # "none" => Synced(t) # "none"
  BY <1>0 DEF Synced, StateInv
<1>4. tenants' \in [Tenants -> {"none", "open", "locked"}] /\ born' \in [Tenants -> Nat]
  <2>1. tenants \in [Tenants -> {"none", "open", "locked"}] /\ born \in [Tenants -> Nat] /\ clock \in Nat
    BY <1>0 DEF StateInv
  <2> QED BY <1>1, <1>3, <2>1
<1>5. StateInv'
  BY <1>0, <1>4 DEF StateInv
<1>6. QueueInv' /\ RowInv' /\ DrainInv'
  <2>1. \A t \in Existing : t \in Existing' /\ born'[t] = born[t]
    BY <1>1, <1>3 DEF Existing
  <2>2. \A t \in Existing' \ Existing : born'[t] = clock
    BY <1>1 DEF Existing
  <2> QED BY <1>0, <1>2, <2>1, <2>2, TenantsGrow
<1> QED BY <1>2, <1>5, <1>6 DEF StartupInv

\* Who is where, and what the steps rely on, as before.
LEMMA SchemaFields ==
  ASSUME StartupInv, stage' = stage, db'.cols = db.cols, db'.idx = db.idx, auth' = auth,
         HasAdmin(auth, db.admin) => HasAdmin(auth, db'.admin),
         \A r \in Roles : db.roles[r] # NoRole => db'.roles[r] # NoRole
  PROVE  SchemaInv'
BY DEF StartupInv, SchemaInv

LEMMA CreateTenantInv == ASSUME StartupInv, NEW t \in Tenants, CreateTenant(t) PROVE StartupInv'
<1>1. /\ StateInv /\ tenants[t] = "none" /\ tenants' = [tenants EXCEPT ![t] = "open"]
      /\ born' = [born EXCEPT ![t] = clock] /\ UNCHANGED <<db, lock, stage, taken, claimed, auth>>
      /\ UNCHANGED <<telemetry, queue, config, clock, gone, unqueued, drain>>
  BY DEF CreateTenant, StartupInv, apart
<1>2. tenants' \in [Tenants -> {"none", "open", "locked"}] /\ born' \in [Tenants -> Nat]
  BY <1>1 DEF StateInv
<1>3. StateInv'
  BY <1>1, <1>2 DEF StateInv
<1>4. StageInv' /\ SchemaInv' /\ ChangedInv'
  BY <1>1, SchemaFields, ChangedCalm DEF StartupInv, StageInv
<1>5. QueueInv' /\ RowInv' /\ DrainInv'
  <2>1. \A u \in Existing : u \in Existing' /\ born'[u] = born[u]
    BY <1>1 DEF Existing, StateInv
  <2>2. \A u \in Existing' \ Existing : born'[u] = clock
    BY <1>1 DEF Existing, StateInv
  <2> QED BY <1>1, <2>1, <2>2, TenantsGrow
<1> QED BY <1>3, <1>4, <1>5 DEF StartupInv

LEMMA PurgeTenantInv == ASSUME StartupInv, NEW t \in Tenants, PurgeTenant(t) PROVE StartupInv'
<1>1. /\ StateInv /\ clock' = clock + 1 /\ tenants' = [tenants EXCEPT ![t] = "none"]
      /\ db' = [db EXCEPT !.rows = [x \in DOMAIN @ |-> {r \in @[x] : r.tenant # t}]]
      /\ queue' = {q \in queue : q.tenant # t} \cup {[tenant |-> t, at |-> clock']}
      /\ gone' = [gone EXCEPT ![t] = clock']
      /\ UNCHANGED <<telemetry, config, born, unqueued, lock, stage, drain, taken, claimed, auth>>
  BY DEF PurgeTenant, ClockTicks, StartupInv, apart
<1> DEFINE new == [tenant |-> t, at |-> clock + 1]
<1>2. /\ clock \in Nat /\ clock' \in Nat \ {0} /\ gone' \in [Tenants -> Nat] /\ gone \in [Tenants -> Nat]
      /\ tenants' \in [Tenants -> {"none", "open", "locked"}]
  BY <1>1 DEF StateInv
<1>3. new \in Entries /\ new.tenant = t /\ new.at = clock + 1 /\ queue' = {q \in queue : q.tenant # t} \cup {new}
  BY <1>1, <1>2, SchemaAssumption DEF Entries
<1> HIDE DEF new
<1>4. /\ db' \in Database /\ db'.cols = db.cols /\ db'.idx = db.idx /\ db'.admin = db.admin
      /\ db'.roles = db.roles /\ db'.marks = db.marks /\ db'.sso = db.sso
  <2>1. db \in Database
    BY <1>1 DEF StateInv
  <2>2. [x \in DOMAIN db.rows |-> {r \in db.rows[x] : r.tenant # t}]
          \in [{"realms", "alerts", "events"} -> SUBSET [realm : STRING, owner : STRING, tenant : STRING]]
    <3>1. db.rows \in [{"realms", "alerts", "events"} -> SUBSET [realm : STRING, owner : STRING, tenant : STRING]]
      BY <2>1 DEF Database
    <3> QED BY <3>1
  <2> QED BY <1>1, <2>1, <2>2 DEF Database
<1>5. StateInv'
  <2>1. queue' \subseteq Entries
    BY <1>1, <1>3 DEF StateInv
  <2> QED BY <1>1, <1>2, <1>4, <2>1 DEF StateInv
<1>6. StageInv' /\ SchemaInv' /\ ChangedInv'
  <2>1. SchemaInv'
    BY <1>1, <1>4, SchemaFields
  <2> QED BY <1>1, <1>4, <2>1 DEF StartupInv, StageInv, ChangedInv
<1>7. Existing' = Existing \ {t}
  BY <1>1 DEF Existing, StateInv
<1>8. QueueInv'
  <2>1. ASSUME NEW q \in Entries, EntryInv(q)
        PROVE  q.at <= clock' /\ (q.tenant \in Existing' => q.at <= born[q.tenant])
    BY <1>1, <1>2, <1>7, <2>1 DEF EntryInv, Entries
  <2>2. ASSUME NEW q \in queue'
        PROVE  /\ q.at <= clock' /\ (q.tenant \in Existing' => q.at <= born[q.tenant])
               /\ q.tenant \in Tenants => gone'[q.tenant] <= q.at
    <3>1. CASE q = new
      BY <1>1, <1>2, <1>3, <1>7, <3>1
    <3>2. CASE q \in queue /\ q.tenant # t
      <4>1. q \in Entries /\ EntryInv(q) /\ (q.tenant \in Tenants => gone[q.tenant] <= q.at)
        BY <1>1, <3>2 DEF StartupInv, QueueInv, StateInv
      <4> QED BY <1>1, <1>2, <2>1, <3>2, <4>1
    <3> QED BY <1>3, <3>1, <3>2
  <2>3. \A q, p \in queue' : q.tenant = p.tenant => q = p
    BY <1>3 DEF StartupInv, QueueInv
  <2>4. \A u \in Tenants : gone'[u] <= clock'
    BY <1>1, <1>2 DEF StartupInv, QueueInv
  <2>5. ASSUME NEW s \in Servers, NEW q \in drain[s].todo \cup {drain[s].entry}
        PROVE  q.at <= clock' /\ (q.tenant \in Existing' => q.at <= born[q.tenant])
    <3>1. EntryInv(q) /\ q \in Entries
      BY <1>1 DEF StartupInv, QueueInv, StateInv, Drains
    <3> QED BY <2>1, <3>1
  <2>6. \A s \in Servers : drain[s].cursor <= drain[s].entry.at
    BY DEF StartupInv, QueueInv
  <2> QED BY <1>1, <2>2, <2>3, <2>4, <2>5, <2>6 DEF QueueInv, EntryInv
<1>9. RowInv'
  <2> SUFFICES ASSUME NEW r \in telemetry
               PROVE  /\ r.time <= clock'
                      /\ \/ r.late \/ (r.tenant \in Existing' /\ r.born = born[r.tenant])
                         \/ r.tenant \in unqueued \/ \E q \in queue' : q.tenant = r.tenant /\ r.time < q.at
    BY <1>1 DEF RowInv, Owned
  <2>1. r.time \in Nat /\ r.time <= clock
    BY <1>1 DEF StartupInv, RowInv, StateInv
  <2>2. CASE r.tenant = t
    <3>1. new \in queue' /\ new.tenant = r.tenant /\ r.time < new.at
      BY <1>2, <1>3, <2>1, <2>2
    <3> QED BY <1>1, <1>2, <2>1, <3>1
  <2>3. CASE r.tenant # t
    <3>1. r.late \/ Owned(r) \/ r.tenant \in unqueued \/ \E q \in queue : q.tenant = r.tenant /\ r.time < q.at
      BY DEF StartupInv, RowInv
    <3> QED BY <1>1, <1>2, <1>3, <1>7, <2>1, <2>3, <3>1 DEF Owned
  <2> QED BY <2>2, <2>3
<1>10. DrainInv'
  <2> SUFFICES ASSUME NEW s \in Servers, NEW r \in telemetry, stage[s] \in {"window", "dequeue"},
                      r.tenant = drain[s].entry.tenant, r.time < drain[s].entry.at,
                      stage[s] = "window" => drain[s].cursor <= r.time
               PROVE  \/ r.late \/ (r.tenant \in Existing' /\ r.born = born[r.tenant])
                      \/ r.tenant \in unqueued \/ drain[s].entry.at < gone'[r.tenant]
    BY <1>1 DEF DrainInv, Owned
  <2>1. CASE r.tenant = t
    <3>1. drain[s].entry.at <= clock /\ drain[s].entry.at \in Nat
      BY <1>1 DEF StartupInv, QueueInv, EntryInv, StateInv, Drains, Entries
    <3> QED BY <1>1, <1>2, <2>1, <3>1
  <2>2. CASE r.tenant # t
    <3>1. r.tenant \in Tenants
      BY <1>1 DEF StateInv
    <3>2. r.late \/ Owned(r) \/ r.tenant \in unqueued \/ drain[s].entry.at < gone[r.tenant]
      BY DEF StartupInv, DrainInv
    <3> QED BY <1>1, <1>2, <1>7, <2>2, <3>1, <3>2 DEF Owned
  <2> QED BY <2>1, <2>2
<1> QED BY <1>5, <1>6, <1>8, <1>9, <1>10 DEF StartupInv

\* A monitor stores a row: of its tenant, or late.
LEMMA CollectInv ==
  ASSUME StartupInv, NEW t \in Tenants, NEW when \in {clock, clock - 1}, Collect(t, when)
  PROVE  StartupInv'
<1> DEFINE row == [tenant |-> t, time |-> when, born |-> born[t], late |-> tenants[t] = "none"]
<1>1. /\ StateInv /\ telemetry' = telemetry \cup {row}
      /\ UNCHANGED <<db, tenants, queue, config, clock, born, gone, unqueued, lock, stage, drain, taken, claimed, auth>>
  BY DEF Collect, StartupInv, apart
<1>2. Existing' = Existing
  BY <1>1 DEF Existing
<1>3. /\ row \in [tenant : Tenants, time : Nat, born : Nat, late : BOOLEAN] /\ row.time <= clock
      /\ row.late \/ Owned(row)
  <2>1. when \in Nat /\ when <= clock /\ born[t] \in Nat
    BY <1>1 DEF StateInv
  <2>2. row.late \/ Owned(row)
    BY DEF Owned, Existing
  <2> QED BY <2>1, <2>2
<1> HIDE DEF row
<1>4. StateInv'
  <2>1. IsFiniteSet(telemetry \cup {row})
    BY <1>1, FS_AddElement DEF StateInv
  <2> QED BY <1>1, <1>3, <2>1 DEF StateInv
<1>5. StageInv' /\ SchemaInv' /\ ChangedInv'
  BY <1>1, SchemaFields, ChangedCalm DEF StartupInv, StageInv
<1>6. QueueInv'
  BY <1>1, <1>2 DEF StartupInv, QueueInv, EntryInv
<1>7. RowInv'
  BY <1>1, <1>2, <1>3 DEF StartupInv, RowInv, Owned
<1>8. DrainInv'
  BY <1>1, <1>2, <1>3 DEF StartupInv, DrainInv, Owned
<1> QED BY <1>4, <1>5, <1>6, <1>7, <1>8 DEF StartupInv

LEMMA ConfigChangesInv ==
  ASSUME StartupInv, NEW c \in {{}} \cup {{t} : t \in Tenants}, ConfigChanges(c) PROVE StartupInv'
<1>1. /\ StateInv /\ config' = c
      /\ UNCHANGED <<db, tenants, telemetry, queue, clock, born, gone, unqueued, lock, stage, drain, taken, claimed, auth>>
  BY DEF ConfigChanges, StartupInv, apart
<1>2. StateInv'
  BY <1>1 DEF StateInv
<1>3. StageInv' /\ SchemaInv' /\ ChangedInv'
  BY <1>1, SchemaFields, ChangedCalm DEF StartupInv, StageInv
<1>4. QueueInv' /\ RowInv' /\ DrainInv'
  BY <1>1, DrainCalm
<1> QED BY <1>2, <1>3, <1>4 DEF StartupInv

LEMMA TakeGrantInv == ASSUME StartupInv, NEW q \in Roles, TakeGrant(q) PROVE StartupInv'
<1>1. /\ StateInv /\ Serving /\ "amfa:read" \in db.roles[q] /\ db' = [db EXCEPT !.roles[q] = @ \ {"amfa:read"}]
      /\ taken' = IF "amfa" \in db.marks /\ \A s \in Servers : stage[s] # "roles" THEN taken \cup {q} ELSE taken
      /\ UNCHANGED <<tenants, telemetry, queue, config, clock, born, gone, unqueued, lock, stage, drain, claimed, auth>>
  BY DEF TakeGrant, Admin, StartupInv, purge
<1>2. db \in Database /\ db.roles \in [Roles -> {NoRole} \cup SUBSET Permissions]
  BY <1>1 DEF StateInv, Database
<1>3. db.roles[q] \ {"amfa:read"} \in SUBSET Permissions /\ db.roles[q] \ {"amfa:read"} # NoRole
  BY <1>1, <1>2 DEF NoRole, Permissions
<1>4. /\ db' \in Database /\ db'.cols = db.cols /\ db'.idx = db.idx /\ db'.admin = db.admin
      /\ db'.marks = db.marks /\ db'.sso = db.sso
      /\ db'.roles = [db.roles EXCEPT ![q] = @ \ {"amfa:read"}]
  <2>1. [db.roles EXCEPT ![q] = @ \ {"amfa:read"}] \in [Roles -> {NoRole} \cup SUBSET Permissions]
    BY <1>2, <1>3
  <2> QED BY <1>1, <1>2, <2>1 DEF Database
<1>5. \A r \in Roles : db.roles[r] # NoRole => db'.roles[r] # NoRole
  BY <1>2, <1>3, <1>4
<1>6. StateInv'
  BY <1>1, <1>4 DEF StateInv
<1>7. StageInv' /\ SchemaInv'
  BY <1>1, <1>4, <1>5, SchemaFields DEF StartupInv, StageInv
<1>8. ChangedInv'
  <2>1. \A r \in Roles : db.roles[r] # NoRole
    BY <1>1 DEF Serving, StartupInv, SchemaInv, PastRoles, PastAdmin
  <2>2. taken' # {} => "amfa" \in db.marks
    BY <1>1 DEF StartupInv, ChangedInv
  <2>3. \A r \in taken' : "amfa:read" \notin db'.roles[r]
    <3>1. \A r \in taken : r \in Roles /\ "amfa:read" \notin db.roles[r]
      BY <1>1 DEF StartupInv, ChangedInv, StateInv
    <3> QED BY <1>1, <1>2, <1>4, <3>1
  <2> QED BY <1>1, <1>4, <1>5, <2>1, <2>2, <2>3 DEF StartupInv, ChangedInv
<1>9. QueueInv' /\ RowInv' /\ DrainInv'
  BY <1>1, DrainCalm
<1> QED BY <1>6, <1>7, <1>8, <1>9 DEF StartupInv

LEMMA SignInInv ==
  ASSUME StartupInv, NEW claim \in BOOLEAN, NEW usable \in BOOLEAN, SignIn(claim, usable)
  PROVE  StartupInv'
<1> DEFINE login == IF usable THEN "after" ELSE db.sso.login
           admin == IF db.admin = "none" THEN "others" ELSE db.admin
<1>1. /\ StateInv
      /\ db' = [db EXCEPT !.sso = [oauth |-> TRUE, verified |-> claim, login |-> login], !.admin = admin]
      /\ UNCHANGED <<tenants, telemetry, queue, config, clock, born, gone, unqueued, lock, stage, drain, taken, auth>>
  BY DEF SignIn, Admin, StartupInv, purge, StateInv, Database
<1>2. claimed' = IF ~claim THEN "no" ELSE IF db'.sso.login = "after" THEN "yes" ELSE "refused"
  BY DEF SignIn
<1>3. login \in {"never", "before", "after"} /\ admin \in Admins
  BY <1>1 DEF StateInv, Database, Admins
<1> HIDE DEF login, admin
<1>4. /\ db' \in Database /\ db'.cols = db.cols /\ db'.idx = db.idx /\ db'.admin = admin
      /\ db'.marks = db.marks /\ db'.roles = db.roles
      /\ db'.sso = [oauth |-> TRUE, verified |-> claim, login |-> login]
  BY <1>1, <1>3 DEF StateInv, Database
<1>5. StateInv'
  BY <1>1, <1>2, <1>4 DEF StateInv
<1>6. StageInv' /\ SchemaInv'
  <2>1. HasAdmin(auth, db.admin) => HasAdmin(auth, db'.admin)
    BY <1>4 DEF HasAdmin, admin
  <2> QED BY <1>1, <1>4, <2>1, SchemaFields DEF StartupInv, StageInv
<1>7. ChangedInv'
  <2>1. db'.sso.verified = claim
    BY <1>4
  <2>2. claimed' = "yes" => claim /\ db'.sso.login = "after"
    BY <1>2
  <2>3. claimed' = "yes" => db'.sso.verified /\ db'.sso.login = "after"
    BY <2>1, <2>2
  <2> QED BY <1>1, <1>4, <2>3 DEF StartupInv, ChangedInv
<1>8. QueueInv' /\ RowInv' /\ DrainInv'
  BY <1>1, DrainCalm
<1> QED BY <1>5, <1>6, <1>7, <1>8 DEF StartupInv

LEMMA StartupStill == ASSUME StartupInv, UNCHANGED startupVars PROVE StartupInv'
<1>1. UNCHANGED <<db, tenants, telemetry, queue, config, clock, born, gone, unqueued, lock, stage, drain, taken, claimed, auth>>
  BY DEF startupVars, purge, apart
<1>2. StateInv' /\ StageInv' /\ SchemaInv' /\ ChangedInv'
  BY <1>1, SchemaFields, ChangedCalm DEF StartupInv, StateInv, StageInv
<1>3. QueueInv' /\ RowInv' /\ DrainInv'
  BY <1>1, DrainCalm
<1> QED BY <1>2, <1>3 DEF StartupInv

LEMMA StartupNextInv == ASSUME StartupInv, [StartupNext]_startupVars PROVE StartupInv'
<1>1. ASSUME NEW s \in Servers, Step(s) PROVE StartupInv'
  BY <1>1, StartInv, lockSchemaInv, MigrateInv, SeedQueueInv, UnlockInv, ReadQueueInv, NextEntryInv,
     drainTelemetryTableInv, DequeueInv, syncTenantsFromConfigInv DEF Step
<1>2. ASSUME NEW t \in Tenants, CreateTenant(t) \/ PurgeTenant(t) \/ Collect(t, clock) \/ Collect(t, clock - 1)
      PROVE  StartupInv'
  BY <1>2, CreateTenantInv, PurgeTenantInv, CollectInv
<1> QED BY <1>1, <1>2, CrashInv, ConfigChangesInv, TakeGrantInv, SignInInv, StartupStill DEF StartupNext

\* Startup: the invariant holds in every state of the specification.
THEOREM StartupInvariance == StartupSpec => []StartupInv
<1>1. StartupInit => StartupInv
  BY StartupInitInv
<1>2. StartupInv /\ [StartupNext]_startupVars => StartupInv'
  BY StartupNextInv
<1> QED BY <1>1, <1>2, PTL DEF StartupSpec

\* Startup: ServesSafely.  A server that serves has its indexes, live and unique,
\* and with simple auth users, the default one of them no user without the admin role
\* that could be looked up, whatever other servers fail at or crash in meanwhile.
THEOREM ServesSafe == StartupSpec => []ServesSafely
<1>1. StartupInv => ServesSafely
  <2> SUFFICES ASSUME StartupInv PROVE ServesSafely
    OBVIOUS
  <2>1. ASSUME NEW s \in Servers
        PROVE  (\E n \in 1..18 : stage[s] = Steps[n]) <=> lock = s
    <3>1. (\E n \in 1..18 : stage[s] = Steps[n]) <=> stage[s] \in Migrating
      BY DEF Steps, Migrating
    <3> QED BY <3>1 DEF StartupInv, StageInv
  <2>2. StartupTypes
    BY <2>1 DEF StartupInv, StateInv, QueueInv, StartupTypes
  <2>3. ASSUME Serving
        PROVE  /\ \A i \in {"email", "subject", "username", "role"} : db.idx[i] = "live"
               /\ db.idx.alert # "none" /\ HasAdmin(auth, db.admin)
    BY <2>3 DEF Serving, StartupInv, SchemaInv, PastTables, PastAssert, PastRole, PastRoles, PastAdmin
  <2> QED BY <2>2, <2>3 DEF ServesSafely
<1> QED BY <1>1, StartupInvariance, PTL

\* Startup: NothingInherited.  What a deleted tenant had stored is queued until a
\* drain deleted it, unless a drain of an earlier deletion took the entry away.
THEOREM NothingIsInherited == StartupSpec => []NothingInherited
<1>1. StartupInv => NothingInherited
  <2> SUFFICES ASSUME StartupInv, NEW r \in telemetry, r.tenant \notin unqueued, Inherited(r)
               PROVE  FALSE
    BY DEF NothingInherited
  <2>1. PICK q \in queue : q.tenant = r.tenant /\ r.time < q.at
    BY DEF StartupInv, RowInv, Owned, Inherited
  <2>2. q.at \in Nat /\ r.time \in Nat
    BY DEF StartupInv, StateInv, Entries
  <2> QED BY <2>1, <2>2 DEF Inherited
<1> QED BY <1>1, StartupInvariance, PTL

\* Only drains delete rows of telemetry.
LEMMA OnlyDrainsDelete ==
  ASSUME StartupInv, [StartupNext]_startupVars, NEW r \in telemetry \ telemetry'
  PROVE  \E s \in Servers : r \in Below(s)
<1>1. ASSUME NEW s \in Servers, drainTelemetryTable(s)
      PROVE  \E t \in Servers : r \in Below(t)
  BY <1>1 DEF drainTelemetryTable
<1>2. ASSUME NEW s \in Servers, Step(s) PROVE drainTelemetryTable(s) \/ telemetry' = telemetry
  BY <1>2 DEF Step, Start, lockSchema, Migrate, migrateSeedTenantPurgeQueue, Unlock, ReadQueue, NextEntry,
              Dequeue, syncTenantsFromConfig, purge
<1>3. ASSUME NEW s \in Servers, Crash(s) PROVE telemetry' = telemetry
  BY <1>3 DEF Crash, purge
<1>4. ASSUME NEW t \in Tenants, CreateTenant(t) \/ PurgeTenant(t) \/ Collect(t, clock) \/ Collect(t, clock - 1)
      PROVE  telemetry \subseteq telemetry'
  BY <1>4 DEF CreateTenant, PurgeTenant, Collect
<1>5. ASSUME NEW c, ConfigChanges(c) PROVE telemetry' = telemetry
  BY <1>5 DEF ConfigChanges
<1>6. ASSUME NEW q, NEW u, TakeGrant(q) \/ SignIn(q, u) PROVE telemetry' = telemetry
  BY <1>6 DEF TakeGrant, SignIn, purge
<1>7. ASSUME UNCHANGED startupVars PROVE telemetry' = telemetry
  BY <1>7 DEF startupVars, purge
<1> QED BY <1>1, <1>2, <1>3, <1>4, <1>5, <1>6, <1>7 DEF StartupNext

\* Startup: NewerRowsSurvive.  No drain deletes what a tenant that was created
\* again has stored since.
THEOREM NewerSurvive == StartupSpec => NewerRowsSurvive
<1>1. ASSUME StartupInv, [StartupNext]_startupVars
      PROVE  \A r \in telemetry \ telemetry' : r.tenant \in Existing => r.time < born[r.tenant]
  <2> SUFFICES ASSUME NEW r \in telemetry \ telemetry', r.tenant \in Existing PROVE r.time < born[r.tenant]
    OBVIOUS
  <2>1. PICK s \in Servers : r \in Below(s)
    BY <1>1, OnlyDrainsDelete
  <2>2. drain[s].entry.at <= born[r.tenant] /\ drain[s].cursor <= drain[s].entry.at
    BY <1>1, <2>1 DEF StartupInv, QueueInv, EntryInv, Below
  <2>3. /\ r.time \in Nat /\ born[r.tenant] \in Nat
        /\ drain[s].entry.at \in Nat /\ drain[s].cursor \in Nat
    BY <1>1 DEF StartupInv, StateInv, Drains, Entries
  <2> QED BY <2>1, <2>2, <2>3 DEF Below
<1>2. StartupInv /\ [StartupNext]_startupVars =>
        [\A r \in telemetry \ telemetry' : r.tenant \in Existing => r.time < born[r.tenant]]_startupVars
  BY <1>1
<1> QED BY <1>2, StartupInvariance, PTL DEF StartupSpec, NewerRowsSurvive

\* Events without a tenant are left as they are once the backfill ran.
LEMMA UnownedEventsKept ==
  ASSUME StartupInv, [StartupNext]_startupVars, "events" \in db.marks,
         NEW e \in db.rows.events, e.tenant = NoTenant
  PROVE  e \in db'.rows.events
<1>0. db \in Database /\ "events" \in DOMAIN db.rows
  BY DEF StartupInv, StateInv, Database
<1>1. ASSUME NEW s \in Servers, Migrate(s) PROVE e \in db'.rows.events
  <2>1. PICK r \in Results(stage[s]) : db' = r.db
    BY <1>1 DEF Migrate
  <2>2. Stands(db, r)
    BY <2>1, ResultsStand DEF StartupInv, StageInv
  <2>3. db.cols = AllCols
    BY DEF StartupInv, ChangedInv
  <2> QED BY <2>1, <2>2, <2>3 DEF Stands, Keeps
<1>2. ASSUME NEW s \in Servers, Step(s) PROVE Migrate(s) \/ db' = db
  BY <1>2 DEF Step, Start, lockSchema, drainTelemetryTable, migrateSeedTenantPurgeQueue, Unlock, ReadQueue,
              NextEntry, Dequeue, syncTenantsFromConfig
<1>3. ASSUME NEW s \in Servers, Crash(s) PROVE db' = db
  BY <1>3 DEF Crash
<1>4. ASSUME NEW t \in Tenants, PurgeTenant(t) PROVE e \in db'.rows.events
  <2>1. db'.rows = [x \in DOMAIN db.rows |-> {r \in db.rows[x] : r.tenant # t}]
    BY <1>0, <1>4 DEF PurgeTenant, Database
  <2>2. t # NoTenant
    BY SchemaAssumption
  <2> QED BY <1>0, <2>1, <2>2
<1>5. ASSUME NEW t \in Tenants, CreateTenant(t) \/ Collect(t, clock) \/ Collect(t, clock - 1)
      PROVE  db' = db
  BY <1>5 DEF CreateTenant, Collect
<1>6. ASSUME NEW c, ConfigChanges(c) PROVE db' = db
  BY <1>6 DEF ConfigChanges
<1>7. ASSUME NEW q, NEW u, TakeGrant(q) \/ SignIn(q, u) PROVE db'.rows = db.rows
  BY <1>0, <1>7 DEF TakeGrant, SignIn, Database
<1>8. ASSUME UNCHANGED startupVars PROVE db' = db
  BY <1>8 DEF startupVars
<1> QED BY <1>1, <1>2, <1>3, <1>4, <1>5, <1>6, <1>7, <1>8 DEF StartupNext

\* Startup: MigratedOnce.  Later starts leave alone what changed since a migration
\* ran: grants taken away, events without a tenant, and claims of the identity provider
\* at a sign-in after the cutoff, or by an account that has had one.
THEOREM MigratesOnce == StartupSpec => MigratedOnce
<1> DEFINE once ==
             /\ \A r \in taken' : "amfa:read" \notin db'.roles[r]
             /\ claimed' = "yes" => db'.sso.verified
             /\ \A e \in db.rows.events :
                  "events" \in db.marks /\ e.tenant = NoTenant => e \in db'.rows.events
<1>1. StartupInv /\ [StartupNext]_startupVars => StartupInv'
  BY StartupNextInv
<1>2. ASSUME StartupInv, [StartupNext]_startupVars, StartupInv' PROVE [once]_startupVars
  <2>1. /\ \A r \in taken' : "amfa:read" \notin db'.roles[r]
        /\ claimed' = "yes" => db'.sso.verified
    BY <1>2 DEF StartupInv, ChangedInv
  <2> QED BY <1>2, <2>1, UnownedEventsKept
<1> QED BY <1>1, <1>2, StartupInvariance, PTL DEF StartupSpec, MigratedOnce

-----------------------------------------------------------------------------
(* Startup: one server.                                                      *)

\* What a drain is at, between its steps.
AtWork(w, d, q) ==
  /\ w \in {"entry", "window", "dequeue"} => d.todo \subseteq q
  /\ w \in {"window", "dequeue"} => d.entry \in q \ d.todo

LEMMA DrainsAlone ==
  ASSUME StartupInv, NEW s \in Servers, Servers = {s}, AloneInv,
         ReadQueue(s) \/ NextEntry(s) \/ drainTelemetryTable(s) \/ Dequeue(s)
  PROVE  unqueued' = {} /\ AtWork(stage'[s], drain'[s], queue')
<1>0. unqueued = {} /\ AtWork(stage[s], drain[s], queue)
  BY DEF AloneInv, AtWork
<1>1. /\ stage \in [Servers -> Stages] /\ drain \in [Servers -> Drains] /\ drain[s] \in Drains
      /\ \A q, p \in queue : q.tenant = p.tenant => q = p
  BY DEF StartupInv, StageInv, StateInv, QueueInv
<1>2. CASE ReadQueue(s)
  <2>1. unqueued' = {} /\ queue' = queue /\ stage'[s] \in {"sync", "entry"}
    BY <1>0, <1>1, <1>2 DEF ReadQueue, Goto, purge
  <2>2. stage'[s] = "entry" => drain'[s].todo = queue
    BY <1>1, <1>2 DEF ReadQueue, Goto, NoDrain
  <2> QED BY <2>1, <2>2 DEF AtWork
<1>3. CASE NextEntry(s)
  <2>1. unqueued' = {} /\ queue' = queue /\ stage[s] = "entry"
    BY <1>0, <1>3 DEF NextEntry, purge
  <2>2. CASE Goto(s, "sync")
    BY <1>1, <2>1, <2>2 DEF Goto, AtWork
  <2>3. ASSUME NEW q \in drain[s].todo, Goto(s, "window"),
               drain' = [drain EXCEPT ![s] = [todo |-> @.todo \ {q}, entry |-> q, cursor |-> q.at, deleted |-> 0]]
        PROVE  AtWork(stage'[s], drain'[s], queue')
    <3>1. drain'[s].todo = drain[s].todo \ {q} /\ drain'[s].entry = q
      BY <1>1, <2>3
    <3> QED BY <1>0, <2>1, <3>1 DEF AtWork
  <2> QED BY <1>3, <2>1, <2>2, <2>3 DEF NextEntry
<1>4. CASE drainTelemetryTable(s)
  <2>1. unqueued' = {} /\ queue' = queue /\ stage[s] = "window"
    BY <1>0, <1>4 DEF drainTelemetryTable
  <2>2. drain'[s].todo = drain[s].todo /\ drain'[s].entry = drain[s].entry
    BY <1>1, <1>4 DEF drainTelemetryTable, Drains
  <2> QED BY <1>0, <2>1, <2>2 DEF AtWork
<1>5. CASE Dequeue(s)
  <2>1. drain' = drain /\ stage[s] = "dequeue" /\ stage'[s] = "entry"
    BY <1>1, <1>5 DEF Dequeue, Goto
  <2>2. {q \in queue : q.tenant = drain[s].entry.tenant} = {drain[s].entry}
    BY <1>0, <1>1, <2>1 DEF AtWork
  <2>3. unqueued' = {} /\ queue' \in {queue, queue \ {drain[s].entry}}
    BY <1>0, <1>5, <2>2 DEF Dequeue
  <2> QED BY <1>0, <2>1, <2>3 DEF AtWork
<1> QED BY <1>2, <1>3, <1>4, <1>5

LEMMA AloneNextInv ==
  ASSUME StartupInv, NEW s \in Servers, Servers = {s}, AloneInv, [StartupNext]_startupVars PROVE AloneInv'
<1> SUFFICES unqueued' = {} /\ AtWork(stage'[s], drain'[s], queue')
  BY DEF AloneInv, AtWork
<1>0. unqueued = {} /\ AtWork(stage[s], drain[s], queue) /\ stage \in [Servers -> Stages]
  BY DEF AloneInv, AtWork, StartupInv, StageInv
<1>1. CASE UNCHANGED <<unqueued, queue, drain>> /\ stage' = stage
  BY <1>0, <1>1
<1>2. CASE unqueued' = unqueued /\ stage'[s] \notin {"entry", "window", "dequeue"}
  BY <1>0, <1>2 DEF AtWork
<1>3. ASSUME Step(s) PROVE unqueued' = {} /\ AtWork(stage'[s], drain'[s], queue')
  <2>1. CASE ReadQueue(s) \/ NextEntry(s) \/ drainTelemetryTable(s) \/ Dequeue(s)
    BY <2>1, DrainsAlone
  <2>2. CASE Start(s) \/ lockSchema(s) \/ migrateSeedTenantPurgeQueue(s) \/ Unlock(s) \/ syncTenantsFromConfig(s)
    <3>1. unqueued' = unqueued /\ stage'[s] \in {"lock", "pre", "unlock", "roles", "serve"}
      BY <1>0, <2>2 DEF Start, lockSchema, migrateSeedTenantPurgeQueue, Unlock, syncTenantsFromConfig, Goto, purge
    <3> QED BY <1>2, <3>1
  <2>3. CASE Migrate(s)
    <3>1. PICK r \in Results(stage[s]) :
            /\ Goto(s, After(stage[s])) \/ Goto(s, "down")
            /\ unqueued' = unqueued
      BY <2>3 DEF Migrate, Dies, purge
    <3>2. stage[s] \in MigrationSteps
      BY <3>1, ResultsStand DEF StartupInv, StageInv
    <3>3. After(stage[s]) \notin {"entry", "window", "dequeue"}
      BY <3>2, AfterFacts
    <3> QED BY <1>0, <1>2, <3>1, <3>3 DEF Goto
  <2> QED BY <1>3, <2>1, <2>2, <2>3 DEF Step
<1>4. ASSUME Crash(s) PROVE unqueued' = unqueued /\ stage'[s] = "down"
  BY <1>0, <1>4 DEF Crash, Dies, Goto, purge
<1>5. ASSUME NEW t \in Tenants, CreateTenant(t) \/ PurgeTenant(t) \/ Collect(t, clock) \/ Collect(t, clock - 1)
      PROVE  unqueued' = unqueued /\ stage'[s] = "serve"
  BY <1>5 DEF CreateTenant, PurgeTenant, Collect, Admin, Serving
<1>6. ASSUME NEW c, ConfigChanges(c) PROVE UNCHANGED <<unqueued, queue, drain>> /\ stage' = stage
  BY <1>6 DEF ConfigChanges
<1>7. ASSUME NEW q, NEW u, TakeGrant(q) \/ SignIn(q, u) PROVE UNCHANGED <<unqueued, queue, drain>> /\ stage' = stage
  BY <1>7 DEF TakeGrant, SignIn, purge
<1>8. ASSUME UNCHANGED startupVars PROVE UNCHANGED <<unqueued, queue, drain>> /\ stage' = stage
  BY <1>8 DEF startupVars, purge
<1> QED BY <1>1, <1>2, <1>3, <1>4, <1>5, <1>6, <1>7, <1>8 DEF StartupNext

\* Startup: with one server, as the deployment guide asks for, no telemetry of an
\* earlier tenant is ever left to a later one: nothing goes on while it drains.
THEOREM NothingIsEverInherited ==
  ASSUME NEW s, Servers = {s}
  PROVE  StartupSpec => []NothingEverInherited
<1>1. StartupInit => AloneInv
  BY DEF StartupInit, AloneInv
<1>2. StartupInv /\ AloneInv /\ [StartupNext]_startupVars => AloneInv'
  BY AloneNextInv
<1>3. AloneInv /\ NothingInherited => NothingEverInherited
  BY DEF AloneInv, NothingInherited, NothingEverInherited
<1> QED BY <1>1, <1>2, <1>3, StartupInvariance, NothingIsInherited, PTL DEF StartupSpec

-----------------------------------------------------------------------------
(* EventCursor: the inductive invariant.                                     *)

USE DurationsAssumption, ClockAssumption

At(s) == {x \in visible : stamp[x] = s}

\* What Keycloak shows is finite, stamped near its clock, and no more of it
\* shares a time than fits a page.
StreamInv ==
  /\ time >= StartTime /\ IsFiniteSet(visible)
  /\ \A e \in visible : stamp[e] \in Nat /\ stamp[e] <= time + Ahead
  /\ \A e \in visible : Cardinality(At(stamp[e])) <= PageSize

\* The cursor's times are the monitor's, which runs at most Skew ahead of
\* Keycloak's clock, and does not step back.
ClockInv ==
  /\ cur.since >= 0
  /\ alive => cur.last <= time + Skew
  /\ alive /\ ~back => cur.last <= now /\ cur.since <= now

NoCursorInv == ~alive => pc = "idle" /\ seen = {} /\ retry = {} /\ ever = {}

\* How far a read has come: the offset skips only events of one time.
SweepPosInv ==
  /\ cur.sweeping => cur.first <= Cardinality(At(cur.from))
  /\ pc = "sweep" =>
       /\ cur.sweeping /\ pos.first <= Cardinality(At(pos.next))
       /\ pos.next > cur.from \/ (pos.next = cur.from /\ pos.first >= cur.first)

PollPosInv ==
  pc = "poll" =>
    /\ pos.first <= Cardinality(At(pos.next))
    /\ pos.next >= cur.since /\ pos.newest <= pos.next /\ pos.newest >= 0

\* The rest of the poll, of the sweep, or the next sweep returns the event.
PollReads(e) == IF pc = "poll" THEN ReadFrom(e, pos.next, pos.first) ELSE stamp[e] >= cur.since
SweepReads(e) ==
  IF pc = "sweep" THEN ReadFrom(e, pos.next, pos.first)
  ELSE cur.sweeping /\ ReadFrom(e, cur.from, cur.first)
NextSweepReads(e) == stamp[e] >= cur.last - LateWindow - Margin

WillRead(e) == e \notin seen /\ (PollReads(e) \/ SweepReads(e) \/ NextSweepReads(e))

LostInv == alive => \A e \in visible \ missed : Handled(e) \/ WillRead(e)

\* A walk by date, which starts over the newest events: what it has not read yet
\* is older than what it kept and pushed no further than it has come, except for
\* events committed since and those of a time it read in part.
Newer(e) == {x \in visible : stamp[x] > stamp[e]}
Behind(e) ==
  /\ \A x \in walk.got : stamp[x] > stamp[e]
  /\ walk.page * PageSize <= Cardinality(Newer(e))

WalkInv ==
  /\ pc = "idle" => walk = NoWalk
  /\ \A x \in walk.got : stamp[x] >= pos.next
  /\ \A e \in visible \ walk.got : stamp[e] >= pos.next =>
       NextSweepReads(e) \/ (\E x \in walk.got : stamp[x] = stamp[e]) \/ Behind(e)

\* What any read to come may return again is in seen.
MayReturn(e) ==
  \/ stamp[e] >= cur.since
  \/ cur.sweeping /\ stamp[e] >= cur.from
  \/ stamp[e] >= cur.last - LateWindow - Margin

SeenInv == alive /\ ~back => \A e \in ever : MayReturn(e) => e \in seen

IInv ==
  /\ TypeOK /\ StreamInv /\ ClockInv /\ NoCursorInv /\ SweepPosInv /\ PollPosInv
  /\ LostInv /\ WalkInv /\ SeenInv /\ ProcessedOnce

-----------------------------------------------------------------------------
(* EventCursor: pages.                                                       *)

\* The events of one time are as many as a page holds at most.
LEMMA AtFinite ==
  ASSUME StreamInv, NEW s
  PROVE  /\ IsFiniteSet(At(s)) /\ Cardinality(At(s)) \in Nat
         /\ Cardinality(At(s)) <= PageSize
<1>1. At(s) \in SUBSET visible
  BY DEF At
<1>2. IsFiniteSet(At(s)) /\ Cardinality(At(s)) \in Nat
  BY <1>1, FS_Subset, FS_CardinalityType DEF StreamInv
<1>3. CASE At(s) = {}
  BY <1>2, <1>3, FS_EmptySet
<1>4. CASE At(s) # {}
  <2>1. PICK x \in visible : stamp[x] = s
    BY <1>4 DEF At
  <2> QED BY <1>2, <2>1 DEF StreamInv
<1> QED BY <1>2, <1>3, <1>4

\* The newest time of a page.
LEMMA NewestOfPage ==
  ASSUME TypeOK, StreamInv, NEW page \in SUBSET visible
  PROVE  /\ Newest(page) \in Nat
         /\ \A x \in page : stamp[x] <= Newest(page)
         /\ page # {} => \E x \in page : stamp[x] = Newest(page)
<1>1. CASE page = {}
  BY <1>1 DEF Newest
<1>2. CASE page # {}
  <2> DEFINE S == {stamp[e] : e \in page}
  <2>1. S \in SUBSET Nat /\ S # {} /\ \A s \in S : s <= time + Ahead
    BY <1>2 DEF StreamInv
  <2>2. time + Ahead \in Nat
    BY DEF TypeOK
  <2>3. \E m \in S : \A s \in S : s <= m
    <3> HIDE DEF S
    <3> QED BY <2>1, <2>2, GreatestElement
  <2>4. \E m \in S : \A e \in page : stamp[e] <= m
    BY <2>3
  <2>5. Newest(page) \in S /\ \A e \in page : stamp[e] <= Newest(page)
    BY <1>2, <2>4 DEF Newest
  <2> QED BY <2>1, <2>5
<1> QED BY <1>1, <1>2

\* What the offset skips all has the time the read starts from.
LEMMA SkippedHasTime ==
  ASSUME TypeOK, StreamInv, NEW n \in Int, NEW f \in Nat, f <= Cardinality(At(n)),
         NEW found \in SUBSET visible, At(n) \in SUBSET found, \A x \in found : stamp[x] >= n,
         NEW skipped \in SUBSET found, NotAfter(skipped, found \ skipped),
         Cardinality(skipped) <= f
  PROVE  skipped \in SUBSET At(n)
<1>1. IsFiniteSet(skipped) /\ Cardinality(skipped) \in Nat
  BY FS_Subset, FS_CardinalityType DEF StreamInv
<1> SUFFICES ASSUME NEW e \in skipped, e \notin At(n)
             PROVE  FALSE
  OBVIOUS
<1>2. e \in visible /\ stamp[e] > n
  BY DEF At, StreamInv
<1>3. At(n) \cup {e} \in SUBSET skipped
  <2>1. ASSUME NEW x \in At(n), x \notin skipped
        PROVE  FALSE
    <3>1. x \in found \ skipped
      BY <2>1
    <3>2. stamp[e] <= stamp[x]
      BY <3>1 DEF NotAfter
    <3>3. stamp[x] = n
      BY DEF At
    <3>4. stamp[e] \in Nat
      BY <1>2 DEF StreamInv
    <3> QED BY <1>2, <3>2, <3>3, <3>4
  <2> QED BY <2>1
<1>4. Cardinality(At(n) \cup {e}) = Cardinality(At(n)) + 1
  BY AtFinite, FS_AddElement
<1>5. Cardinality(At(n) \cup {e}) <= Cardinality(skipped)
  BY <1>1, <1>3, FS_Subset
<1> QED BY <1>1, <1>4, <1>5, AtFinite

\* What GetEventsSince returned continues the read: what it leaves out lies ahead
\* of where the read goes on, is read by the next sweep, or was passed over.
Reads == [next : Int, first : Nat, page : Nat, newest : Int]

Continues(page, full, r) ==
  /\ r \in Reads
  /\ \A x \in page : stamp[x] >= pos.next
  /\ r.next > pos.next \/ (r.next = pos.next /\ r.first >= pos.first)
  /\ full => r.first <= Cardinality(At(r.next))
  /\ \A e \in visible \ (page \cup seen) : ReadFrom(e, pos.next, pos.first) =>
       \/ full /\ ReadFrom(e, r.next, r.first) /\ stamp[e] >= Newest(page)
       \/ NextSweepReads(e)
       \/ e \in missed'
  /\ r.newest >= pos.newest /\ (pos.newest <= pos.next => r.newest <= r.next)

\* Where a read goes on after a page.
LEMMA AfterPageFacts ==
  ASSUME TypeOK, StreamInv, NEW page \in SUBSET visible, \A x \in page : stamp[x] >= pos.next,
         NEW r, r = AfterPage(page)
  PROVE  /\ r \in Reads
         /\ IsFiniteSet(page) /\ Cardinality(page) \in Nat
         /\ r.next = IF Newest(page) > pos.next THEN Newest(page) ELSE pos.next
         /\ r.first = IF Newest(page) > pos.next THEN 0 ELSE pos.first + Cardinality(page)
         /\ r.next > pos.next \/ (r.next = pos.next /\ r.first >= pos.first)
         /\ r.newest >= pos.newest /\ (pos.newest <= pos.next => r.newest <= r.next)
<1> DEFINE n == pos.next
           f == pos.first
<1>1. n \in Int /\ f \in Nat /\ pos.page \in Nat /\ pos.newest \in Int
  BY DEF TypeOK
<1>4. IsFiniteSet(page) /\ Cardinality(page) \in Nat
  BY FS_Subset, FS_CardinalityType DEF StreamInv
<1>5. /\ Newest(page) \in Nat /\ \A x \in page : stamp[x] <= Newest(page)
      /\ page # {} => \E x \in page : stamp[x] = Newest(page)
  BY NewestOfPage
<1>6. /\ r.next = IF Newest(page) > n THEN Newest(page) ELSE n
      /\ r.first = IF Newest(page) > n THEN 0 ELSE f + Cardinality(page)
      /\ r.newest = IF Newest(page) > pos.newest THEN Newest(page) ELSE pos.newest
  BY DEF AfterPage
<1>12. r \in Reads
  <2> DEFINE next == IF Newest(page) > n THEN Newest(page) ELSE n
             first == IF Newest(page) > n THEN 0 ELSE f + Cardinality(page)
             newest == IF Newest(page) > pos.newest THEN Newest(page) ELSE pos.newest
  <2>1. next \in Int /\ first \in Nat /\ newest \in Int /\ pos.page + 1 \in Nat
    BY <1>1, <1>4, <1>5
  <2>2. r = [next |-> next, first |-> first, page |-> pos.page + 1, newest |-> newest]
    BY DEF AfterPage
  <2> HIDE DEF next, first, newest
  <2> QED BY <2>1, <2>2 DEF Reads
<1>13. r.next > pos.next \/ (r.next = pos.next /\ r.first >= pos.first)
  BY <1>1, <1>4, <1>5, <1>6
<1>14. r.newest >= pos.newest /\ (pos.newest <= pos.next => r.newest <= r.next)
  BY <1>1, <1>5, <1>6
<1> QED BY <1>4, <1>6, <1>12, <1>13, <1>14

\* A page of exact times leaves nothing out where it was not full.
LEMMA PageRead ==
  ASSUME TypeOK, StreamInv, NEW page \in SUBSET visible,
         IsPage(page, pos.next, pos.first), pos.first <= Cardinality(At(pos.next)),
         NEW r, r = AfterPage(page)
  PROVE  Continues(page, Full(page), r)
<1> DEFINE n == pos.next
           f == pos.first
           found == {e \in visible : stamp[e] >= n}
<1>1. n \in Int /\ f \in Nat /\ pos.page \in Nat /\ pos.newest \in Int
  BY DEF TypeOK
<1>2. PICK skipped \in SUBSET found :
        /\ Cardinality(skipped) = Least(f, Cardinality(found))
        /\ page \subseteq found \ skipped
        /\ Cardinality(page) = Least(PageSize, Cardinality(found \ skipped))
        /\ NotAfter(skipped, found \ skipped)
        /\ NotAfter(page, found \ (skipped \union page))
  BY DEF IsPage
<1>3. skipped \in SUBSET At(n) /\ Cardinality(skipped) = f
  <2>1. found \in SUBSET visible /\ At(n) \in SUBSET found /\ \A x \in found : stamp[x] >= n
    BY <1>1 DEF At, StreamInv
  <2>2. Cardinality(At(n)) <= Cardinality(found) /\ Cardinality(found) \in Nat
    <3>1. IsFiniteSet(found)
      BY <2>1, FS_Subset DEF StreamInv
    <3> QED BY <2>1, <3>1, FS_Subset, FS_CardinalityType
  <2>3. Cardinality(skipped) = f
    BY <1>1, <1>2, <2>2, AtFinite DEF Least
  <2> HIDE DEF n, f, found
  <2>4. f <= Cardinality(At(n))
    BY DEF n, f
  <2>5. skipped \in SUBSET At(n)
    BY <1>1, <1>2, <2>1, <2>3, <2>4, SkippedHasTime
  <2> QED BY <2>3, <2>5
<1>15. \A x \in page : stamp[x] >= pos.next
  BY <1>2
<1>4. IsFiniteSet(page) /\ Cardinality(page) \in Nat
  BY <1>15, AfterPageFacts
<1>5. /\ Newest(page) \in Nat /\ \A x \in page : stamp[x] <= Newest(page)
      /\ page # {} => \E x \in page : stamp[x] = Newest(page)
  BY NewestOfPage
<1>6. /\ r.next = IF Newest(page) > n THEN Newest(page) ELSE n
      /\ r.first = IF Newest(page) > n THEN 0 ELSE f + Cardinality(page)
  BY <1>15, AfterPageFacts
<1>7. \A x \in page : stamp[x] >= n /\ stamp[x] \in Nat
  BY <1>2 DEF StreamInv
<1>8. Newest(page) <= n => page \in SUBSET At(n)
  BY <1>1, <1>5, <1>7 DEF At
<1>9. Full(page) => page # {}
  BY FS_EmptySet DEF Full
<1>10. Full(page) => r.first <= Cardinality(At(r.next))
  <2>1. CASE Newest(page) > n
    BY <2>1, <1>6, AtFinite
  <2>2. CASE ~(Newest(page) > n)
    <3>1. skipped \cap page = {} /\ skipped \cup page \in SUBSET At(n)
      BY <1>1, <1>2, <1>3, <1>5, <1>8, <2>2
    <3>2. IsFiniteSet(skipped)
      BY <1>3, AtFinite, FS_Subset
    <3>3. Cardinality(skipped \cup page) = f + Cardinality(page)
      <4>1. Cardinality(skipped \cup page) = Cardinality(skipped) + Cardinality(page) - Cardinality(skipped \cap page)
        BY <1>4, <3>2, FS_Union
      <4>2. Cardinality(skipped \cap page) = 0
        BY <3>1, FS_EmptySet
      <4> QED BY <4>1, <4>2, <1>1, <1>3, <1>4
    <3>4. Cardinality(skipped \cup page) <= Cardinality(At(n))
      BY <3>1, AtFinite, FS_Subset
    <3> QED BY <3>3, <3>4, <1>6, <2>2
  <2> QED BY <2>1, <2>2
<1>11. ASSUME NEW e \in visible \ page, ReadFrom(e, n, f)
       PROVE  Full(page) /\ ReadFrom(e, r.next, r.first) /\ stamp[e] >= Newest(page)
  <2>1. stamp[e] \in Nat /\ stamp[e] >= n /\ e \in found
    BY <1>1, <1>11 DEF ReadFrom, StreamInv
  <2>2. e \notin skipped
    <3> SUFFICES ASSUME e \in skipped PROVE FALSE
      OBVIOUS
    <3>1. stamp[e] = n
      BY <1>3 DEF At
    <3>2. f = 0
      BY <1>1, <1>11, <3>1, <2>1 DEF ReadFrom
    <3>3. IsFiniteSet(skipped)
      BY <1>3, AtFinite, FS_Subset
    <3> QED BY <1>3, <3>2, <3>3, FS_EmptySet
  <2>3. e \in found \ (skipped \cup page)
    BY <2>1, <2>2
  <2>4. \A x \in page : stamp[x] <= stamp[e]
    BY <1>2, <2>3 DEF NotAfter
  <2>5. stamp[e] >= Newest(page)
    <3>1. CASE page = {}
      BY <3>1, <2>1 DEF Newest
    <3>2. CASE page # {}
      BY <3>2, <1>5, <2>4, <2>1
    <3> QED BY <3>1, <3>2
  <2>6. Full(page)
    <3> DEFINE rest == found \ skipped
    <3>1. IsFiniteSet(rest) /\ Cardinality(rest) \in Nat
      <4>1. rest \in SUBSET visible
        OBVIOUS
      <4> HIDE DEF rest
      <4> QED BY <4>1, FS_Subset, FS_CardinalityType DEF StreamInv
    <3>2. page \in SUBSET rest /\ page # rest
      BY <1>2, <2>3
    <3>3. Cardinality(page) # Cardinality(rest)
      <4> HIDE DEF rest
      <4> QED BY <3>1, <3>2, FS_Subset
    <3> QED BY <1>2, <3>3 DEF Full, Least
  <2>7. CASE Newest(page) > n
    BY <2>7, <1>6, <2>5, <2>6, <2>1, <1>5 DEF ReadFrom
  <2>8. CASE ~(Newest(page) > n)
    <3>1. page \in SUBSET At(n)
      BY <2>8, <1>1, <1>5, <1>8
    <3>2. stamp[e] # n
      <4> SUFFICES ASSUME stamp[e] = n PROVE FALSE
        OBVIOUS
      <4>1. page \cup {e} \in SUBSET At(n)
        BY <3>1 DEF At
      <4>2. Cardinality(page \cup {e}) = Cardinality(page) + 1
        BY <1>4, FS_AddElement
      <4>3. Cardinality(page \cup {e}) <= Cardinality(At(n))
        BY <4>1, AtFinite, FS_Subset
      <4> QED BY <4>2, <4>3, <2>6, AtFinite DEF Full
    <3> QED BY <2>1, <2>5, <2>6, <2>8, <3>2, <1>1, <1>6 DEF ReadFrom
  <2> QED BY <2>5, <2>6, <2>7, <2>8
<1>12. /\ r \in Reads
       /\ r.next > pos.next \/ (r.next = pos.next /\ r.first >= pos.first)
       /\ r.newest >= pos.newest /\ (pos.newest <= pos.next => r.newest <= r.next)
  BY <1>15, AfterPageFacts
<1> QED BY <1>10, <1>11, <1>12, <1>15 DEF Continues

-----------------------------------------------------------------------------
(* EventCursor: the walk by date.                                            *)

LEMMA NewerFinite ==
  ASSUME StreamInv, NEW e
  PROVE  IsFiniteSet(Newer(e)) /\ Cardinality(Newer(e)) \in Nat
<1>1. Newer(e) \in SUBSET visible
  BY DEF Newer
<1> QED BY <1>1, FS_Subset, FS_CardinalityType DEF StreamInv

\* Where no walk is under way, none is behind.
LEMMA NoWalkInv == TypeOK /\ StreamInv /\ walk = NoWalk => WalkInv
<1> SUFFICES ASSUME StreamInv, walk = NoWalk PROVE WalkInv
  OBVIOUS
<1>1. walk.page = 0 /\ walk.got = {} /\ 0 * PageSize = 0
  BY DEF NoWalk
<1>2. \A e : Behind(e)
  BY <1>1, NewerFinite DEF Behind
<1> QED BY <1>1, <1>2 DEF WalkInv

LEMMA NoWalkInvNext == TypeOK' /\ StreamInv' /\ walk' = NoWalk => WalkInv'
<1>1. NoWalk' = NoWalk
  BY DEF NoWalk
<1>2. (TypeOK /\ StreamInv /\ walk = NoWalk)' => WalkInv'
  BY NoWalkInv, PTL
<1> QED BY <1>1, <1>2

\* The events one more page adds.
Added(batch) == walk.got \cup {e \in batch : stamp[e] >= pos.next}

\* A page of the walk leaves what it does not return further behind, and then it
\* was full and did not reach past the start of the read.
LEMMA WalkStep ==
  ASSUME TypeOK, StreamInv, WalkInv, NEW batch \in SUBSET visible, IsDatePage(batch, walk.page)
  PROVE  /\ Added(batch) \in SUBSET visible /\ \A x \in Added(batch) : stamp[x] >= pos.next
         /\ \A e \in visible \ Added(batch) : stamp[e] >= pos.next =>
              \/ NextSweepReads(e) \/ \E x \in Added(batch) : stamp[x] = stamp[e]
              \/ /\ \A x \in Added(batch) : stamp[x] > stamp[e]
                 /\ (walk.page + 1) * PageSize <= Cardinality(Newer(e))
                 /\ Full(batch) /\ \A x \in batch : stamp[x] >= pos.next
<1>1. walk.page \in Nat /\ walk.got \in SUBSET visible /\ pos.next \in Int
  BY DEF TypeOK
<1>2. Added(batch) \in SUBSET visible /\ \A x \in Added(batch) : stamp[x] >= pos.next
  BY <1>1 DEF Added, WalkInv
<1>3. PICK newer \in SUBSET visible :
        /\ Cardinality(newer) = Least(walk.page * PageSize, Cardinality(visible))
        /\ batch \subseteq visible \ newer
        /\ Cardinality(batch) = Least(PageSize, Cardinality(visible \ newer))
        /\ NotAfter(visible \ newer, newer)
        /\ NotAfter(visible \ (newer \union batch), batch)
  BY DEF IsDatePage
<1>4. /\ IsFiniteSet(newer) /\ Cardinality(newer) \in Nat
      /\ IsFiniteSet(batch) /\ Cardinality(batch) \in Nat
      /\ IsFiniteSet(visible) /\ Cardinality(visible) \in Nat
      /\ IsFiniteSet(visible \ newer) /\ Cardinality(visible \ newer) \in Nat
  BY <1>3, FS_Subset, FS_CardinalityType DEF StreamInv
<1>5. \A a, b \in Nat : a * b \in Nat /\ (a + 1) * b = a * b + b
  OBVIOUS
<1>6. ASSUME NEW e \in visible, e \notin Added(batch), stamp[e] >= pos.next, ~NextSweepReads(e),
             \A x \in Added(batch) : stamp[x] # stamp[e]
      PROVE  /\ \A x \in Added(batch) : stamp[x] > stamp[e]
             /\ (walk.page + 1) * PageSize <= Cardinality(Newer(e))
             /\ Full(batch) /\ \A x \in batch : stamp[x] >= pos.next
  <2> DEFINE k == walk.page * PageSize
  <2>1. \A x \in visible : stamp[x] \in Nat
    BY DEF StreamInv
  <2>2. e \notin walk.got /\ e \notin batch /\ Behind(e)
    BY <1>6 DEF Added, WalkInv
  <2>3. k \in Nat /\ k <= Cardinality(Newer(e)) /\ (walk.page + 1) * PageSize = k + PageSize
    BY <1>1, <1>5, <2>2 DEF Behind
  <2>4. IsFiniteSet(Newer(e)) /\ Cardinality(Newer(e)) \in Nat
    BY NewerFinite
  <2>17. Cardinality(newer) = Least(k, Cardinality(visible))
    BY <1>3
  <2> HIDE DEF k
  <2>5. Cardinality(newer) <= k
    BY <1>4, <2>3, <2>17 DEF Least
  <2>6. e \notin newer
    <3> SUFFICES ASSUME e \in newer PROVE FALSE
      OBVIOUS
    <3>1. Newer(e) \cup {e} \in SUBSET newer
      BY <1>3, <2>1 DEF Newer, NotAfter
    <3>2. Cardinality(Newer(e) \cup {e}) = Cardinality(Newer(e)) + 1
      <4>1. e \notin Newer(e)
        BY <2>1 DEF Newer
      <4> QED BY <2>4, <4>1, FS_AddElement
    <3>3. Cardinality(Newer(e) \cup {e}) <= Cardinality(newer)
      BY <1>4, <3>1, FS_Subset
    <3> QED BY <1>4, <2>3, <2>4, <2>5, <3>2, <3>3
  <2>7. Full(batch)
    <3>1. batch \in SUBSET (visible \ newer) /\ batch # visible \ newer
      BY <1>3, <2>2, <2>6
    <3>2. Cardinality(batch) # Cardinality(visible \ newer)
      BY <1>4, <3>1, FS_Subset
    <3> QED BY <1>3, <1>4, <3>2 DEF Full, Least
  <2>8. \A x \in newer \cup batch : stamp[e] <= stamp[x]
    BY <1>3, <2>2, <2>6 DEF NotAfter
  <2>9. \A x \in batch : stamp[x] >= pos.next
    BY <1>1, <1>6, <2>1, <2>8
  <2>10. \A x \in batch : stamp[x] > stamp[e]
    BY <1>6, <2>1, <2>8, <2>9 DEF Added
  <2>11. \A x \in newer : stamp[x] > stamp[e]
    <3>1. batch # {}
      BY <2>7, FS_EmptySet DEF Full
    <3>2. PICK b \in batch : TRUE
      BY <3>1
    <3>3. \A x \in newer : stamp[b] <= stamp[x]
      BY <1>3 DEF NotAfter
    <3> QED BY <2>1, <2>10, <3>3
  <2>12. newer \cup batch \in SUBSET Newer(e)
    BY <2>10, <2>11 DEF Newer
  <2>13. Cardinality(newer \cup batch) = Cardinality(newer) + Cardinality(batch)
    <3>1. newer \cap batch = {} /\ Cardinality({}) = 0
      BY <1>3, FS_EmptySet
    <3> QED BY <1>4, <3>1, FS_Union
  <2>14. Cardinality(newer \cup batch) <= Cardinality(Newer(e))
    BY <2>4, <2>12, FS_Subset
  <2>15. Cardinality(newer) = k
    <3>1. Cardinality(newer) # Cardinality(visible)
      BY <1>4, <2>6, FS_Subset
    <3> QED BY <2>17, <3>1 DEF Least
  <2>16. \A x \in Added(batch) : stamp[x] > stamp[e]
    BY <2>2, <2>10 DEF Added, Behind
  <2> QED BY <2>3, <2>7, <2>9, <2>13, <2>14, <2>15, <2>16 DEF Full
<1> QED BY <1>2, <1>6

\* A walk that ends continues the read: what it left out is read by the next sweep
\* or was passed over.
LEMMA WalkRead ==
  ASSUME TypeOK, StreamInv, WalkInv, pos.first <= Cardinality(At(pos.next)),
         NEW batch \in SUBSET visible, IsDatePage(batch, walk.page),
         NEW reached \in BOOLEAN, reached <=> ~Full(batch) \/ \E e \in batch : stamp[e] < pos.next,
         NEW skipped \in SUBSET Added(batch), Skips(skipped, Added(batch)),
         PassedOver(Added(batch), skipped, ~reached) \in SUBSET missed',
         NEW r, r = AfterPage(Added(batch) \ skipped)
  PROVE  Continues(Added(batch) \ skipped, FALSE, r)
<1> DEFINE got == Added(batch)
           page == got \ skipped
<1>1. got \in SUBSET visible /\ \A x \in got : stamp[x] >= pos.next
  BY WalkStep
<1>2. page \in SUBSET visible /\ \A x \in page : stamp[x] >= pos.next
  BY <1>1
<1>3. /\ r \in Reads
      /\ r.next > pos.next \/ (r.next = pos.next /\ r.first >= pos.first)
      /\ r.newest >= pos.newest /\ (pos.newest <= pos.next => r.newest <= r.next)
  <2> HIDE DEF page
  <2>1. r = AfterPage(page)
    BY DEF page
  <2> QED BY <1>2, <2>1, AfterPageFacts
<1>4. pos.next \in Int /\ pos.first \in Nat
  BY DEF TypeOK
<1>5. \A x \in visible : stamp[x] \in Nat
  BY DEF StreamInv
<1>6. ASSUME NEW e \in visible, e \notin page, e \notin seen, ReadFrom(e, pos.next, pos.first),
             ~NextSweepReads(e)
      PROVE  e \in PassedOver(got, skipped, ~reached)
  <2>1. stamp[e] >= pos.next
    BY <1>4, <1>5, <1>6 DEF ReadFrom
  <2>2. CASE e \in skipped
    <3>1. ASSUME At(pos.next) \in SUBSET got
          PROVE  FALSE
      <4>1. Cardinality(skipped) <= pos.first /\ NotAfter(skipped, got \ skipped)
        BY DEF Skips
      <4> HIDE DEF got
      <4>2. skipped \in SUBSET At(pos.next)
        BY <1>1, <1>4, <3>1, <4>1, SkippedHasTime DEF got
      <4>3. pos.first = 0
        BY <1>4, <1>6, <2>2, <4>2 DEF ReadFrom, At
      <4>4. IsFiniteSet(skipped) /\ Cardinality(skipped) \in Nat
        BY <4>2, AtFinite, FS_Subset, FS_CardinalityType
      <4>5. Cardinality(skipped) = 0
        BY <4>1, <4>3, <4>4
      <4> QED BY <2>2, <4>4, <4>5, FS_EmptySet
    <3>2. \E x \in visible \ got : stamp[x] = pos.next
      BY <3>1 DEF At
    <3> QED BY <1>6, <2>2, <3>2 DEF PassedOver
  <2>3. CASE e \notin skipped
    <3>1. e \notin got
      BY <1>6, <2>3
    <3>2. CASE \E x \in got : stamp[x] = stamp[e]
      BY <1>6, <2>1, <3>1, <3>2 DEF PassedOver
    <3>3. CASE ~\E x \in got : stamp[x] = stamp[e]
      <4>1. /\ \A x \in got : stamp[x] > stamp[e]
            /\ Full(batch) /\ \A x \in batch : stamp[x] >= pos.next
        BY <1>6, <2>1, <3>1, <3>3, WalkStep
      <4>2. ~reached
        BY <4>1, <1>4, <1>5
      <4>3. \A x \in got : stamp[e] < stamp[x]
        BY <1>1, <1>5, <4>1
      <4> QED BY <1>6, <2>1, <3>1, <4>2, <4>3 DEF PassedOver
    <3> QED BY <3>2, <3>3
  <2> QED BY <2>2, <2>3
<1> HIDE DEF page
<1>7. \A e \in visible \ (page \cup seen) : ReadFrom(e, pos.next, pos.first) =>
        NextSweepReads(e) \/ e \in missed'
  BY <1>6
<1>8. Continues(page, FALSE, r)
  BY <1>2, <1>3, <1>7 DEF Continues
<1> QED BY <1>8 DEF page

-----------------------------------------------------------------------------
(* EventCursor: the cursor's operations.                                     *)

Cursors == [since : Int, last : Int, sweeping : BOOLEAN, from : Int, first : Nat]

\* The start of a day is not after the times of the day.
LEMMA FloorBefore ==
  ASSUME NEW t \in Int
  PROVE  Floor(t) \in Int /\ Floor(t) <= t
<1>1. t - Lookback \in Int /\ Day \in Nat \ {0}
  OBVIOUS
<1>2. ASSUME NEW a \in Int, NEW d \in Nat \ {0}
      PROVE  (a \div d) * d \in Int /\ (a \div d) * d <= a
  OBVIOUS
<1>3. Floor(t) \in Int /\ Floor(t) <= t - Lookback
  BY <1>1, <1>2 DEF Floor
<1> QED BY <1>3

\* A new cursor sweeps from the floor and polls from shortly before now.
LEMMA NewCursorFacts ==
  ASSUME NEW t \in Int
  PROVE  /\ NewCursor(t) \in Cursors
         /\ NewCursor(t).since <= t /\ NewCursor(t).since >= t - Overlap
         /\ NewCursor(t).last = t /\ NewCursor(t).sweeping
         /\ NewCursor(t).from = Floor(t) /\ NewCursor(t).first = 0
<1> DEFINE since == IF t - Overlap < Floor(t) THEN Floor(t) ELSE t - Overlap
<1>1. NewCursor(t) = [since |-> since, last |-> t, sweeping |-> TRUE, from |-> Floor(t), first |-> 0]
  BY DEF NewCursor
<1>2. since \in Int /\ since <= t /\ since >= t - Overlap /\ Floor(t) \in Int
  BY FloorBefore
<1> HIDE DEF since
<1> QED BY <1>1, <1>2 DEF Cursors

LEMMA StartTimeNat == StartTime \in Nat /\ StartTime >= Overlap /\ StartTime >= LateWindow
BY DEF StartTime

LEMMA NoCursorFacts == NoCursor \in Cursors /\ NoCursor.since >= 0 /\ NoCursor.first = 0
<1>1. StartTime \in Int
  BY StartTimeNat
<1>2. /\ NewCursor(StartTime) \in Cursors
      /\ NewCursor(StartTime).since >= StartTime - Overlap /\ NewCursor(StartTime).first = 0
  BY <1>1, NewCursorFacts
<1>3. NewCursor(StartTime).since \in Int
  BY <1>2 DEF Cursors
<1> QED BY <1>1, <1>2, <1>3, StartTimeNat DEF NoCursor

\* A sweep that starts covers what the last one promised.
LEMMA SweepStartFacts ==
  ASSUME NEW c \in Cursors, NEW t \in Int
  PROVE  /\ SweepStart(c, t) \in Int /\ SweepStart(c, t) <= c.last - LateWindow - Margin
         /\ c.last <= t => SweepStart(c, t) = c.last - LateWindow - Margin
<1>1. c.last \in Int
  BY DEF Cursors
<1> QED BY <1>1 DEF SweepStart, SweepAnchor, Least

\* A cursor that sweeps goes on with that sweep.
LEMMA StartSweepFacts ==
  ASSUME NEW c \in Cursors, NEW t \in Int, StartSweepIfDue(c, t) # c
  PROVE  /\ ~c.sweeping
         /\ StartSweepIfDue(c, t) =
              [since |-> c.since, last |-> t, sweeping |-> TRUE, from |-> SweepStart(c, t), first |-> 0]
<1>1. ~c.sweeping
  BY DEF StartSweepIfDue
<1>2. StartSweepIfDue(c, t) =
        [c EXCEPT !.sweeping = TRUE, !.from = SweepStart(c, t), !.first = 0, !.last = t]
  BY DEF StartSweepIfDue
<1> QED BY <1>1, <1>2 DEF Cursors

\* The cursor only moves forward, and not past the poll's newest event or now.
LEMMA AdvanceFacts ==
  ASSUME NEW c \in Cursors, NEW newest \in Int, NEW complete \in BOOLEAN, NEW t \in Int
  PROVE  \/ Advance(c, newest, complete, t) = c
         \/ \E next \in Int :
              /\ next > c.since /\ next <= newest /\ next <= t
              /\ Advance(c, newest, complete, t) = [c EXCEPT !.since = next]
<1> DEFINE next == Least(newest, t) - (IF complete THEN Overlap ELSE 0)
<1>1. next \in Int /\ next <= newest /\ next <= t
  BY DEF Least
<1>2. \/ Advance(c, newest, complete, t) = c
      \/ next > c.since /\ Advance(c, newest, complete, t) = [c EXCEPT !.since = next]
  BY DEF Advance
<1> HIDE DEF next
<1> QED BY <1>1, <1>2

\* Processing settles the batch, and keeps settled what was.
LEMMA Processed ==
  ASSUME TypeOK, StreamInv, NEW batch \in SUBSET visible, NEW failed \in SUBSET batch,
         Process(batch, failed, retry)
  PROVE  /\ retry' \in SUBSET visible /\ Cardinality(retry') <= MaxRetries
         /\ stored' \in SUBSET visible /\ dropped' \in SUBSET visible
         /\ \A e : e \in batch \/ Handled(e) => Handled(e)'
<1>1. PICK over \in SUBSET (retry \union failed) :
        /\ IF Cardinality(retry \union failed) > MaxRetries
             THEN Cardinality((retry \union failed) \ over) = MaxRetries
             ELSE over = {}
        /\ retry' = (retry \union failed) \ over
        /\ dropped' = dropped \union over
  BY DEF Process, QueueRetries
<1>2. retry \cup failed \in SUBSET visible
  BY DEF TypeOK
<1>3. Cardinality(retry \cup failed) \in Nat
  BY <1>2, FS_Subset, FS_CardinalityType DEF StreamInv
<1>4. Cardinality(retry') <= MaxRetries
  <2>1. CASE Cardinality(retry \union failed) > MaxRetries
    BY <1>1, <2>1
  <2>2. CASE ~(Cardinality(retry \union failed) > MaxRetries)
    <3>1. retry' = retry \cup failed
      BY <1>1, <2>2
    <3> QED BY <1>3, <2>2, <3>1
  <2> QED BY <2>1, <2>2
<1>5. stored' = stored \cup (batch \ failed)
  BY DEF Process
<1>6. retry' \in SUBSET visible /\ stored' \in SUBSET visible /\ dropped' \in SUBSET visible
  BY <1>1, <1>2, <1>5 DEF TypeOK
<1>7. \A e : e \in batch \/ Handled(e) => Handled(e)'
  BY <1>1, <1>5 DEF Handled
<1> QED BY <1>4, <1>6, <1>7

-----------------------------------------------------------------------------
(* EventCursor: the invariant holds at first and is preserved.               *)

LEMMA InitInv == Init => IInv
<1> SUFFICES ASSUME Init PROVE IInv
  OBVIOUS
<1>1. StartTime \in Nat /\ StartTime >= Overlap
  BY StartTimeNat
<1>2. cur \in Cursors /\ cur.since >= 0 /\ cur.first = 0
  BY NoCursorFacts DEF Init
<1>3. IsFiniteSet({}) /\ Cardinality({}) = 0
  BY FS_EmptySet
<1>4. \A s : At(s) = {}
  BY DEF Init, At
<1>5. TypeOK
  <2>1. pos \in [next : Int, first : Nat, page : Nat, newest : Int]
    BY DEF Init, NoRead, StartRead
  <2>2. cur \in [since : Int, last : Int, sweeping : BOOLEAN, from : Int, first : Nat]
    BY <1>2 DEF Cursors
  <2>3. Cardinality(retry) <= MaxRetries
    BY <1>3 DEF Init
  <2>4. time \in Nat /\ now \in Int /\ stamp \in [Events -> Int]
    BY <1>1 DEF Init
  <2>5. alive \in BOOLEAN /\ back \in BOOLEAN
    BY Zenon DEF Init
  <2>6. visible \in SUBSET Events /\ pc \in {"idle", "sweep", "poll"} /\ seen \in SUBSET visible
    BY DEF Init
  <2>7. \A s \in {retry, stored, dropped, missed, ever, twice} : s \in SUBSET visible
    BY DEF Init
  <2>8. walk \in [page : 0 .. DatePages - 1, got : SUBSET visible]
    BY DEF Init, NoWalk
  <2> QED BY <2>1, <2>2, <2>3, <2>4, <2>6, <2>7, <2>5, <2>8 DEF TypeOK
<1>6. StreamInv
  BY <1>1, <1>3 DEF Init, StreamInv
<1>7. ClockInv /\ NoCursorInv /\ PollPosInv
  BY <1>2 DEF Init, ClockInv, NoCursorInv, PollPosInv
<1>8. SweepPosInv
  BY <1>2, <1>3, <1>4 DEF Init, SweepPosInv
<1>10. WalkInv
  BY <1>5, <1>6, NoWalkInv DEF Init
<1>9. LostInv /\ SeenInv /\ ProcessedOnce
  BY DEF Init, LostInv, SeenInv, ProcessedOnce
<1> QED BY <1>5, <1>6, <1>7, <1>8, <1>9, <1>10 DEF IInv

LEMMA TickInv == ASSUME IInv, Tick PROVE IInv'
<1> USE DEF IInv
<1>1. UNCHANGED <<visible, stamp, alive, cur, seen, retry, pc, now, pos, walk, hist>> /\ time' = time + 1
  BY DEF Tick
<1>2. time \in Nat /\ cur \in Cursors
  BY DEF TypeOK, Cursors
<1>3. \A s : At(s)' = At(s)
  BY <1>1 DEF At
<1>4. TypeOK'
  BY <1>1, <1>2 DEF TypeOK, hist
<1>5. StreamInv'
  <2>1. time >= StartTime /\ StartTime \in Nat
    BY StartTimeNat DEF StreamInv
  <2>2. \A e \in visible : stamp[e] \in Nat /\ stamp[e] <= time + Ahead
    BY DEF StreamInv
  <2>3. \A e \in visible : stamp[e] <= time + 1 + Ahead
    BY <1>2, <2>2
  <2>4. time + 1 >= StartTime
    BY <1>2, <2>1
  <2> QED BY <1>1, <1>3, <2>2, <2>3, <2>4 DEF StreamInv
<1>6. ClockInv'
  BY <1>1, <1>2 DEF ClockInv, hist, Cursors
<1>7. NoCursorInv' /\ PollPosInv' /\ SweepPosInv'
  BY <1>1, <1>3 DEF NoCursorInv, PollPosInv, SweepPosInv, hist
<1>8. LostInv' /\ SeenInv' /\ ProcessedOnce'
  BY <1>1 DEF LostInv, SeenInv, ProcessedOnce, Handled, WillRead, PollReads, SweepReads,
              NextSweepReads, MayReturn, ReadFrom, hist
<1>9. WalkInv'
  BY <1>1 DEF WalkInv, Behind, Newer, NextSweepReads, hist
<1> QED BY <1>4, <1>5, <1>6, <1>7, <1>8, <1>9

LEMMA CommitInv == ASSUME IInv, NEW e \in Events, NEW s \in Int, Commit(e, s) PROVE IInv'
<1> USE DEF IInv
<1>1. /\ UNCHANGED <<time, alive, cur, seen, retry, pc, now, pos, walk, hist>>
      /\ e \notin visible /\ visible' = visible \cup {e} /\ stamp' = [stamp EXCEPT ![e] = s]
      /\ s \in (time - LateWindow) .. (time + Ahead) /\ Cardinality(At(s)) < PageSize
  BY DEF Commit, At
<1>2. time \in Nat /\ cur \in Cursors /\ pos.next \in Int /\ pos.first \in Nat
  BY DEF TypeOK, Cursors
<1>3. stamp'[e] = s /\ \A x \in visible : stamp'[x] = stamp[x]
  BY <1>1 DEF TypeOK
<1>4. \A q : At(q)' = IF q = s THEN At(q) \cup {e} ELSE At(q)
  BY <1>1, <1>3 DEF At
<1>5. \A q : e \notin At(q) /\ IsFiniteSet(At(q)) /\ Cardinality(At(q)) \in Nat /\ Cardinality(At(q)) <= PageSize
  BY <1>1, AtFinite DEF At
<1>6. \A q : Cardinality(At(q)') = IF q = s THEN Cardinality(At(q)) + 1 ELSE Cardinality(At(q))
  <2>1. \A q : Cardinality(At(q) \cup {e}) = Cardinality(At(q)) + 1
    BY <1>5, FS_AddElement
  <2> QED BY <1>4, <2>1
<1>7. s \in Nat /\ s <= time + Ahead /\ s >= time - LateWindow
  BY <1>1, <1>2, StartTimeNat DEF StreamInv
<1>8. TypeOK'
  BY <1>1 DEF TypeOK, hist
<1>9. StreamInv'
  <2>1. IsFiniteSet(visible')
    BY <1>1, FS_AddElement DEF StreamInv
  <2>2. \A x \in visible' : stamp'[x] \in Nat /\ stamp'[x] <= time' + Ahead
    BY <1>1, <1>3, <1>7 DEF StreamInv
  <2>3. \A q : Cardinality(At(q)') <= PageSize
    <3>1. Cardinality(At(s)) + 1 <= PageSize
      BY <1>1, <1>5
    <3> QED BY <3>1, <1>5, <1>6
  <2>4. \A x \in visible' : Cardinality({y \in visible' : stamp'[y] = stamp'[x]}) <= PageSize
    BY <2>3 DEF At
  <2> QED BY <1>1, <2>1, <2>2, <2>4 DEF StreamInv, At
<1>10. ClockInv' /\ NoCursorInv'
  BY <1>1 DEF ClockInv, NoCursorInv, hist
<1>11. \A q : Cardinality(At(q)) <= Cardinality(At(q)')
  BY <1>5, <1>6
<1>12. \A q, i : i \in Nat /\ i <= Cardinality(At(q)) => i <= Cardinality(At(q)')
  BY <1>5, <1>6
<1>13. SweepPosInv' /\ PollPosInv'
  <2> DEFINE AtNext(q) == {x \in visible' : stamp'[x] = q}
  <2>1. \A q, i : i \in Nat /\ i <= Cardinality(At(q)) => i <= Cardinality(AtNext(q))
    BY <1>12 DEF At
  <2>2. cur.sweeping => cur.first <= Cardinality(AtNext(cur.from))
    <3> HIDE DEF AtNext
    <3> QED BY <1>2, <2>1 DEF SweepPosInv, Cursors
  <2>3. pc \in {"sweep", "poll"} => pos.first <= Cardinality(AtNext(pos.next))
    <3> HIDE DEF AtNext
    <3> QED BY <1>2, <2>1 DEF SweepPosInv, PollPosInv
  <2>4. cur' = cur /\ pos' = pos /\ pc' = pc
    BY <1>1
  <2>5. SweepPosInv'
    BY <2>2, <2>3, <2>4 DEF SweepPosInv, At
  <2>6. PollPosInv'
    BY <2>3, <2>4 DEF PollPosInv, At
  <2> QED BY <2>5, <2>6
<1>14. LostInv'
  <2> SUFFICES ASSUME alive, NEW x \in visible' \ missed' PROVE Handled(x)' \/ WillRead(x)'
    BY <1>1 DEF LostInv
  <2>1. CASE x = e
    <3>1. cur.last \in Int /\ cur.last <= time + Skew
      BY <1>2 DEF ClockInv, Cursors
    <3>2. s >= cur.last - LateWindow - Margin
      BY <1>2, <1>7, <3>1
    <3>3. e \notin seen
      BY <1>1 DEF TypeOK
    <3> QED BY <1>1, <1>3, <2>1, <3>2, <3>3 DEF WillRead, NextSweepReads
  <2>2. CASE x # e
    <3>1. x \in visible \ missed /\ stamp'[x] = stamp[x]
      BY <1>1, <1>3, <2>2 DEF hist
    <3> QED BY <1>1, <3>1 DEF LostInv, Handled, WillRead, PollReads, SweepReads, NextSweepReads,
                              ReadFrom, hist
  <2> QED BY <2>1, <2>2
<1>15. SeenInv'
  <2>1. \A x \in ever : stamp'[x] = stamp[x]
    BY <1>3 DEF TypeOK
  <2> QED BY <1>1, <2>1 DEF SeenInv, MayReturn, hist
<1>16. ProcessedOnce'
  BY <1>1 DEF ProcessedOnce, hist
<1>17. WalkInv'
  <2>1. walk' = walk /\ pos' = pos /\ pc' = pc /\ cur' = cur
    BY <1>1
  <2>2. walk.got \in SUBSET visible /\ walk.page * PageSize \in Int
    BY DEF TypeOK
  <2>3. \A x \in walk.got : stamp'[x] = stamp[x]
    BY <1>3, <2>2
  <2>6. CASE walk = NoWalk
    BY <1>8, <1>9, <2>1, <2>6, NoWalkInvNext
  <2> SUFFICES ASSUME walk # NoWalk PROVE WalkInv'
    BY <2>6
  <2>7. alive
    BY DEF NoCursorInv, WalkInv
  <2>4. \A x \in walk'.got : stamp'[x] >= pos'.next
    BY <2>1, <2>3 DEF WalkInv
  <2>5. ASSUME NEW x \in visible' \ walk'.got, stamp'[x] >= pos'.next
        PROVE  NextSweepReads(x)' \/ (\E y \in walk'.got : stamp'[y] = stamp'[x]) \/ Behind(x)'
    <3>1. CASE x = e
      <4>1. cur.last \in Int /\ cur.last <= time + Skew
        BY <1>2, <2>7 DEF ClockInv, Cursors
      <4>2. s >= cur.last - LateWindow - Margin
        BY <1>2, <1>7, <4>1
      <4> QED BY <1>3, <2>1, <3>1, <4>2 DEF NextSweepReads
    <3>2. CASE x # e
      <4>1. x \in visible \ walk.got /\ stamp'[x] = stamp[x] /\ stamp[x] >= pos.next
        BY <1>1, <1>3, <2>1, <2>5, <3>2
      <4>2. NextSweepReads(x) \/ (\E y \in walk.got : stamp[y] = stamp[x]) \/ Behind(x)
        BY <4>1 DEF WalkInv
      <4>3. NextSweepReads(x) => NextSweepReads(x)'
        BY <2>1, <4>1 DEF NextSweepReads
      <4>4. (\E y \in walk.got : stamp[y] = stamp[x]) => \E y \in walk'.got : stamp'[y] = stamp'[x]
        BY <2>1, <2>3, <4>1
      <4>5. ASSUME Behind(x) PROVE Behind(x)'
        <5> DEFINE N == {y \in visible' : stamp'[y] > stamp'[x]}
        <5>1. Newer(x) \in SUBSET N /\ N \in SUBSET visible'
          BY <1>1, <1>3, <4>1 DEF Newer
        <5>2. IsFiniteSet(visible')
          BY <1>9 DEF StreamInv
        <5> HIDE DEF N
        <5>3. IsFiniteSet(N) /\ Cardinality(N) \in Nat
          BY <5>1, <5>2, FS_Subset, FS_CardinalityType
        <5>4. Cardinality(Newer(x)) <= Cardinality(N) /\ Cardinality(Newer(x)) \in Nat
          BY <5>1, <5>3, FS_Subset, FS_CardinalityType
        <5>5. walk.page * PageSize <= Cardinality(N)
          BY <2>2, <4>5, <5>3, <5>4 DEF Behind
        <5>6. \A y \in walk'.got : stamp'[y] > stamp'[x]
          BY <2>1, <2>3, <4>1, <4>5 DEF Behind
        <5> QED BY <2>1, <5>5, <5>6 DEF Behind, Newer, N
      <4> QED BY <4>2, <4>3, <4>4, <4>5
    <3> QED BY <3>1, <3>2
  <2> QED BY <2>1, <2>4, <2>5 DEF WalkInv
<1> QED BY <1>8, <1>9, <1>10, <1>13, <1>14, <1>15, <1>16, <1>17

LEMMA RestartInv == ASSUME IInv, Restart PROVE IInv'
<1> USE DEF IInv
<1>1. /\ UNCHANGED <<time, visible, stamp, now, stored, dropped, missed, twice, back>>
      /\ ~alive' /\ pc' = "idle" /\ seen' = {} /\ retry' = {} /\ ever' = {}
      /\ cur' = NoCursor /\ pos' = NoRead /\ walk' = NoWalk
  BY DEF Restart, env
<1>2. cur' \in Cursors /\ cur'.since >= 0 /\ cur'.first = 0
  BY <1>1, NoCursorFacts
<1>3. \A q : At(q)' = At(q)
  BY <1>1 DEF At
<1>4. TypeOK'
  <2>1. pos' \in [next : Int, first : Nat, page : Nat, newest : Int]
    BY <1>1 DEF NoRead, StartRead
  <2>2. cur' \in [since : Int, last : Int, sweeping : BOOLEAN, from : Int, first : Nat]
    BY <1>2 DEF Cursors
  <2>3. Cardinality(retry') <= MaxRetries /\ alive' = FALSE
    BY <1>1, FS_EmptySet DEF Restart
  <2>4. walk' \in [page : 0 .. DatePages - 1, got : SUBSET visible']
    BY <1>1 DEF NoWalk
  <2> QED BY <1>1, <2>1, <2>2, <2>3, <2>4 DEF TypeOK
<1>5. StreamInv'
  BY <1>1, <1>3 DEF StreamInv
<1>6. ClockInv' /\ NoCursorInv' /\ LostInv' /\ SeenInv' /\ PollPosInv' /\ ProcessedOnce'
  BY <1>1, <1>2 DEF ClockInv, NoCursorInv, LostInv, SeenInv, PollPosInv, ProcessedOnce
<1>7. SweepPosInv'
  BY <1>1, <1>2, <1>3, AtFinite DEF SweepPosInv
<1>8. WalkInv'
  BY <1>1, <1>4, <1>5, NoWalkInvNext
<1> QED BY <1>4, <1>5, <1>6, <1>7, <1>8

\* A cycle begins.  What the restart before it gave up is dropped, the rest lies
\* ahead of the new cursor's sweep; a sweep that starts takes over what the last
\* one promised.
LEMMA BeginCycleInv == ASSUME IInv, BeginCycle PROVE IInv'
<1> USE DEF IInv
<1>1. PICK off \in 0 .. Skew :
        LET t == time + off
            base == IF alive THEN cur ELSE NewCursor(t)
            c == StartSweepIfDue(base, t)
            expired == Expired(t)
            unread == IF alive THEN {}
                      ELSE {e \in visible \ stored : stamp[e] < Floor(t)}
        IN  /\ now' = t
            /\ back' = (back \/ (alive /\ t < now))
            /\ cur' = c
            /\ pc' = IF c.sweeping THEN "sweep" ELSE "poll"
            /\ pos' = IF c.sweeping THEN StartRead(c.from, c.first) ELSE StartRead(c.since, 0)
            /\ \E failed \in SUBSET (retry \ expired) :
                 /\ retry' = failed
                 /\ stored' = stored \union ((retry \ expired) \ failed)
                 /\ dropped' = dropped \union expired \union unread
  BY DEF BeginCycle
<1> DEFINE t == time + off
           base == IF alive THEN cur ELSE NewCursor(t)
           unread == IF alive THEN {} ELSE {e \in visible \ stored : stamp[e] < Floor(t)}
<1>2. /\ pc = "idle" /\ alive' = TRUE
      /\ UNCHANGED <<time, visible, stamp, seen, walk, missed, ever, twice>>
  BY DEF BeginCycle, env
<1>3. /\ now' = t /\ back' = (back \/ (alive /\ t < now)) /\ cur' = StartSweepIfDue(base, t)
      /\ pc' = IF cur'.sweeping THEN "sweep" ELSE "poll"
      /\ pos' = IF cur'.sweeping THEN StartRead(cur'.from, cur'.first) ELSE StartRead(cur'.since, 0)
  BY <1>1
<1>4. PICK failed \in SUBSET (retry \ Expired(t)) :
        /\ retry' = failed
        /\ stored' = stored \union ((retry \ Expired(t)) \ failed)
        /\ dropped' = dropped \union Expired(t) \union unread
  BY <1>1
<1>5. t \in Nat /\ t >= StartTime /\ t <= time + Skew /\ StartTime \in Nat /\ StartTime >= Overlap
  BY StartTimeNat DEF TypeOK, StreamInv
<1> HIDE DEF t
<1>6. base \in Cursors /\ base.since >= 0 /\ base.last \in Int /\ base.since \in Int
  <2>1. CASE alive
    BY <2>1 DEF Cursors, TypeOK, ClockInv
  <2>2. CASE ~alive
    <3>1. NewCursor(t) \in Cursors /\ NewCursor(t).since >= t - Overlap
      BY <1>5, NewCursorFacts
    <3>2. NewCursor(t).since \in Int /\ NewCursor(t).last \in Int
      BY <3>1 DEF Cursors
    <3> QED BY <2>2, <3>1, <3>2, <1>5
  <2> QED BY <2>1, <2>2
<1>7. ~alive => /\ base.since <= t /\ base.last = t /\ base.sweeping /\ base.from = Floor(t)
                /\ base.first = 0
  BY <1>5, NewCursorFacts
<1>8. alive => base = cur
  OBVIOUS
<1> HIDE DEF base
<1>9. /\ SweepStart(base, t) \in Int /\ SweepStart(base, t) <= base.last - LateWindow - Margin
      /\ base.last <= t => SweepStart(base, t) = base.last - LateWindow - Margin
  BY <1>5, <1>6, SweepStartFacts
<1>10. cur' # base =>
         /\ ~base.sweeping
         /\ cur' = [since |-> base.since, last |-> t, sweeping |-> TRUE, from |-> SweepStart(base, t),
                    first |-> 0]
  <2>1. cur' = StartSweepIfDue(base, t) /\ base \in Cursors /\ t \in Int
    BY <1>3, <1>5, <1>6
  <2> QED BY <2>1, StartSweepFacts, Zenon
<1>11. /\ cur' \in Cursors /\ cur'.since = base.since
       /\ cur' # base => cur'.first = 0 /\ cur'.last = t /\ cur'.from <= base.last - LateWindow - Margin
       /\ cur' # base /\ base.last <= t => cur'.from = base.last - LateWindow - Margin
  <2>1. CASE cur' = base
    BY <2>1, <1>6
  <2>2. CASE cur' # base
    <3>1. cur' = [since |-> base.since, last |-> t, sweeping |-> TRUE, from |-> SweepStart(base, t),
                  first |-> 0]
      BY <2>2, <1>10
    <3>2. cur' \in Cursors
      BY <3>1, <1>5, <1>6, <1>9 DEF Cursors
    <3>3. cur'.since = base.since /\ cur'.first = 0 /\ cur'.last = t /\ cur'.from = SweepStart(base, t)
      BY <3>1
    <3> QED BY <3>2, <3>3, <1>9
  <2> QED BY <2>1, <2>2
<1>12. cur' # base => ~base.sweeping /\ cur'.sweeping
  BY <1>10
<1>13. back' \in BOOLEAN /\ (~back' => ~back /\ (alive => ~(t < now)))
  <2>1. back' = (back \/ (alive /\ t < now))
    BY <1>3
  <2> QED BY <2>1, Zenon
<1>14. cur'.from \in Int /\ cur'.since \in Int /\ cur'.first \in Nat /\ cur'.last \in Int /\ cur'.sweeping \in BOOLEAN
  BY <1>11 DEF Cursors
<1>15. \A q : At(q)' = At(q)
  BY <1>2 DEF At
<1>16. TypeOK'
  <2>1. pos' \in [next : Int, first : Nat, page : Nat, newest : Int]
    BY <1>3, <1>14 DEF StartRead
  <2>2. cur' \in [since : Int, last : Int, sweeping : BOOLEAN, from : Int, first : Nat]
    BY <1>11 DEF Cursors
  <2>3. unread \in SUBSET visible /\ Expired(t) \in SUBSET visible
    BY DEF Expired, TypeOK
  <2>4. retry' \in SUBSET visible /\ stored' \in SUBSET visible /\ dropped' \in SUBSET visible
    BY <1>4, <2>3 DEF TypeOK
  <2>5. Cardinality(retry') <= MaxRetries
    <3>1. retry' \in SUBSET retry
      BY <1>4
    <3>2. IsFiniteSet(retry) /\ Cardinality(retry) \in Nat
      BY FS_Subset, FS_CardinalityType DEF StreamInv, TypeOK
    <3>3. Cardinality(retry') <= Cardinality(retry) /\ Cardinality(retry') \in Nat
      BY <3>1, <3>2, FS_Subset, FS_CardinalityType
    <3> QED BY <3>2, <3>3 DEF TypeOK
  <2>6. now' \in Int /\ pc' \in {"idle", "sweep", "poll"} /\ back' \in BOOLEAN
    BY <1>3, <1>5, <1>13 DEF TypeOK
  <2> QED BY <1>2, <2>1, <2>2, <2>4, <2>5, <2>6 DEF TypeOK
<1>17. StreamInv'
  BY <1>2, <1>15 DEF StreamInv
<1>18. ClockInv'
  <2>1. cur'.since >= 0
    BY <1>6, <1>11
  <2>2. base.last <= time + Skew
    BY <1>5, <1>7, <1>8 DEF ClockInv
  <2>3. cur'.last <= time' + Skew
    BY <1>2, <1>5, <1>11, <2>2
  <2>4. ~back' => base.last <= t /\ base.since <= t
    <3>1. CASE ~alive
      BY <3>1, <1>5, <1>7
    <3>2. CASE alive
      <4>1. ~back' => ~back /\ t >= now
        BY <1>13, <1>5, <3>2 DEF TypeOK
      <4> QED BY <4>1, <3>2, <1>5, <1>6, <1>8 DEF ClockInv, TypeOK
    <3> QED BY <3>1, <3>2
  <2>5. ~back' => cur'.last <= now' /\ cur'.since <= now'
    BY <1>3, <1>5, <1>11, <2>4
  <2> QED BY <2>1, <2>3, <2>5 DEF ClockInv
<1>19. NoCursorInv'
  BY <1>2 DEF NoCursorInv
<1>20. cur'.sweeping => cur'.first <= Cardinality(At(cur'.from))
  <2>1. CASE cur'.first = 0
    BY <2>1, AtFinite
  <2>2. CASE cur'.first # 0
    <3>1. cur' = cur
      BY <1>7, <1>8, <1>11, <1>12, <2>2
    <3> QED BY <3>1 DEF SweepPosInv
  <2> QED BY <2>1, <2>2
<1>21. /\ pc' # "sweep" => ~cur'.sweeping
       /\ pc' = "sweep" => cur'.sweeping /\ pos'.next = cur'.from /\ pos'.first = cur'.first
       /\ pc' = "poll" => ~cur'.sweeping /\ pos'.next = cur'.since /\ pos'.first = 0 /\ pos'.newest = 0
  BY <1>3, <1>14 DEF StartRead
<1>22. SweepPosInv'
  <2>1. cur'.sweeping => cur'.first <= Cardinality({x \in visible' : stamp'[x] = cur'.from})
    BY <1>2, <1>20 DEF At
  <2> QED BY <2>1, <1>14, <1>21 DEF SweepPosInv, At
<1>23. PollPosInv'
  <2>1. 0 <= Cardinality({x \in visible' : stamp'[x] = pos'.next})
    <3>1. 0 <= Cardinality(At(pos'.next))
      BY AtFinite
    <3> QED BY <1>2, <3>1 DEF At
  <2> QED BY <2>1, <1>6, <1>11, <1>14, <1>21 DEF PollPosInv, At
<1>24. LostInv'
  <2> SUFFICES ASSUME NEW e \in visible \ missed, ~Handled(e)' PROVE WillRead(e)'
    BY <1>2 DEF LostInv
  <2>1. ~Handled(e) /\ e \notin unread
    BY <1>4 DEF Handled
  <2>2. stamp[e] \in Nat /\ stamp'[e] = stamp[e] /\ seen' = seen
    BY <1>2 DEF StreamInv
  <2>3. SweepReads(e)' <=> cur'.sweeping /\ ReadFrom(e, cur'.from, cur'.first)
    BY <1>21, <2>2 DEF SweepReads, ReadFrom
  <2>4. PollReads(e)' <=> stamp[e] >= cur'.since
    BY <1>3, <1>14, <1>21, <2>2 DEF PollReads, ReadFrom
  <2>5. CASE ~alive
    <3>1. e \notin seen
      BY <2>5 DEF NoCursorInv
    <3>2. stamp[e] >= Floor(t)
      BY <2>1, <2>2, <2>5, FloorBefore, <1>5 DEF Handled
    <3>3. cur'.sweeping /\ cur'.from = Floor(t) /\ cur'.first = 0
      BY <1>7, <1>11, <1>12, <2>5
    <3>4. ReadFrom(e, cur'.from, cur'.first)
      BY <1>14, <2>2, <3>2, <3>3 DEF ReadFrom
    <3> QED BY <2>2, <2>3, <3>1, <3>3, <3>4 DEF WillRead
  <2>6. CASE alive
    <3>1. /\ e \notin seen
          /\ \/ stamp[e] >= cur.since
             \/ cur.sweeping /\ ReadFrom(e, cur.from, cur.first)
             \/ stamp[e] >= cur.last - LateWindow - Margin
      BY <1>2, <2>1, <2>6 DEF LostInv, WillRead, PollReads, SweepReads, NextSweepReads
    <3>2. CASE stamp[e] >= cur.since
      BY <3>1, <3>2, <2>2, <2>4, <1>8, <1>11, <2>6 DEF WillRead
    <3>3. CASE cur.sweeping /\ ReadFrom(e, cur.from, cur.first)
      <4>1. cur' = cur
        BY <3>3, <1>8, <1>12, <2>6
      <4>2. ReadFrom(e, cur'.from, cur'.first)
        BY <3>3, <4>1, <2>2 DEF ReadFrom
      <4> QED BY <2>2, <2>3, <3>1, <3>3, <4>1, <4>2 DEF WillRead
    <3>4. CASE stamp[e] >= cur.last - LateWindow - Margin
      <4>1. CASE cur' = cur
        BY <4>1, <3>1, <3>4, <2>2 DEF WillRead, NextSweepReads
      <4>2. CASE cur' # cur
        <5>1. cur'.sweeping /\ cur'.first = 0 /\ cur'.from <= cur.last - LateWindow - Margin
          BY <4>2, <1>8, <1>11, <1>12, <2>6
        <5>2. cur.last \in Int
          BY DEF TypeOK
        <5>3. ReadFrom(e, cur'.from, cur'.first)
          BY <5>1, <5>2, <3>4, <2>2, <1>14 DEF ReadFrom
        <5> QED BY <2>2, <2>3, <3>1, <5>1, <5>3 DEF WillRead
      <4> QED BY <4>1, <4>2
    <3> QED BY <3>1, <3>2, <3>3, <3>4
  <2> QED BY <2>5, <2>6
<1>25. SeenInv'
  <2> SUFFICES ASSUME ~back', NEW e \in ever, MayReturn(e)' PROVE e \in seen
    BY <1>2 DEF SeenInv
  <2>1. alive
    BY DEF NoCursorInv
  <2>2. ~back /\ t >= now
    BY <2>1, <1>13, <1>5 DEF TypeOK
  <2>3. stamp[e] \in Nat /\ stamp'[e] = stamp[e]
    BY <1>2 DEF StreamInv, TypeOK
  <2>4. cur.last <= t /\ cur.last \in Int
    BY <2>1, <2>2, <1>5 DEF ClockInv, TypeOK
  <2>5. MayReturn(e)
    <3>1. CASE cur' = cur
      BY <3>1, <2>3 DEF MayReturn
    <3>2. CASE cur' # cur
      <4>1. /\ cur'.since = cur.since /\ cur'.from = cur.last - LateWindow - Margin
            /\ cur'.last = t
        BY <3>2, <2>1, <2>4, <1>8, <1>11
      <4> QED BY <4>1, <2>3, <2>4, <1>5 DEF MayReturn
    <3> QED BY <3>1, <3>2
  <2> QED BY <2>1, <2>2, <2>5 DEF SeenInv
<1>26. ProcessedOnce'
  BY <1>2, <1>3 DEF ProcessedOnce
<1>27. WalkInv'
  BY <1>2, <1>16, <1>17, NoWalkInvNext DEF WalkInv
<1> QED BY <1>16, <1>17, <1>18, <1>19, <1>22, <1>23, <1>24, <1>25, <1>26, <1>27

\* The sweep ends for this cycle: it completed, or goes on from r.
LEMMA EndSweepFacts ==
  ASSUME TypeOK, NEW complete \in BOOLEAN, NEW r \in [next : Int, first : Nat, page : Nat, newest : Int],
         EndSweep(complete, r)
  PROVE  /\ cur' \in Cursors /\ pos' \in [next : Int, first : Nat, page : Nat, newest : Int]
         /\ cur'.since = cur.since /\ cur'.last = cur.last
         /\ complete => ~cur'.sweeping
         /\ ~complete => cur'.sweeping = cur.sweeping /\ cur'.from = r.next /\ cur'.first = r.first
         /\ pc' = "poll" /\ pos'.next = cur.since /\ pos'.first = 0 /\ pos'.newest = 0
<1>1. cur \in Cursors /\ cur.since \in Int
  BY DEF TypeOK, Cursors
<1>2. pos' = [next |-> cur.since, first |-> 0, page |-> 0, newest |-> 0] /\ pc' = "poll"
  BY DEF EndSweep, StartRead
<1>3. CASE complete
  <2>1. cur' = [cur EXCEPT !.sweeping = FALSE]
    BY <1>3 DEF EndSweep
  <2>2. cur' \in Cursors
    BY <1>1, <2>1 DEF Cursors
  <2>3. cur'.since = cur.since /\ cur'.last = cur.last /\ cur'.sweeping = FALSE
    BY <1>1, <2>1 DEF Cursors
  <2> QED BY <1>1, <1>2, <1>3, <2>2, <2>3
<1>4. CASE ~complete
  <2>1. cur' = [cur EXCEPT !.from = r.next, !.first = r.first]
    BY <1>4 DEF EndSweep
  <2>2. cur' \in Cursors
    BY <1>1, <2>1 DEF Cursors
  <2>3. /\ cur'.since = cur.since /\ cur'.last = cur.last /\ cur'.sweeping = cur.sweeping
        /\ cur'.from = r.next /\ cur'.first = r.first
    BY <1>1, <2>1 DEF Cursors
  <2> QED BY <1>1, <1>2, <1>4, <2>2, <2>3
<1> QED BY <1>3, <1>4

\* The invariants of the positions and the clocks follow where a sweep ends.
LEMMA EndSweepInv ==
  ASSUME IInv, pc = "sweep", UNCHANGED <<time, visible, stamp, alive, now, back>>,
         NEW complete \in BOOLEAN, NEW r \in [next : Int, first : Nat, page : Nat, newest : Int],
         EndSweep(complete, r), ~complete => r.first <= Cardinality(At(r.next)),
         r.next > pos.next \/ (r.next = pos.next /\ r.first >= pos.first)
  PROVE  /\ StreamInv' /\ ClockInv' /\ NoCursorInv' /\ SweepPosInv' /\ PollPosInv'
         /\ \A e \in visible : MayReturn(e)' => MayReturn(e)
<1> USE DEF IInv
<1>1. /\ cur' \in Cursors /\ cur'.since = cur.since /\ cur'.last = cur.last
      /\ complete => ~cur'.sweeping
      /\ ~complete => cur'.sweeping = cur.sweeping /\ cur'.from = r.next /\ cur'.first = r.first
      /\ pc' = "poll" /\ pos'.next = cur.since /\ pos'.first = 0 /\ pos'.newest = 0
  BY EndSweepFacts
<1>2. \A q : At(q)' = At(q)
  BY DEF At
<1>3. alive /\ alive'
  BY DEF NoCursorInv
<1>4. StreamInv'
  BY <1>2 DEF StreamInv
<1>5. ClockInv' /\ NoCursorInv'
  BY <1>1, <1>3 DEF ClockInv, NoCursorInv
<1>6. SweepPosInv'
  <2>1. cur'.sweeping => cur'.first <= Cardinality({x \in visible' : stamp'[x] = cur'.from})
    BY <1>1 DEF At
  <2> QED BY <1>1, <2>1 DEF SweepPosInv, At
<1>7. PollPosInv'
  <2>1. 0 <= Cardinality({x \in visible' : stamp'[x] = pos'.next})
    <3>1. 0 <= Cardinality(At(pos'.next))
      BY AtFinite
    <3> QED BY <3>1 DEF At
  <2>2. cur.since \in Int /\ cur.since >= 0
    BY DEF TypeOK, ClockInv
  <2> QED BY <1>1, <2>1, <2>2 DEF PollPosInv, At
<1>8. ASSUME NEW e \in visible, MayReturn(e)'
      PROVE  MayReturn(e)
  <2>1. stamp[e] \in Nat /\ stamp'[e] = stamp[e]
    BY DEF StreamInv
  <2>2. cur.sweeping /\ pos.next >= cur.from /\ pos.next \in Int /\ cur.from \in Int
    BY DEF SweepPosInv, TypeOK
  <2>3. cur'.sweeping => cur'.from >= cur.from
    BY <1>1, <2>2
  <2>4. cur'.sweeping => cur'.from \in Int
    BY <1>1
  <2>5. cur'.sweeping /\ stamp[e] >= cur'.from => stamp[e] >= cur.from
    BY <2>1, <2>2, <2>3, <2>4
  <2> QED BY <1>1, <1>8, <2>1, <2>2, <2>5 DEF MayReturn
<1> QED BY <1>4, <1>5, <1>6, <1>7, <1>8

LEMMA SweepErrorInv == ASSUME IInv, SweepError PROVE IInv'
<1> USE DEF IInv
<1>1. /\ pc = "sweep" /\ EndSweep(FALSE, pos)
      /\ UNCHANGED <<time, visible, stamp, alive, seen, retry, now, stored, dropped, missed, ever, twice, back>> /\ walk' = NoWalk
  BY DEF SweepError, env, hist
<1>2. pos \in [next : Int, first : Nat, page : Nat, newest : Int] /\ pos.first <= Cardinality(At(pos.next))
  BY <1>1 DEF TypeOK, SweepPosInv
<1>3. pos.next = pos.next /\ pos.first >= pos.first
  BY <1>2
<1>4. /\ StreamInv' /\ ClockInv' /\ NoCursorInv' /\ SweepPosInv' /\ PollPosInv'
      /\ \A e \in visible : MayReturn(e)' => MayReturn(e)
  BY <1>1, <1>2, <1>3, EndSweepInv
<1>5. /\ cur' \in Cursors /\ pos' \in [next : Int, first : Nat, page : Nat, newest : Int]
      /\ cur'.since = cur.since /\ cur'.last = cur.last
      /\ cur'.sweeping = cur.sweeping /\ cur'.from = pos.next /\ cur'.first = pos.first
      /\ pc' = "poll" /\ pos'.next = cur.since /\ pos'.first = 0
  BY <1>1, <1>2, EndSweepFacts
<1>6. TypeOK'
  <2>1. cur' \in [since : Int, last : Int, sweeping : BOOLEAN, from : Int, first : Nat]
    BY <1>5 DEF Cursors
  <2>2. walk' \in [page : 0 .. DatePages - 1, got : SUBSET visible']
    BY <1>1 DEF NoWalk
  <2> QED BY <1>1, <1>5, <2>1, <2>2 DEF TypeOK
<1>7. LostInv'
  <2> SUFFICES ASSUME NEW e \in visible \ missed, ~Handled(e)' PROVE WillRead(e)'
    BY <1>1 DEF LostInv
  <2>1. alive /\ ~Handled(e) /\ stamp[e] \in Nat /\ cur.sweeping /\ cur.since \in Int
    BY <1>1 DEF Handled, NoCursorInv, StreamInv, SweepPosInv, TypeOK
  <2>2. WillRead(e)
    BY <2>1 DEF LostInv
  <2>3. PollReads(e) => PollReads(e)'
    BY <1>1, <1>5, <2>1 DEF PollReads, ReadFrom
  <2>4. SweepReads(e) => SweepReads(e)'
    BY <1>1, <1>5, <2>1 DEF SweepReads, ReadFrom
  <2>5. NextSweepReads(e) => NextSweepReads(e)'
    BY <1>1, <1>5 DEF NextSweepReads
  <2> QED BY <1>1, <2>2, <2>3, <2>4, <2>5 DEF WillRead
<1>8. SeenInv'
  BY <1>1, <1>4 DEF SeenInv, TypeOK
<1>9. ProcessedOnce'
  BY <1>1 DEF ProcessedOnce
<1>10. WalkInv'
  BY <1>1, <1>4, <1>6, NoWalkInvNext
<1> QED BY <1>4, <1>6, <1>7, <1>8, <1>9, <1>10

\* One page of a read: what it settles, and that nothing it returns as new was
\* processed before.
LEMMA PageProcessed ==
  ASSUME IInv, UNCHANGED <<visible, stamp>>, NEW page \in SUBSET visible,
         \E failed \in SUBSET (page \ seen) : Process(page \ seen, failed, retry),
         twice' = twice \cup ((page \ seen) \cap ever), ever' = ever \cup (page \ seen),
         back' = back, alive, \A x \in page : MayReturn(x)
  PROVE  /\ retry' \in SUBSET visible /\ Cardinality(retry') <= MaxRetries
         /\ stored' \in SUBSET visible /\ dropped' \in SUBSET visible
         /\ ever' \in SUBSET visible /\ twice' \in SUBSET visible
         /\ ProcessedOnce'
         /\ ~back => \A e \in ever' : MayReturn(e) => e \in seen \cup page
         /\ \A e \in visible \ missed : ~Handled(e)' => ~Handled(e) /\ WillRead(e) /\ e \notin page
<1> USE DEF IInv
<1>1. PICK failed \in SUBSET (page \ seen) : Process(page \ seen, failed, retry)
  OBVIOUS
<1>2. /\ retry' \in SUBSET visible /\ Cardinality(retry') <= MaxRetries
      /\ stored' \in SUBSET visible /\ dropped' \in SUBSET visible
      /\ \A e : e \in page \ seen \/ Handled(e) => Handled(e)'
  <2>1. page \ seen \in SUBSET visible
    OBVIOUS
  <2> QED BY <1>1, <2>1, Processed
<1>3. ever' \in SUBSET visible /\ twice' \in SUBSET visible
  BY DEF TypeOK
<1>4. ~back => \A e \in ever : MayReturn(e) => e \in seen
  BY DEF SeenInv
<1>5. ~back => (page \ seen) \cap ever = {}
  BY <1>4
<1>6. ProcessedOnce'
  BY <1>5 DEF ProcessedOnce
<1>7. ~back => \A e \in ever' : MayReturn(e) => e \in seen \cup page
  BY <1>4
<1>8. ASSUME NEW e \in visible \ missed, ~Handled(e)'
      PROVE  ~Handled(e) /\ WillRead(e) /\ e \notin page
  <2>1. ~Handled(e) /\ e \notin page \ seen
    BY <1>2, <1>8
  <2>2. WillRead(e)
    BY <2>1 DEF LostInv
  <2> QED BY <2>1, <2>2 DEF WillRead
<1> QED BY <1>2, <1>3, <1>6, <1>7, <1>8

LEMMA SweepReadInv ==
  ASSUME IInv, NEW page \in SUBSET visible, NEW full \in BOOLEAN, SweepRead(page, full),
         Continues(page, full, AfterPage(page)), missed \in SUBSET missed', missed' \in SUBSET visible,
         walk' = NoWalk
  PROVE  IInv'
<1> USE DEF IInv
<1> DEFINE r == AfterPage(page)
           complete == ~full \/ (cur.since > 0 /\ Newest(page) >= cur.since)
<1>1. /\ pc = "sweep"
      /\ UNCHANGED <<time, visible, stamp, alive, now, back>>
      /\ seen' = seen \cup page
      /\ twice' = twice \cup ((page \ seen) \cap ever) /\ ever' = ever \cup (page \ seen)
      /\ \E failed \in SUBSET (page \ seen) : Process(page \ seen, failed, retry)
  BY DEF SweepRead, MarkSeen, env
<1>2. \/ EndSweep(complete, r)
      \/ ~complete /\ pos' = r /\ UNCHANGED <<cur, pc>>
  BY DEF SweepRead
<1>3. alive /\ cur.sweeping /\ pos.first <= Cardinality(At(pos.next))
  BY <1>1 DEF NoCursorInv, SweepPosInv
<1>4. /\ r \in [next : Int, first : Nat, page : Nat, newest : Int]
      /\ \A x \in page : stamp[x] >= pos.next
      /\ r.next > pos.next \/ (r.next = pos.next /\ r.first >= pos.first)
      /\ full => r.first <= Cardinality(At(r.next))
      /\ \A e \in visible \ (page \cup seen) : ReadFrom(e, pos.next, pos.first) =>
           \/ full /\ ReadFrom(e, r.next, r.first) /\ stamp[e] >= Newest(page)
           \/ NextSweepReads(e)
           \/ e \in missed'
  BY DEF Continues, Reads
<1> HIDE DEF r
<1>5. cur.since \in Int /\ cur.from \in Int /\ cur.first \in Nat /\ pos.next \in Int /\ pos.first \in Nat
  BY DEF TypeOK
<1>6. \A x \in page : MayReturn(x)
  <2>1. pos.next >= cur.from
    BY <1>1, <1>5 DEF SweepPosInv
  <2>2. \A x \in page : stamp[x] \in Nat
    BY DEF StreamInv
  <2> QED BY <1>3, <1>4, <1>5, <2>1, <2>2 DEF MayReturn
<1>7. /\ retry' \in SUBSET visible /\ Cardinality(retry') <= MaxRetries
      /\ stored' \in SUBSET visible /\ dropped' \in SUBSET visible
      /\ ever' \in SUBSET visible /\ twice' \in SUBSET visible
      /\ ProcessedOnce'
      /\ ~back => \A e \in ever' : MayReturn(e) => e \in seen \cup page
      /\ \A e \in visible \ missed : ~Handled(e)' => ~Handled(e) /\ WillRead(e) /\ e \notin page
  BY <1>1, <1>3, <1>6, PageProcessed
<1>8. complete \in BOOLEAN /\ (~complete => full)
  OBVIOUS
<1>9. Newest(page) \in Nat
  BY NewestOfPage
<1>10. ASSUME NEW e \in visible \ missed', ~Handled(e)'
       PROVE  /\ e \notin seen' /\ stamp[e] \in Nat /\ stamp'[e] = stamp[e]
              /\ \/ stamp[e] >= cur.since
                 \/ ~complete /\ ReadFrom(e, r.next, r.first)
                 \/ stamp[e] >= cur.last - LateWindow - Margin
  <2>1. WillRead(e) /\ e \notin page /\ stamp[e] \in Nat
    BY <1>7, <1>10 DEF StreamInv
  <2>2. e \notin seen' /\ stamp'[e] = stamp[e]
    BY <1>1, <2>1 DEF WillRead
  <2>3. CASE ReadFrom(e, pos.next, pos.first)
    BY <1>1, <1>4, <1>5, <1>9, <1>10, <2>1, <2>2, <2>3 DEF NextSweepReads
  <2>4. CASE ~ReadFrom(e, pos.next, pos.first)
    BY <1>1, <2>1, <2>2, <2>4 DEF WillRead, PollReads, SweepReads, NextSweepReads
  <2> QED BY <2>3, <2>4
<1>13. walk' \in [page : 0 .. DatePages - 1, got : SUBSET visible'] /\ missed' \in SUBSET visible'
  BY <1>1 DEF NoWalk
<1> HIDE DEF complete
<1>11. CASE EndSweep(complete, r)
  <2>1. ~complete => r.first <= Cardinality(At(r.next))
    BY <1>4, <1>8
  <2>2. /\ StreamInv' /\ ClockInv' /\ NoCursorInv' /\ SweepPosInv' /\ PollPosInv'
        /\ \A e \in visible : MayReturn(e)' => MayReturn(e)
    BY <1>1, <1>4, <1>8, <1>11, <2>1, EndSweepInv
  <2>3. /\ cur' \in Cursors /\ pos' \in [next : Int, first : Nat, page : Nat, newest : Int]
        /\ cur'.since = cur.since /\ cur'.last = cur.last
        /\ ~complete => cur'.sweeping = cur.sweeping /\ cur'.from = r.next /\ cur'.first = r.first
        /\ pc' = "poll" /\ pos'.next = cur.since /\ pos'.first = 0
    BY <1>4, <1>8, <1>11, EndSweepFacts
  <2>4. TypeOK'
    <3>1. cur' \in [since : Int, last : Int, sweeping : BOOLEAN, from : Int, first : Nat]
      BY <2>3 DEF Cursors
    <3>2. seen' \in SUBSET visible /\ pc' \in {"idle", "sweep", "poll"}
      BY <1>1, <2>3 DEF TypeOK
    <3> QED BY <1>1, <1>7, <1>13, <2>3, <3>1, <3>2 DEF TypeOK
  <2>5. LostInv'
    <3> SUFFICES ASSUME NEW e \in visible \ missed', ~Handled(e)' PROVE WillRead(e)'
      BY <1>1 DEF LostInv
    <3>1. /\ e \notin seen' /\ stamp[e] \in Nat /\ stamp'[e] = stamp[e]
          /\ \/ stamp[e] >= cur.since
             \/ ~complete /\ ReadFrom(e, r.next, r.first)
             \/ stamp[e] >= cur.last - LateWindow - Margin
      BY <1>10
    <3>2. CASE stamp[e] >= cur.since
      BY <3>1, <3>2, <2>3, <1>5 DEF WillRead, PollReads, ReadFrom
    <3>3. CASE ~complete /\ ReadFrom(e, r.next, r.first)
      BY <3>1, <3>3, <2>3, <1>3 DEF WillRead, SweepReads, ReadFrom
    <3>4. CASE stamp[e] >= cur.last - LateWindow - Margin
      BY <3>1, <3>4, <2>3 DEF WillRead, NextSweepReads
    <3> QED BY <3>1, <3>2, <3>3, <3>4
  <2>6. SeenInv'
    BY <1>1, <1>7, <2>2 DEF SeenInv
  <2>7. WalkInv'
    BY <2>2, <2>4, NoWalkInvNext
  <2> QED BY <1>7, <2>2, <2>4, <2>5, <2>6, <2>7
<1>12. CASE ~complete /\ pos' = r /\ UNCHANGED <<cur, pc>>
  <2>1. \A q : At(q)' = At(q)
    BY <1>1 DEF At
  <2>2. TypeOK'
    <3>1. seen' \in SUBSET visible
      BY <1>1 DEF TypeOK
    <3> QED BY <1>1, <1>4, <1>7, <1>12, <1>13, <3>1 DEF TypeOK
  <2>3. StreamInv' /\ ClockInv' /\ NoCursorInv' /\ PollPosInv'
    BY <1>1, <1>3, <1>12, <2>1 DEF StreamInv, ClockInv, NoCursorInv, PollPosInv
  <2>4. SweepPosInv'
    <3>1. cur.first <= Cardinality(At(cur.from)) /\ r.first <= Cardinality(At(r.next))
      BY <1>3, <1>4, <1>8, <1>12 DEF SweepPosInv
    <3>2. r.next \in Int /\ r.first \in Nat
      BY <1>4
    <3>3. r.next > cur.from \/ (r.next = cur.from /\ r.first >= cur.first)
      BY <1>1, <1>4, <1>5, <3>2 DEF SweepPosInv
    <3>4. /\ cur'.first <= Cardinality({x \in visible' : stamp'[x] = cur'.from})
          /\ pos'.first <= Cardinality({x \in visible' : stamp'[x] = pos'.next})
      BY <1>1, <1>12, <3>1 DEF At
    <3> QED BY <1>3, <1>12, <3>3, <3>4 DEF SweepPosInv, At
  <2>5. LostInv'
    <3> SUFFICES ASSUME NEW e \in visible \ missed', ~Handled(e)' PROVE WillRead(e)'
      BY <1>1 DEF LostInv
    <3>1. /\ e \notin seen' /\ stamp[e] \in Nat /\ stamp'[e] = stamp[e]
          /\ \/ stamp[e] >= cur.since
             \/ ~complete /\ ReadFrom(e, r.next, r.first)
             \/ stamp[e] >= cur.last - LateWindow - Margin
      BY <1>10
    <3> QED BY <1>1, <1>12, <3>1 DEF WillRead, PollReads, SweepReads, NextSweepReads, ReadFrom
  <2>6. SeenInv'
    <3>1. \A e \in visible : MayReturn(e)' => MayReturn(e)
      BY <1>1, <1>12 DEF MayReturn
    <3> QED BY <1>1, <1>7, <3>1 DEF SeenInv
  <2>7. WalkInv'
    BY <2>2, <2>3, NoWalkInvNext
  <2> QED BY <1>7, <2>2, <2>3, <2>4, <2>5, <2>6, <2>7
<1> QED BY <1>2, <1>11, <1>12

\* prune keeps what a read to come may return again.
LEMMA KeptFacts ==
  ASSUME NEW c \in Cursors, NEW s \in SUBSET visible, NEW t \in Int, c.last <= t,
         NEW e \in s, stamp[e] \in Nat,
         \/ stamp[e] >= c.since
         \/ c.sweeping /\ stamp[e] >= c.from
         \/ stamp[e] >= c.last - LateWindow - Margin
  PROVE  e \in Kept(c, s, t)
<1>1. c.last \in Int /\ c.since \in Int /\ c.from \in Int
  BY DEF Cursors
<1>2. SweepStart(c, t) = c.last - LateWindow - Margin
  BY SweepStartFacts
<1> DEFINE a == Least(SweepStart(c, t), c.since)
           cutoff == IF c.sweeping THEN Least(a, c.from) ELSE a
<1>3. a \in Int /\ a <= c.since /\ a <= c.last - LateWindow - Margin
  BY <1>1, <1>2 DEF Least
<1> HIDE DEF a
<1>4. cutoff \in Int /\ cutoff <= a /\ (c.sweeping => cutoff <= c.from)
  BY <1>1, <1>3 DEF Least
<1> HIDE DEF cutoff
<1>5. stamp[e] >= cutoff
  BY <1>1, <1>3, <1>4
<1> QED BY <1>5 DEF Kept, a, cutoff

\* The poll ends, with s seen.
LEMMA EndPollInv ==
  ASSUME IInv, pc = "poll", UNCHANGED <<time, visible, stamp, alive, now, back>>,
         NEW newest \in Int, NEW complete \in BOOLEAN, NEW s \in SUBSET visible,
         EndPoll(Advance(cur, newest, complete, now), s)
  PROVE  /\ cur' \in Cursors /\ pos' \in [next : Int, first : Nat, page : Nat, newest : Int]
         /\ pc' = "idle" /\ seen' \in SUBSET s
         /\ cur'.last = cur.last /\ cur'.sweeping = cur.sweeping /\ cur'.from = cur.from
         /\ cur'.first = cur.first /\ (cur'.since = cur.since \/ cur'.since <= newest)
         /\ StreamInv' /\ ClockInv' /\ NoCursorInv' /\ SweepPosInv' /\ PollPosInv'
         /\ ~back => \A e \in s : MayReturn(e)' => e \in seen'
         /\ \A e \in visible : MayReturn(e)' => MayReturn(e)
<1> USE DEF IInv
<1>1. cur \in Cursors /\ now \in Int /\ alive
  BY DEF TypeOK, Cursors, NoCursorInv
<1>2. /\ cur' = Advance(cur, newest, complete, now) /\ seen' = Kept(cur', s, now)
      /\ pc' = "idle" /\ pos' = [next |-> 0, first |-> 0, page |-> 0, newest |-> 0]
  BY DEF EndPoll, NoRead, StartRead
<1>3. /\ cur' \in Cursors /\ cur'.since >= cur.since
      /\ cur'.last = cur.last /\ cur'.sweeping = cur.sweeping /\ cur'.from = cur.from /\ cur'.first = cur.first
      /\ cur'.since = cur.since \/ (cur'.since <= newest /\ cur'.since <= now)
  <2>1. cur.since \in Int
    BY <1>1 DEF Cursors
  <2>2. CASE cur' = cur
    BY <1>1, <2>1, <2>2
  <2>3. CASE cur' # cur
    <3>1. PICK next \in Int : /\ next > cur.since /\ next <= newest /\ next <= now
                              /\ cur' = [cur EXCEPT !.since = next]
      BY <1>1, <1>2, <2>3, AdvanceFacts
    <3>2. cur' \in Cursors
      BY <1>1, <3>1 DEF Cursors
    <3>3. /\ cur'.since = next /\ cur'.last = cur.last /\ cur'.sweeping = cur.sweeping
          /\ cur'.from = cur.from /\ cur'.first = cur.first
      BY <1>1, <3>1 DEF Cursors
    <3> QED BY <2>1, <3>1, <3>2, <3>3
  <2> QED BY <2>2, <2>3
<1>4. cur.since \in Int /\ cur'.since \in Int /\ cur.last \in Int
  BY <1>1, <1>3 DEF Cursors
<1>5. \A q : At(q)' = At(q)
  BY DEF At
<1>6. StreamInv' /\ NoCursorInv' /\ PollPosInv'
  BY <1>1, <1>2, <1>5 DEF StreamInv, NoCursorInv, PollPosInv
<1>7. ClockInv'
  BY <1>1, <1>3, <1>4 DEF ClockInv
<1>8. SweepPosInv'
  <2>1. cur'.sweeping => cur'.first <= Cardinality({x \in visible' : stamp'[x] = cur'.from})
    BY <1>3 DEF SweepPosInv, At
  <2> QED BY <1>2, <2>1 DEF SweepPosInv, At
<1>9. ASSUME ~back, NEW e \in s, MayReturn(e)'
      PROVE  e \in seen'
  <2>1. stamp[e] \in Nat /\ stamp'[e] = stamp[e]
    BY DEF StreamInv
  <2>2. cur'.last <= now
    BY <1>1, <1>3, <1>9 DEF ClockInv
  <2>3. \/ stamp[e] >= cur'.since
        \/ cur'.sweeping /\ stamp[e] >= cur'.from
        \/ stamp[e] >= cur'.last - LateWindow - Margin
    BY <1>9, <2>1 DEF MayReturn
  <2>4. e \in Kept(cur', s, now)
    <3> SUFFICES ASSUME NEW c \in Cursors, c = cur' PROVE e \in Kept(c, s, now)
      BY <1>3
    <3>1. c.last <= now
      BY <2>2
    <3>2. \/ stamp[e] >= c.since
          \/ c.sweeping /\ stamp[e] >= c.from
          \/ stamp[e] >= c.last - LateWindow - Margin
      BY <2>3
    <3> QED BY <1>1, <2>1, <3>1, <3>2, KeptFacts
  <2> QED BY <1>2, <2>4
<1>10. ASSUME NEW e \in visible, MayReturn(e)'
       PROVE  MayReturn(e)
  <2>1. stamp[e] \in Nat /\ stamp'[e] = stamp[e]
    BY DEF StreamInv
  <2>2. stamp[e] >= cur'.since => stamp[e] >= cur.since
    BY <1>3, <1>4, <2>1
  <2> QED BY <1>3, <1>10, <2>1, <2>2 DEF MayReturn
<1>11. seen' \in SUBSET s
  BY <1>2 DEF Kept
<1>12. pos' \in [next : Int, first : Nat, page : Nat, newest : Int]
  BY <1>2
<1> QED BY <1>2, <1>3, <1>6, <1>7, <1>8, <1>9, <1>10, <1>11, <1>12

\* What the poll leaves unread lies ahead of the cursor it ends with.
LEMMA EndPollLost ==
  ASSUME pc' = "idle", UNCHANGED <<visible, stamp>>, NEW e \in visible, stamp[e] \in Nat,
         e \notin seen', cur'.last = cur.last, cur'.sweeping = cur.sweeping, cur'.from = cur.from,
         cur'.first = cur.first,
         \/ stamp[e] >= cur'.since
         \/ cur.sweeping /\ ReadFrom(e, cur.from, cur.first)
         \/ NextSweepReads(e)
  PROVE  WillRead(e)'
BY DEF WillRead, PollReads, SweepReads, NextSweepReads, ReadFrom

LEMMA PollErrorInv == ASSUME IInv, PollError PROVE IInv'
<1> USE DEF IInv
<1>1. /\ pc = "poll" /\ EndPoll(Advance(cur, pos.newest, FALSE, now), seen)
      /\ UNCHANGED <<time, visible, stamp, alive, retry, now, stored, dropped, missed, ever, twice, back>> /\ walk' = NoWalk
  BY DEF PollError, env, hist
<1>2. pos.newest \in Int /\ seen \in SUBSET visible /\ pos.next \in Int /\ cur.since \in Int
  BY DEF TypeOK
<1>3. /\ cur' \in Cursors /\ pos' \in [next : Int, first : Nat, page : Nat, newest : Int]
      /\ pc' = "idle" /\ seen' \in SUBSET seen
      /\ cur'.last = cur.last /\ cur'.sweeping = cur.sweeping /\ cur'.from = cur.from
      /\ cur'.first = cur.first /\ (cur'.since = cur.since \/ cur'.since <= pos.newest)
      /\ StreamInv' /\ ClockInv' /\ NoCursorInv' /\ SweepPosInv' /\ PollPosInv'
      /\ ~back => \A e \in seen : MayReturn(e)' => e \in seen'
      /\ \A e \in visible : MayReturn(e)' => MayReturn(e)
  BY <1>1, <1>2, EndPollInv
<1>4. TypeOK'
  <2>1. cur' \in [since : Int, last : Int, sweeping : BOOLEAN, from : Int, first : Nat]
    BY <1>3 DEF Cursors
  <2>2. seen' \in SUBSET visible /\ pc' \in {"idle", "sweep", "poll"}
    BY <1>2, <1>3
  <2>3. walk' \in [page : 0 .. DatePages - 1, got : SUBSET visible']
    BY <1>1 DEF NoWalk
  <2> QED BY <1>1, <1>3, <2>1, <2>2, <2>3 DEF TypeOK
<1>5. LostInv'
  <2> SUFFICES ASSUME NEW e \in visible \ missed, ~Handled(e)' PROVE WillRead(e)'
    BY <1>1 DEF LostInv
  <2>1. WillRead(e) /\ stamp[e] \in Nat
    BY <1>1 DEF Handled, NoCursorInv, StreamInv, LostInv
  <2>2. ReadFrom(e, pos.next, pos.first) => stamp[e] >= cur'.since
    <3>1. cur'.since <= pos.next /\ cur'.since \in Int
      BY <1>1, <1>2, <1>3 DEF PollPosInv, Cursors
    <3> QED BY <1>2, <2>1, <3>1 DEF ReadFrom
  <2>3. \/ stamp[e] >= cur'.since
        \/ cur.sweeping /\ ReadFrom(e, cur.from, cur.first)
        \/ NextSweepReads(e)
    BY <1>1, <2>1, <2>2 DEF WillRead, PollReads, SweepReads
  <2>4. e \notin seen'
    BY <1>3, <2>1 DEF WillRead
  <2> QED BY <1>1, <1>3, <2>1, <2>3, <2>4, EndPollLost
<1>6. SeenInv'
  BY <1>1, <1>3 DEF SeenInv, TypeOK
<1>7. ProcessedOnce'
  BY <1>1 DEF ProcessedOnce
<1>8. WalkInv'
  BY <1>1, <1>3, <1>4, NoWalkInvNext
<1> QED BY <1>3, <1>4, <1>5, <1>6, <1>7, <1>8

LEMMA PollReadInv ==
  ASSUME IInv, NEW page \in SUBSET visible, NEW full \in BOOLEAN, PollRead(page, full),
         Continues(page, full, AfterPage(page)), missed \in SUBSET missed', missed' \in SUBSET visible,
         walk' = NoWalk
  PROVE  IInv'
<1> USE DEF IInv
<1> DEFINE r == AfterPage(page)
<1>1. /\ pc = "poll"
      /\ UNCHANGED <<time, visible, stamp, alive, now, back>>
      /\ twice' = twice \cup ((page \ seen) \cap ever) /\ ever' = ever \cup (page \ seen)
      /\ \E failed \in SUBSET (page \ seen) : Process(page \ seen, failed, retry)
  BY DEF PollRead, env
<1>2. \/ EndPoll(Advance(cur, r.newest, ~full, now), seen \cup page)
      \/ full /\ pos' = r /\ seen' = seen \cup page /\ UNCHANGED <<cur, pc>>
  BY DEF PollRead
<1>3. alive /\ pos.first <= Cardinality(At(pos.next))
  BY <1>1 DEF NoCursorInv, PollPosInv
<1>4. /\ r \in [next : Int, first : Nat, page : Nat, newest : Int]
      /\ \A x \in page : stamp[x] >= pos.next
      /\ r.next > pos.next \/ (r.next = pos.next /\ r.first >= pos.first)
      /\ full => r.first <= Cardinality(At(r.next))
      /\ \A e \in visible \ (page \cup seen) : ReadFrom(e, pos.next, pos.first) =>
           \/ full /\ ReadFrom(e, r.next, r.first) /\ stamp[e] >= Newest(page)
           \/ NextSweepReads(e)
           \/ e \in missed'
      /\ r.newest >= pos.newest /\ (pos.newest <= pos.next => r.newest <= r.next)
  BY DEF Continues, Reads
<1> HIDE DEF r
<1>5. cur.since \in Int /\ pos.next \in Int /\ pos.first \in Nat /\ pos.newest \in Int
  BY DEF TypeOK
<1>6. r.next \in Int /\ r.newest \in Int /\ r.first \in Nat
  BY <1>4
<1>7. /\ r.next >= cur.since /\ r.newest <= r.next /\ r.newest >= 0
      /\ pos.next >= cur.since
  BY <1>1, <1>4, <1>5, <1>6 DEF PollPosInv
<1>8. \A x \in page : MayReturn(x)
  <2>1. \A x \in page : stamp[x] \in Nat
    BY DEF StreamInv
  <2> QED BY <1>4, <1>5, <1>7, <2>1 DEF MayReturn
<1>9. /\ retry' \in SUBSET visible /\ Cardinality(retry') <= MaxRetries
      /\ stored' \in SUBSET visible /\ dropped' \in SUBSET visible
      /\ ever' \in SUBSET visible /\ twice' \in SUBSET visible
      /\ ProcessedOnce'
      /\ ~back => \A e \in ever' : MayReturn(e) => e \in seen \cup page
      /\ \A e \in visible \ missed : ~Handled(e)' => ~Handled(e) /\ WillRead(e) /\ e \notin page
  BY <1>1, <1>3, <1>8, PageProcessed
<1>10. ASSUME NEW e \in visible \ missed', ~Handled(e)'
       PROVE  /\ e \notin seen \cup page /\ stamp[e] \in Nat /\ stamp'[e] = stamp[e]
              /\ \/ full /\ ReadFrom(e, r.next, r.first)
                 \/ cur.sweeping /\ ReadFrom(e, cur.from, cur.first)
                 \/ NextSweepReads(e)
  <2>1. WillRead(e) /\ e \notin page /\ stamp[e] \in Nat
    BY <1>9, <1>10 DEF StreamInv
  <2>2. e \notin seen \cup page /\ stamp'[e] = stamp[e]
    BY <1>1, <2>1 DEF WillRead
  <2>3. CASE ReadFrom(e, pos.next, pos.first)
    BY <1>4, <1>10, <2>1, <2>2, <2>3
  <2>4. CASE ~ReadFrom(e, pos.next, pos.first)
    BY <1>1, <2>1, <2>2, <2>4 DEF WillRead, PollReads, SweepReads
  <2> QED BY <2>3, <2>4
<1>14. walk' \in [page : 0 .. DatePages - 1, got : SUBSET visible'] /\ missed' \in SUBSET visible'
  BY <1>1 DEF NoWalk
<1>11. seen \cup page \in SUBSET visible
  BY DEF TypeOK
<1>12. CASE EndPoll(Advance(cur, r.newest, ~full, now), seen \cup page)
  <2>1. (~full) \in BOOLEAN
    OBVIOUS
  <2>2. /\ cur' \in Cursors /\ pos' \in [next : Int, first : Nat, page : Nat, newest : Int]
        /\ pc' = "idle" /\ seen' \in SUBSET (seen \cup page)
        /\ cur'.last = cur.last /\ cur'.sweeping = cur.sweeping /\ cur'.from = cur.from
        /\ cur'.first = cur.first /\ (cur'.since = cur.since \/ cur'.since <= r.newest)
        /\ StreamInv' /\ ClockInv' /\ NoCursorInv' /\ SweepPosInv' /\ PollPosInv'
        /\ ~back => \A e \in seen \cup page : MayReturn(e)' => e \in seen'
        /\ \A e \in visible : MayReturn(e)' => MayReturn(e)
    BY <1>1, <1>6, <1>11, <1>12, <2>1, EndPollInv
  <2>3. TypeOK'
    <3>1. cur' \in [since : Int, last : Int, sweeping : BOOLEAN, from : Int, first : Nat]
      BY <2>2 DEF Cursors
    <3>2. seen' \in SUBSET visible /\ pc' \in {"idle", "sweep", "poll"}
      BY <1>11, <2>2
    <3> QED BY <1>1, <1>9, <1>14, <2>2, <3>1, <3>2 DEF TypeOK
  <2>4. LostInv'
    <3> SUFFICES ASSUME NEW e \in visible \ missed', ~Handled(e)' PROVE WillRead(e)'
      BY <1>1 DEF LostInv
    <3>1. /\ e \notin seen \cup page /\ stamp[e] \in Nat /\ stamp'[e] = stamp[e]
          /\ \/ full /\ ReadFrom(e, r.next, r.first)
             \/ cur.sweeping /\ ReadFrom(e, cur.from, cur.first)
             \/ NextSweepReads(e)
      BY <1>10
    <3>2. ReadFrom(e, r.next, r.first) => stamp[e] >= cur'.since
      <4>1. cur'.since \in Int /\ cur'.since <= r.next
        BY <1>5, <1>6, <1>7, <2>2 DEF Cursors
      <4> QED BY <1>6, <3>1, <4>1 DEF ReadFrom
    <3>3. \/ stamp[e] >= cur'.since
          \/ cur.sweeping /\ ReadFrom(e, cur.from, cur.first)
          \/ NextSweepReads(e)
      BY <3>1, <3>2
    <3>4. e \notin seen'
      BY <2>2, <3>1
    <3> QED BY <1>1, <2>2, <3>1, <3>3, <3>4, EndPollLost
  <2>5. SeenInv'
    <3> SUFFICES ASSUME ~back, NEW e \in ever', MayReturn(e)' PROVE e \in seen'
      BY <1>1 DEF SeenInv
    <3>1. e \in visible /\ MayReturn(e)
      BY <1>9, <2>2
    <3> QED BY <1>9, <2>2, <3>1
  <2>6. WalkInv'
    BY <2>2, <2>3, NoWalkInvNext
  <2> QED BY <1>9, <2>2, <2>3, <2>4, <2>5, <2>6
<1>13. CASE full /\ pos' = r /\ seen' = seen \cup page /\ UNCHANGED <<cur, pc>>
  <2>1. \A q : At(q)' = At(q)
    BY <1>1 DEF At
  <2>2. TypeOK'
    BY <1>1, <1>4, <1>9, <1>11, <1>13, <1>14 DEF TypeOK
  <2>3. StreamInv' /\ ClockInv' /\ NoCursorInv'
    BY <1>1, <1>3, <1>13, <2>1 DEF StreamInv, ClockInv, NoCursorInv
  <2>4. SweepPosInv'
    <3>1. cur.sweeping => cur.first <= Cardinality({x \in visible' : stamp'[x] = cur.from})
      BY <1>1 DEF SweepPosInv, At
    <3> QED BY <1>1, <1>13, <3>1 DEF SweepPosInv, At
  <2>5. PollPosInv'
    <3>1. pos'.first <= Cardinality({x \in visible' : stamp'[x] = pos'.next})
      BY <1>1, <1>4, <1>13 DEF At
    <3> QED BY <1>7, <1>13, <3>1 DEF PollPosInv, At
  <2>6. LostInv'
    <3> SUFFICES ASSUME NEW e \in visible \ missed', ~Handled(e)' PROVE WillRead(e)'
      BY <1>1 DEF LostInv
    <3>1. /\ e \notin seen \cup page /\ stamp[e] \in Nat /\ stamp'[e] = stamp[e]
          /\ \/ full /\ ReadFrom(e, r.next, r.first)
             \/ cur.sweeping /\ ReadFrom(e, cur.from, cur.first)
             \/ NextSweepReads(e)
      BY <1>10
    <3> QED BY <1>1, <1>13, <3>1 DEF WillRead, PollReads, SweepReads, NextSweepReads, ReadFrom
  <2>7. SeenInv'
    <3>1. \A e \in visible : MayReturn(e)' => MayReturn(e)
      BY <1>1, <1>13 DEF MayReturn
    <3> QED BY <1>1, <1>9, <1>13, <3>1 DEF SeenInv
  <2>8. WalkInv'
    BY <2>2, <2>3, NoWalkInvNext
  <2> QED BY <1>9, <2>2, <2>3, <2>4, <2>5, <2>6, <2>7, <2>8
<1> QED BY <1>2, <1>12, <1>13

LEMMA ExactPageInv == ASSUME IInv, NEW page \in SUBSET visible, ExactPage(page) PROVE IInv'
<1>1. /\ walk' = NoWalk /\ IsPage(page, pos.next, pos.first) /\ missed' = missed
      /\ SweepRead(page, Full(page)) \/ PollRead(page, Full(page))
  BY DEF ExactPage
<1>2. /\ TypeOK /\ StreamInv /\ pos.first <= Cardinality(At(pos.next)) /\ missed' \in SUBSET visible
      /\ Full(page) \in BOOLEAN
  BY <1>1 DEF IInv, TypeOK, SweepRead, PollRead, SweepPosInv, PollPosInv, Full
<1>3. Continues(page, Full(page), AfterPage(page))
  BY <1>1, <1>2, PageRead
<1> QED BY <1>1, <1>2, <1>3, SweepReadInv, PollReadInv

LEMMA DatePageInv == ASSUME IInv, NEW batch \in SUBSET visible, DatePage(batch) PROVE IInv'
<1> USE DEF IInv
<1> DEFINE got == Added(batch)
           reached == ~Full(batch) \/ \E e \in batch : stamp[e] < pos.next
           goesOn == ~reached /\ walk.page + 1 # DatePages /\ walk' = [page |-> walk.page + 1, got |-> got]
<1>1. pc \in {"sweep", "poll"} /\ IsDatePage(batch, walk.page)
  BY DEF DatePage
<1>2. \/ goesOn /\ UNCHANGED <<env, alive, cur, seen, retry, pc, now, pos, hist>>
      \/ /\ \E skipped \in SUBSET got :
              /\ Skips(skipped, got)
              /\ missed' = missed \union PassedOver(got, skipped, ~reached)
              /\ SweepRead(got \ skipped, FALSE) \/ PollRead(got \ skipped, FALSE)
         /\ walk' = NoWalk
  BY DEF DatePage, Added
<1>3. /\ got \in SUBSET visible /\ \A x \in got : stamp[x] >= pos.next
      /\ \A e \in visible \ got : stamp[e] >= pos.next =>
           \/ NextSweepReads(e) \/ \E x \in got : stamp[x] = stamp[e]
           \/ /\ \A x \in got : stamp[x] > stamp[e]
              /\ (walk.page + 1) * PageSize <= Cardinality(Newer(e))
  BY <1>1, WalkStep
<1>4. pos.first <= Cardinality(At(pos.next))
  BY <1>1 DEF SweepPosInv, PollPosInv
<1>5. reached \in BOOLEAN
  BY DEF Full
<1> HIDE DEF got
<1>6. CASE goesOn /\ UNCHANGED <<env, alive, cur, seen, retry, pc, now, pos, hist>>
  <2>1. /\ UNCHANGED <<time, visible, stamp, alive, cur, seen, retry, pc, now, pos, stored, dropped, missed, ever, twice, back>>
        /\ walk' = [page |-> walk.page + 1, got |-> got] /\ walk.page + 1 # DatePages
    BY <1>6 DEF env, hist
  <2>2. walk' \in [page : 0 .. DatePages - 1, got : SUBSET visible']
    <3>1. walk.page \in 0 .. DatePages - 1
      BY DEF TypeOK
    <3>2. walk.page + 1 \in 0 .. DatePages - 1
      BY <2>1, <3>1
    <3> QED BY <1>3, <2>1, <3>2
  <2>3. TypeOK'
    BY <2>1, <2>2 DEF TypeOK
  <2>4. StreamInv' /\ ClockInv' /\ NoCursorInv' /\ SweepPosInv' /\ PollPosInv'
    BY <2>1 DEF StreamInv, ClockInv, NoCursorInv, SweepPosInv, PollPosInv, At
  <2>5. LostInv' /\ SeenInv' /\ ProcessedOnce'
    BY <2>1 DEF LostInv, SeenInv, ProcessedOnce, Handled, WillRead, PollReads, SweepReads,
                NextSweepReads, MayReturn, ReadFrom
  <2>6. WalkInv'
    <3>1. walk'.page = walk.page + 1 /\ walk'.got = got
      BY <2>1
    <3>2. \A e : Newer(e)' = Newer(e)
      BY <2>1 DEF Newer
    <3>3. pc' # "idle"
      BY <1>1, <2>1
    <3> QED BY <1>3, <2>1, <3>1, <3>2, <3>3 DEF WalkInv, Behind, NextSweepReads
  <2> QED BY <2>3, <2>4, <2>5, <2>6
<1>7. ASSUME NEW skipped \in SUBSET got, Skips(skipped, got), walk' = NoWalk,
             missed' = missed \union PassedOver(got, skipped, ~reached),
             SweepRead(got \ skipped, FALSE) \/ PollRead(got \ skipped, FALSE)
      PROVE  IInv'
  <2>1. missed \in SUBSET missed' /\ missed' \in SUBSET visible
    BY <1>7 DEF PassedOver, TypeOK
  <2>2. got \ skipped \in SUBSET visible
    BY <1>3
  <2>3. PassedOver(got, skipped, ~reached) \in SUBSET missed'
    BY <1>7
  <2>4. Continues(got \ skipped, FALSE, AfterPage(got \ skipped))
    BY <1>1, <1>4, <1>5, <1>7, <2>3, WalkRead DEF got
  <2> HIDE DEF IInv
  <2> QED BY <1>7, <2>1, <2>2, <2>4, SweepReadInv, PollReadInv
<1> QED BY <1>2, <1>6, <1>7

LEMMA StepInv == IInv /\ [Next]_vars => IInv'
<1> SUFFICES ASSUME IInv, [Next]_vars PROVE IInv'
  OBVIOUS
<1>1. CASE Tick
  BY <1>1, TickInv
<1>2. ASSUME NEW e \in Events, NEW s \in (time - LateWindow) .. (time + Ahead), Commit(e, s)
      PROVE  IInv'
  <2>1. s \in Int
    BY DEF IInv, TypeOK
  <2> QED BY <1>2, <2>1, CommitInv
<1>3. CASE BeginCycle
  BY <1>3, BeginCycleInv
<1>4. ASSUME NEW page \in SUBSET visible, ExactPage(page)
      PROVE  IInv'
  BY <1>4, ExactPageInv
<1>5. ASSUME NEW page \in SUBSET visible, DatePage(page)
      PROVE  IInv'
  BY <1>5, DatePageInv
<1>6. CASE SweepError
  BY <1>6, SweepErrorInv
<1>7. CASE PollError
  BY <1>7, PollErrorInv
<1>8. CASE Restart
  BY <1>8, RestartInv
<1>9. CASE UNCHANGED vars
  BY <1>9 DEF vars, env, hist, IInv, TypeOK, StreamInv, ClockInv, NoCursorInv, SweepPosInv, PollPosInv,
              LostInv, WalkInv, Behind, Newer, SeenInv, ProcessedOnce, At, Handled, WillRead, PollReads, SweepReads,
              NextSweepReads, MayReturn, ReadFrom
<1> QED BY <1>1, <1>2, <1>3, <1>4, <1>5, <1>6, <1>7, <1>8, <1>9 DEF Next

\* The inductive invariant holds in every behaviour of the cursor.
THEOREM Invariance == Spec => []IInv
BY InitInv, StepInv, PTL DEF Spec

-----------------------------------------------------------------------------
(* EventCursor: what the invariant says.                                     *)

\* The cursor is never ahead of the monitor's own time, and the types hold
\* (realmEventCursor.advance caps it).
THEOREM NotAhead == Spec => []CursorNotAhead
<1>1. IInv => CursorNotAhead
  BY DEF IInv, ClockInv, CursorNotAhead
<1> QED BY <1>1, Invariance, PTL

LEMMA WillReadIsAhead ==
  ASSUME IInv, NEW e \in visible, WillRead(e)
  PROVE  StillAhead(e)
<1> USE DEF IInv
<1>1. /\ stamp[e] \in Nat /\ cur.since \in Int /\ cur.from \in Int /\ cur.first \in Nat
      /\ pos.next \in Int /\ pos.first \in Nat
  BY DEF StreamInv, TypeOK
<1>2. e \notin seen
  BY DEF WillRead
<1>3. CASE PollReads(e)
  <2>1. stamp[e] >= cur.since
    BY <1>1, <1>3 DEF PollReads, ReadFrom, PollPosInv
  <2> QED BY <1>2, <2>1 DEF StillAhead
<1>4. CASE SweepReads(e)
  <2>1. cur.sweeping /\ ReadFrom(e, cur.from, cur.first)
    <3>1. CASE pc = "sweep"
      BY <1>1, <1>4, <3>1 DEF SweepReads, ReadFrom, SweepPosInv
    <3>2. CASE pc # "sweep"
      BY <1>4, <3>2 DEF SweepReads
    <3> QED BY <3>1, <3>2
  <2> QED BY <1>2, <2>1 DEF StillAhead
<1>5. CASE NextSweepReads(e)
  BY <1>2, <1>5 DEF NextSweepReads, StillAhead
<1> QED BY <1>3, <1>4, <1>5 DEF WillRead

\* No event is lost, whatever requests fail, however long the sweeps take and
\* however late, within lateCommitWindow, an event becomes visible (collectEvents).
THEOREM EventsKept == Spec => []NoEventLost
<1>1. IInv => NoEventLost
  BY WillReadIsAhead DEF IInv, LostInv, NoEventLost
<1> QED BY <1>1, Invariance, PTL

\* An event is processed as new once while the monitor's clock does not step back
\* (unseen and prune).
THEOREM EventsOnce == Spec => []ProcessedOnce
<1>1. IInv => ProcessedOnce
  BY DEF IInv
<1> QED BY <1>1, Invariance, PTL
==============================================================================
