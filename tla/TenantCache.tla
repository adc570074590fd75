---------------------------- MODULE TenantCache ----------------------------
(***************************************************************************)
(* The tenant service (internal/tenant/service.go): tenants in PostgreSQL  *)
(* (internal/tenant/postgres/repository.go) behind a cache that is written *)
(* by configuration changes, by read misses, by health checks and, at      *)
(* boot, by LoadTenants.                                                   *)
(*                                                                         *)
(* Configuration changes run one at a time, under updateMu, each over      *)
(* several database calls; reads and health checks do not take updateMu.   *)
(* cacheMu is only held across work in memory, so what it protects is one  *)
(* step.  Boot applies config.yaml before the HTTP server starts; the      *)
(* server is already serving when the monitoring hook calls LoadTenants    *)
(* (internal/fx/app.go).                                                   *)
(*                                                                         *)
(* A tenant's configuration is a version number, new with every change;    *)
(* `def` is is_default, `conf` is_config_defined, and `health` stands for  *)
(* the health and error columns.                                           *)
(***************************************************************************)
EXTENDS Naturals, FiniteSets

CONSTANTS Tenants,  \* tenant ids
          Callers,  \* goroutines that call the service
          MaxVer,   \* bound: versions written in a behaviour
          Faults,   \* database calls that may fail
          Work      \* what is asked of the service: requests, "load", "health"

ASSUME MaxVerAssumption == MaxVer \in Nat \ {0}
ASSUME FaultsAssumption == Faults \subseteq {"default", "write"}
ASSUME TenantsAssumption == Tenants # {}
ASSUME CallersAssumption == "free" \notin Callers

VARIABLES
    phase,      \* "boot", then "serving"
    db,         \* the tenants table
    cache,      \* the service's cache
    updateMu,   \* the caller that holds updateMu, or Free
    call,       \* each caller's request and what it has read
    ver,        \* versions handed out so far
    load,       \* LoadTenants: "off", "listed" or "done"
    listed,     \* the rows it has listed
    check,      \* UpdateHealth in progress: tenant and health, or NoCheck
    overtaken   \* tenants whose row changed while an older copy of it, or a
                \* health of it, was on its way to the cache

vars == <<phase, db, cache, updateMu, call, ver, load, listed, check, overtaken>>

Free == "free"
Healths == {"unknown", "healthy", "unhealthy"}
Entry == [ver : Nat, def : BOOLEAN, conf : BOOLEAN, health : Healths]
Absent == [ver |-> 0, def |-> FALSE, conf |-> FALSE, health |-> "unknown"]
Present(e) == e.ver # 0

ApiOps == {"get", "create", "update", "delete"}
BootOps == {"sync", "unmark"}
Ops == ApiOps \union BootOps
PCs == {"idle", "default", "lock", "get", "fill", "write", "store", "purge", "hook"}
\* What a request says of is_default; a request to create says "clear" or "set".
DefaultAsked == {"keep", "clear", "set"}
Call == [pc : PCs, op : Ops, t : Tenants, def : DefaultAsked, new : BOOLEAN, e : Entry]

NoTenant == CHOOSE t \in Tenants : TRUE   \* of an idle caller: never read
NoCall == [pc |-> "idle", op |-> "get", t |-> NoTenant, def |-> "keep", new |-> FALSE, e |-> Absent]
NoCheck == [busy |-> FALSE, t |-> NoTenant, health |-> "unknown"]

Goto(c, pc) == call' = [call EXCEPT ![c].pc = pc]

\* The call returns, and releases updateMu if it had it.
Return(c) ==
    /\ call' = [call EXCEPT ![c] = NoCall]
    /\ updateMu' = IF updateMu = c THEN Free ELSE updateMu
----------------------------------------------------------------------------
(* Requests *)

\* A request begins.  An API request that sets is_default first asks for the
\* default tenant (tenant_handlers.go).  Boot makes its calls one by one.
Request(c, op, t, def) ==
    /\ call[c].pc = "idle"
    /\ op \in {"create", "sync"} => def # "keep"
    /\ op \in {"get", "delete", "unmark"} => def = "keep"
    /\ \/ phase = "serving" /\ op \in ApiOps
       \/ phase = "boot" /\ op \in BootOps /\ \A d \in Callers : call[d].pc = "idle"
    /\ call' = [call EXCEPT ![c] =
           [pc |-> CASE op = "get" -> "get"
                     [] op \in {"create", "update"} /\ def = "set" -> "default"
                     [] OTHER -> "lock",
            op |-> op, t |-> t, def |-> def, new |-> FALSE, e |-> Absent]]
    /\ UNCHANGED <<phase, db, cache, updateMu, ver, load, listed, check, overtaken>>

\* GetDefault: a conflict if another tenant is the default; an error of the
\* query is taken for "there is none".
CheckDefault(c) ==
    LET me == call[c]
        others == {u \in Tenants : db[u].def /\ (me.op = "update" => u # me.t)}
    IN  /\ me.pc = "default"
        /\ \/ others # {} /\ Return(c)
           \/ (others = {} \/ "default" \in Faults) /\ Goto(c, "lock") /\ UNCHANGED updateMu
        /\ UNCHANGED <<phase, db, cache, ver, load, listed, check, overtaken>>

\* Mutant: changes do not wait for each other.
LockNothing(c) ==
    LET me == call[c] IN
    /\ me.pc = "lock"
    /\ \/ me.op = "create" /\ Present(cache[me.t]) /\ Return(c)
       \/ /\ me.op = "create" /\ ~Present(cache[me.t])
          /\ call' = [call EXCEPT ![c].pc = "write", ![c].new = TRUE]
          /\ UNCHANGED updateMu
       \/ me.op # "create" /\ Goto(c, "get") /\ UNCHANGED updateMu
    /\ UNCHANGED <<phase, db, cache, ver, load, listed, check, overtaken>>

\* Take updateMu.  CreateTenant refuses a tenant that is cached; the others
\* read the tenant first.
Lock(c) ==
    LET me == call[c] IN
    /\ me.pc = "lock"
    /\ updateMu = Free
    /\ \/ me.op = "create" /\ Present(cache[me.t]) /\ Return(c)
       \/ /\ me.op = "create" /\ ~Present(cache[me.t])
          /\ updateMu' = c
          /\ call' = [call EXCEPT ![c].pc = "write", ![c].new = TRUE]
       \/ me.op # "create" /\ updateMu' = c /\ Goto(c, "get")
    /\ UNCHANGED <<phase, db, cache, ver, load, listed, check, overtaken>>
----------------------------------------------------------------------------
(* GetTenant, and what the caller makes of the tenant *)

\* Mutant: any request may change a config-defined tenant.
GotAnyway(c, e) ==
    LET op == call[c].op IN
    \/ op = "get" /\ Return(c)
    \/ /\ op # "get"
       /\ call' = [call EXCEPT ![c].pc = IF op = "delete" THEN "purge" ELSE "write", ![c].e = e]
       /\ UNCHANGED updateMu

\* The caller has the tenant e: a config-defined one is read-only to the API,
\* and only boot may change it.
Got(c, e) ==
    LET op == call[c].op
        refused == IF op \in BootOps THEN ~e.conf ELSE e.conf
    IN  \/ (op = "get" \/ refused) /\ Return(c)
        \/ /\ op # "get" /\ ~refused
           /\ call' = [call EXCEPT ![c].pc = IF op = "delete" THEN "purge" ELSE "write",
                                   ![c].e = e]
           /\ UNCHANGED updateMu

GetCached(c) ==
    /\ call[c].pc = "get"
    /\ Present(cache[call[c].t])
    /\ Got(c, cache[call[c].t])
    /\ UNCHANGED <<phase, db, cache, ver, load, listed, check, overtaken>>

\* A miss: GetByTenantID.  SyncFromConfig creates a tenant that is not there.
GetRow(c) ==
    LET me == call[c] IN
    /\ me.pc = "get"
    /\ ~Present(cache[me.t])
    /\ \/ /\ Present(db[me.t])
          /\ call' = [call EXCEPT ![c].pc = "fill", ![c].e = db[me.t]]
          /\ UNCHANGED updateMu
       \/ /\ ~Present(db[me.t]) /\ me.op = "sync"
          /\ call' = [call EXCEPT ![c].pc = "write", ![c].new = TRUE]
          /\ UNCHANGED updateMu
       \/ ~Present(db[me.t]) /\ me.op # "sync" /\ Return(c)
    /\ UNCHANGED <<phase, db, cache, ver, load, listed, check, overtaken>>

\* Mutant: no second look before the row is cached.
FillAlways(c) ==
    /\ call[c].pc = "fill"
    /\ cache' = [cache EXCEPT ![call[c].t] = call[c].e]
    /\ Got(c, call[c].e)
    /\ UNCHANGED <<phase, db, ver, load, listed, check, overtaken>>

\* Cache the row, unless the tenant was cached meanwhile.
Fill(c) ==
    LET t == call[c].t IN
    /\ call[c].pc = "fill"
    /\ \/ Present(cache[t]) /\ Got(c, cache[t]) /\ UNCHANGED cache
       \/ /\ ~Present(cache[t])
          /\ cache' = [cache EXCEPT ![t] = call[c].e]
          /\ Got(c, call[c].e)
    /\ UNCHANGED <<phase, db, ver, load, listed, check, overtaken>>
----------------------------------------------------------------------------
(* applyCreate, applyUpdate, UnmarkConfigDefined, DeleteTenant *)

\* The tenant as the call writes it.
Written(me, v) ==
    [ver    |-> v,
     def    |-> me.def = "set" \/ (me.def = "keep" /\ me.e.def),
     conf   |-> me.op = "sync",
     health |-> IF me.new THEN "unknown" ELSE me.e.health]

\* The rows of S changed while LoadTenants holds older copies of them.
Outdated(S) == IF load = "listed" THEN S ELSE {}

\* A miss has read the row and not cached it yet.
Reading(t) == \E d \in Callers : call[d].pc = "fill" /\ call[d].t = t

\* repo.Create or repo.Update: one transaction that also takes the default flag
\* from the other tenants.  Create fails if there is a row; Update leaves the
\* health columns alone, and inserts a row that is gone.
Write(c) ==
    LET me == call[c]
        new == Written(me, ver + 1)
        row == [new EXCEPT !.health = IF Present(db[me.t]) THEN db[me.t].health ELSE "unknown"]
        cleared == {u \in Tenants \ {me.t} : new.def /\ db[u].def}
    IN  /\ me.pc = "write"
        /\ \/ /\ ~(me.new /\ Present(db[me.t]))
              /\ ver < MaxVer
              /\ ver' = ver + 1
              /\ db' = [u \in Tenants |->
                           IF u = me.t THEN row
                           ELSE IF u \in cleared THEN [db[u] EXCEPT !.def = FALSE] ELSE db[u]]
              /\ call' = [call EXCEPT ![c].pc = "store", ![c].e = new]
              /\ overtaken' = overtaken \union Outdated(cleared \union {me.t})
                                       \union {u \in cleared : Reading(u)}
              /\ UNCHANGED updateMu
           \/ /\ "write" \in Faults \/ (me.new /\ Present(db[me.t]))
              /\ Return(c)
              /\ UNCHANGED <<db, ver, overtaken>>
        /\ UNCHANGED <<phase, cache, load, listed, check>>

\* Mutant: the entry takes the health the change began with.
StoreOldHealth(c) ==
    LET me == call[c] IN
    /\ me.pc = "store"
    /\ cache' = [u \in Tenants |->
                    IF u = me.t THEN me.e
                    ELSE IF me.e.def THEN [cache[u] EXCEPT !.def = FALSE] ELSE cache[u]]
    /\ Return(c)
    /\ UNCHANGED <<phase, db, ver, load, listed, check, overtaken>>

\* storeTenant: the health stays that of the entry it replaces, and a new
\* default takes the flag from the other entries.
Store(c) ==
    LET me == call[c]
        e == [me.e EXCEPT !.health = IF Present(cache[me.t]) THEN cache[me.t].health ELSE @]
    IN  /\ me.pc = "store"
        /\ cache' = [u \in Tenants |->
                        IF u = me.t THEN e
                        ELSE IF e.def THEN [cache[u] EXCEPT !.def = FALSE] ELSE cache[u]]
        /\ Return(c)
        /\ UNCHANGED <<phase, db, ver, load, listed, check, overtaken>>

\* repo.Delete purges the row.  A copy of it may still be on its way to the
\* cache, from LoadTenants, a miss or a health check.
Purge(c) ==
    LET t == call[c].t IN
    /\ call[c].pc = "purge"
    /\ \/ /\ db' = [db EXCEPT ![t] = Absent]
          /\ overtaken' = IF (check.busy /\ check.t = t) \/ Reading(t)
                          THEN overtaken \union {t} ELSE overtaken \union Outdated({t})
          /\ Goto(c, "hook")
          /\ UNCHANGED updateMu
       \/ "write" \in Faults /\ Return(c) /\ UNCHANGED <<db, overtaken>>
    /\ UNCHANGED <<phase, cache, ver, load, listed, check>>

\* After the deletion hook (it talks to GitLab) the cache forgets the tenant.
Forget(c) ==
    /\ call[c].pc = "hook"
    /\ cache' = [cache EXCEPT ![call[c].t] = Absent]
    /\ Return(c)
    /\ UNCHANGED <<phase, db, ver, load, listed, check, overtaken>>
----------------------------------------------------------------------------
(* Boot and health checks *)

Serve ==
    /\ phase = "boot"
    /\ \A c \in Callers : call[c].pc = "idle"
    /\ phase' = "serving"
    /\ UNCHANGED <<db, cache, updateMu, call, ver, load, listed, check, overtaken>>

\* LoadTenants of the monitoring hook: list the rows, then store them all.
LoadList ==
    /\ "load" \in Work
    /\ phase = "serving"
    /\ load = "off"
    /\ load' = "listed"
    /\ listed' = db
    /\ UNCHANGED <<phase, db, cache, updateMu, call, ver, check, overtaken>>

LoadStore ==
    /\ load = "listed"
    /\ load' = "done"
    /\ cache' = [t \in Tenants |-> IF Present(listed[t]) THEN listed[t] ELSE cache[t]]
    /\ listed' = [t \in Tenants |-> Absent]
    /\ UNCHANGED <<phase, db, updateMu, call, ver, check, overtaken>>

\* UpdateHealth and UpdateError, from the monitor of a tenant the service has
\* announced: the row first (an update that may find none), then the entry.
HealthRow(t, h) ==
    /\ "health" \in Work
    /\ phase = "serving"
    /\ ~check.busy
    /\ Present(cache[t])
    /\ check' = [busy |-> TRUE, t |-> t, health |-> h]
    /\ db' = IF Present(db[t]) THEN [db EXCEPT ![t].health = h] ELSE db
    /\ overtaken' = overtaken \union (IF Present(db[t]) THEN Outdated({t}) ELSE {t})
    /\ UNCHANGED <<phase, cache, updateMu, call, ver, load, listed>>

HealthEntry ==
    /\ check.busy
    /\ check' = NoCheck
    /\ cache' = IF Present(cache[check.t]) THEN [cache EXCEPT ![check.t].health = check.health]
                ELSE cache
    /\ UNCHANGED <<phase, db, updateMu, call, ver, load, listed, overtaken>>
----------------------------------------------------------------------------
Rows == {Absent} \union [ver : {1}, def : BOOLEAN, conf : BOOLEAN, health : {"unknown"}]

\* The rows of the last run; the AMFA hook may have loaded them already.
Init ==
    /\ phase = "boot"
    /\ db \in {d \in [Tenants -> Rows] : \A t, u \in Tenants : d[t].def /\ d[u].def => t = u}
    /\ cache \in {db, [t \in Tenants |-> Absent]}
    /\ updateMu = Free
    /\ call = [c \in Callers |-> NoCall]
    /\ ver = 1
    /\ load = "off"
    /\ listed = [t \in Tenants |-> Absent]
    /\ check = NoCheck
    /\ overtaken = {}

CallStep(c) ==
    \/ \E op \in Ops \cap Work, t \in Tenants, def \in DefaultAsked : Request(c, op, t, def)
    \/ CheckDefault(c) \/ Lock(c)
    \/ GetCached(c) \/ GetRow(c) \/ Fill(c)
    \/ Write(c) \/ Store(c) \/ Purge(c) \/ Forget(c)

Next ==
    \/ \E c \in Callers : CallStep(c)
    \/ Serve \/ LoadList \/ LoadStore
    \/ \E t \in Tenants, h \in {"healthy", "unhealthy"} : HealthRow(t, h)
    \/ HealthEntry

Spec == Init /\ [][Next]_vars
----------------------------------------------------------------------------
TypeOK ==
    /\ phase \in {"boot", "serving"}
    /\ db \in [Tenants -> Entry]
    /\ cache \in [Tenants -> Entry]
    /\ updateMu \in {Free} \union {c \in Callers : call[c].pc # "idle"}
    /\ call \in [Callers -> Call]
    /\ ver \in 1 .. MaxVer
    /\ load \in {"off", "listed", "done"}
    /\ listed \in [Tenants -> Entry]
    /\ check \in [busy : BOOLEAN, t : Tenants, health : Healths]
    /\ overtaken \in SUBSET Tenants
----------------------------------------------------------------------------
(* Properties *)

\* The two entries hold the same configuration.
SameConfig(d, e) == d.ver = e.ver /\ d.def = e.def /\ d.conf = e.conf

\* "The cache takes them in the order the database did": between changes, a
\* tenant that is stored and cached has one configuration in both, whatever
\* reads and health checks did meanwhile (updateMu, storeTenant, and the second
\* look GetTenant takes before it caches a row).
CacheFollowsDatabase ==
    updateMu = Free =>
        \A t \in Tenants \ overtaken :
            Present(db[t]) /\ Present(cache[t]) => SameConfig(db[t], cache[t])

\* "Each reads what the last one stored": an edit starts from the row as it is,
\* so it does not undo the edit before it.
EditsBuildOnLatest ==
    \A c \in Callers :
        call[c].pc = "write" /\ ~call[c].new /\ call[c].t \notin overtaken
            /\ Present(db[call[c].t]) => SameConfig(call[c].e, db[call[c].t])

\* An edit never puts an old health back: with no write in progress, the cached
\* health is the stored one (healthColumns, storeTenant).  The types hold.
HealthAgrees ==
    /\ TypeOK
    /\ updateMu = Free /\ ~check.busy =>
           \A t \in Tenants \ overtaken :
               Present(db[t]) /\ Present(cache[t]) => db[t].health = cache[t].health

\* One default: "a tenant that is now the default also clears the flag on every
\* other cached tenant", so that between changes no two cached tenants have it.
OneDefault ==
    updateMu = Free =>
        \A t, u \in Tenants \ overtaken :
            cache[t].def /\ cache[u].def /\ Present(db[t]) /\ Present(db[u]) => t = u

Untouched(t) == SameConfig(db[t], db'[t])

LosesDefault(t) ==
    /\ SameConfig([db[t] EXCEPT !.def = FALSE], db'[t])
    /\ \E u \in Tenants \ {t} : db'[u].def /\ ~db'[u].conf

\* A config-defined tenant "can only be changed by editing config.yaml and
\* restarting": once the server is up, no request, health check or load changes its
\* configuration or deletes it.  One thing is excepted: a tenant of the API that is
\* made the default takes the flag, from a config-defined row too
\* (unsetOtherDefaults), which DefaultNotTaken's schedules reach.
ConfigDefinedReadOnly ==
    [][phase = "serving" => \A t \in Tenants : db[t].conf => Untouched(t) \/ LosesDefault(t)]_vars

\* CacheFollowsDatabase for every tenant: updateMu orders the writes of the
\* configuration "so each reads what the last one stored and the cache takes
\* them in the order the database did".
EveryWriteInOrder ==
    updateMu = Free =>
        \A t \in Tenants : Present(db[t]) /\ Present(cache[t]) => SameConfig(db[t], cache[t])

\* "DeleteTenant removes a tenant": with nothing in progress, a tenant that is
\* cached is stored.
DeletedIsForgotten ==
    updateMu = Free /\ load # "listed" /\ (\A c \in Callers : call[c].pc # "fill") =>
        \A t \in Tenants : Present(cache[t]) => Present(db[t])

\* "Cannot set tenant as default: another tenant is already marked as default":
\* no request takes the flag from another tenant.
DefaultNotTaken ==
    [][\A t \in Tenants : db[t].def /\ Present(db'[t]) /\ ~db'[t].def =>
        \E c \in Callers : call[c].pc = "write" /\ (call[c].t = t \/ call[c].op \in BootOps)]_vars

=============================================================================
