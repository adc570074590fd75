------------------------------ MODULE ReadApi ------------------------------
(***************************************************************************)
(* What the HTTP API and the MCP server let a user read while an           *)
(* administrator changes roles, policies and tenants: the middleware and   *)
(* the read handlers of internal/http/chi, internal/reports, and the       *)
(* authorizer and the tools of internal/mcp.                               *)
(*                                                                         *)
(* A request is two steps: it is admitted (authentication, tenant,         *)
(* permission), and it is served (the realm scope is resolved and the rows *)
(* are read).  The pages about roles, accounts and tokens are the whole    *)
(* platform's; their rows have the tenant Global.  An MCP call learns      *)
(* whether its user is an administrator when its token is validated, and   *)
(* keeps that answer.  `held` and `scope` record what the user was         *)
(* entitled to since the request arrived.  A refused or failed request     *)
(* answers with no rows; a count or a statistic stands for its rows.       *)
(***************************************************************************)
EXTENDS Rbac

VARIABLES req,    \* the read request in progress
          held,   \* <<permission, tenant>> pairs its user had since it arrived
          scope   \* <<realm, tenant>> pairs in its user's scope since then

vars == <<rbacVars, req, held, scope>>

NoRealm == "none"            \* the realm of a row about the whole tenant
NoTenant == "none"           \* a call that names no tenant
Asked == Realms \union {NoRealm}
ASSUME NamesAssumption == NoRealm \notin Realms /\ {NoTenant, Global} \intersect Tenants = {}

Kinds == {"event", "metric", "realm", "user", "alert", "amfa", "action", "health", "tenant", "listed",
          "role", "assignment", "policy", "token", "account", "mine"}
PerTenant == {"health", "tenant"}
AdminOnly == {"role", "assignment", "policy", "token"}

\* The permission that guards a kind of row.
PermissionOf(kind) ==
    CASE kind = "alert" -> "alerts:read"
      [] kind = "amfa" -> "amfa:read"
      [] kind = "action" -> "metrics:read"
      [] kind = "tenant" -> "tenants:read"
      [] kind = "account" -> "platform_users:read"
      [] kind \in AdminOnly -> "admin"
      [] OTHER -> "keycloak:read"

\* The stored rows: of every kind one for each realm, an alert and an
\* operator's action also for the tenant as a whole.
Rows(kind, t, realms) ==
    {[kind |-> kind, tenant |-> t, realm |-> r] :
        r \in {x \in realms : x # NoRealm \/ kind \in PerTenant \union {"alert", "action"}}}
Everything(kind, t) == Rows(kind, t, Asked)
Whole(kind, t) == Rows(kind, t, {NoRealm})
----------------------------------------------------------------------------
(* The repositories and services that read.  To most of them no realm, or   *)
(* an empty list of realms, is no filter: every row of the tenant.          *)

\* internal/events/postgres: the sources stand for their realms.
applyFilters(t, sources) == IF sources = {} THEN Everything("event", t) ELSE Rows("event", t, sources)
List(t, sources) == applyFilters(t, sources)
CountWithFilter(t, sources) == applyFilters(t, sources)
ListKeyset(t, sources) == applyFilters(t, sources)
Stats(t, sources) == applyFilters(t, sources)
GetByTenantAndEventID(t, r) == Rows("event", t, {r})   \* the id is one of realm r

\* internal/alerts: the realm that is asked for, or a list of realms.
ListAlerts(t, realms) == IF realms = {} THEN Everything("alert", t) ELSE Rows("alert", t, realms)
ListByRealm(t, r) == ListAlerts(t, {r} \ {NoRealm})
GetStatistics(t, realms) == IF realms \ {NoRealm} = {} THEN Everything("alert", t) ELSE Rows("alert", t, realms)
GetByAlertID(t, r) == Rows("alert", t, {r})

\* internal/operator.
GetActions(t, realms) == IF realms = {} THEN Everything("action", t) ELSE Rows("action", t, realms)
timings(t, realms) == IF realms = {} THEN Everything("action", t) ELSE Rows("action", t, realms)
GetMetricsSummary(t, realms) == GetActions(t, realms) \union timings(t, realms)
GetAllOperatorsSummary(t, realms) == GetMetricsSummary(t, realms)

\* internal/keycloak: what the monitor stored, and what the tenant's client asks.
GetLatestHealth(t) == Whole("health", t)
GetHealthHistory(t) == Whole("health", t)
GetVersionInfo(t) == GetLatestHealth(t)
GetLatestMetricsByRealm(t, r) == Rows("metric", t, {r})
GetMetricsHistoryByRealm(t, r) == Rows("metric", t, {r})
GetRealms(t) == Rows("realm", t, Realms)
GetRealmByName(t, r) == Rows("realm", t, {r})
GetAllRealmMetrics(t) == UNION {GetLatestMetricsByRealm(t, row.realm) : row \in GetRealms(t)}
GetEventsByRealm(t, r) == Rows("event", t, {r})
GetEventsByType(t, r) == Rows("event", t, {r})
CountEventsByType(t, r) == IF r = NoRealm THEN Everything("event", t) ELSE Rows("event", t, {r})
GetEventStats(t, r) == CountEventsByType(t, r)
GetInfinispanMetrics(t) == Whole("health", t)
GetUsers(t, r) == Rows("user", t, {r})
GetClients(t, r) == Rows("user", t, {r})
GetUserDetails(t, r) == Rows("user", t, {r})

\* ListAmfaEnabledRealms: a cached answer is the tenant's as well.
cachedAmfaRealms(t) == Rows("realm", t, Realms)
ListAmfaEnabledRealms(t) == cachedAmfaRealms(t) \union GetRealms(t)

GetDashboard(t, r) ==
    GetLatestHealth(t) \union GetVersionInfo(t) \union
    IF r # NoRealm
    THEN GetLatestMetricsByRealm(t, r) \union GetRealmByName(t, r) \union CountEventsByType(t, r)
    ELSE GetRealms(t) \union GetAllRealmMetrics(t)

\* internal/amfa: the AMFA database or its API; both refuse to list no realm,
\* only the database counts every realm.
ListEvents(t, r) == Rows("amfa", t, {r})
GetGeoBuckets(t, r) == Rows("amfa", t, {r})
GetStats(t, r) == IF r = NoRealm THEN Everything("amfa", t) ELSE Rows("amfa", t, {r})
----------------------------------------------------------------------------
(* The HTTP API: the middleware *)

validateTenantMiddleware(t) == t \in EnabledTenants(db)
RequireTenantAccess(u, t) == HasPermission(db, u, "tenants:read", t)
requireKeycloakPermission(u, t) == HasPermission(db, u, "keycloak:read", t)
RequirePermission(u, p, t) == IsAdmin(db, u) \/ HasPermission(db, u, p, t)
checkAlertPermission(u, p, t) == HasPermission(db, u, p, t)
RequireAdmin(u) == IsAdmin(db, u)

RequireGlobalPermission(u, p) == IsAdmin(db, u) \/ HasGlobalPermission(db, u, p)

\* allowedRealmsWithAdmin.
allowedRealmsWithAdmin(u, t) ==
    IF IsAdmin(db, u) THEN [all |-> TRUE, realms |-> {}] ELSE ResolveRealmScope(GetUserPolicies(db, u), t)

InScope(sc, r) == sc.all \/ r \in sc.realms

\* checkRealmAccess refuses a request that names no realm.
checkRealmAccess(sc, r) == r # NoRealm /\ InScope(sc, r)
----------------------------------------------------------------------------
(* The HTTP API: the handlers, with the tenant, the realm that was asked    *)
(* for and the caller's scope.                                              *)

handleKeycloakHealth(t, r, sc) == GetLatestHealth(t)
handleKeycloakHealthHistory(t, r, sc) == GetHealthHistory(t)
handleInfinispanMetrics(t, r, sc) == GetInfinispanMetrics(t)
handleKeycloakVersionCheck(t, r, sc) == GetVersionInfo(t)

\* Rows that were read for the whole tenant, and are then narrowed.
narrowed(rows, sc) == {row \in rows : InScope(sc, row.realm)}
OfRealm(rows, sc, r) == IF checkRealmAccess(sc, r) THEN rows ELSE {}

handleKeycloakMetrics(t, r, sc) ==
    IF r # NoRealm THEN OfRealm(GetLatestMetricsByRealm(t, r), sc, r) ELSE narrowed(GetAllRealmMetrics(t), sc)
handleKeycloakMetricsHistory(t, r, sc) == OfRealm(GetMetricsHistoryByRealm(t, r), sc, r)
handleKeycloakEvents(t, r, sc) == OfRealm(GetEventsByRealm(t, r) \union GetEventsByType(t, r), sc, r)
handleKeycloakRealms(t, r, sc) == narrowed(GetRealms(t), sc)
handleKeycloakAmfaRealms(t, r, sc) == narrowed(ListAmfaEnabledRealms(t), sc)
handleKeycloakRealmInfo(t, r, sc) == OfRealm(GetRealmByName(t, r), sc, r)
handleKeycloakUsers(t, r, sc) == OfRealm(GetUsers(t, r), sc, r)
handleKeycloakClients(t, r, sc) == OfRealm(GetClients(t, r), sc, r)
handleKeycloakUserDetails(t, r, sc) == OfRealm(GetUserDetails(t, r), sc, r)
handleRealmUserByPath(t, r, sc) == OfRealm(GetUserDetails(t, r), sc, r)

\* statsRealmsForCaller: every realm of the tenant, or the ones in scope; the
\* counts are asked for realm by realm.
statsRealmsForCaller(t, sc) == IF sc.all THEN {row.realm : row \in GetRealms(t)} ELSE sc.realms
handleKeycloakEventStats(t, r, sc) ==
    IF r # NoRealm THEN OfRealm(GetEventStats(t, r), sc, r)
    ELSE UNION {GetEventStats(t, x) : x \in statsRealmsForCaller(t, sc)}

\* What belongs to the tenant as a whole stays.
narrowDashboardRealms(rows, sc) == {row \in rows : row.realm = NoRealm \/ InScope(sc, row.realm)}
handleKeycloakDashboard(t, r, sc) ==
    IF r # NoRealm THEN OfRealm(GetDashboard(t, r), sc, r) ELSE narrowDashboardRealms(GetDashboard(t, r), sc)

\* Mutant: an empty scope reaches the repository.
handleListAlertsOpen(t, r, sc) ==
    IF r # NoRealm THEN (IF InScope(sc, r) THEN ListAlerts(t, {r}) ELSE {})
    ELSE ListAlerts(t, sc.realms)

handleListAlerts(t, r, sc) ==
    CASE r # NoRealm /\ InScope(sc, r) -> ListAlerts(t, {r})
      [] r = NoRealm /\ (sc.all \/ sc.realms # {}) -> ListAlerts(t, sc.realms)
      [] OTHER -> {}

\* alertInScope: the alert of the realm that is asked for, looked up by its id.
alertInScope(t, r, sc) == {row \in GetByAlertID(t, r) : InScope(sc, row.realm)}
getAlertByID(t, r, sc) == alertInScope(t, r, sc)
handleAlertStats(t, r, sc) ==
    CASE r # NoRealm /\ InScope(sc, r) -> GetStatistics(t, {r})
      [] r = NoRealm /\ (sc.all \/ sc.realms # {}) -> GetStatistics(t, sc.realms)
      [] OTHER -> {}
handleListAlertsByRealm(t, r, sc) == IF checkRealmAccess(sc, r) THEN ListByRealm(t, r) ELSE {}

\* tenantEventSources: the sources of the tenant's realms that are in scope,
\* and of the realm that is asked for.  Without one, nothing is asked.
tenantEventSources(r, sc) == {x \in Realms : InScope(sc, x) /\ r \in {x, NoRealm}}
Sourced(rows, sources) == IF sources = {} THEN {} ELSE rows
handleEvents(t, r, sc) ==
    LET sources == tenantEventSources(r, sc)
    IN  Sourced(List(t, sources) \union CountWithFilter(t, sources), sources)
handleStats(t, r, sc) ==
    LET sources == tenantEventSources(r, sc) IN Sourced(CountWithFilter(t, sources), sources)
\* handleEvent looks an event up by its id, then compares its source.
handleEvent(t, r, sc) == {row \in GetByTenantAndEventID(t, r) : row.realm \in tenantEventSources(NoRealm, sc)}

\* The AMFA pages let a caller of every realm name none; the repository does not.
checkAmfaRealm(sc, r) == sc.all \/ r \in sc.realms \ {NoRealm}
handleAmfaEvents(t, r, sc) == IF checkAmfaRealm(sc, r) THEN ListEvents(t, r) ELSE {}
handleAmfaGeo(t, r, sc) == IF checkAmfaRealm(sc, r) THEN GetGeoBuckets(t, r) ELSE {}
\* statsRealm: a scope of one realm stands for it, any other scope is refused.
statsRealm(r, sc) ==
    CASE sc.all -> {r}
      [] ~sc.all /\ r # NoRealm -> {r} \intersect sc.realms
      [] OTHER -> IF Cardinality(sc.realms) = 1 THEN sc.realms ELSE {}
handleAmfaStats(t, r, sc) == UNION {GetStats(t, x) : x \in statsRealm(r, sc)}

\* realmScope: an empty scope is answered without a query.
realmScope(sc) == sc.all \/ sc.realms # {}
handleGetAllOperatorsMetrics(t, r, sc) == IF realmScope(sc) THEN GetAllOperatorsSummary(t, sc.realms) ELSE {}
handleGetOperatorMetrics(t, r, sc) == IF realmScope(sc) THEN GetMetricsSummary(t, sc.realms) ELSE {}
handleGetOperatorActions(t, r, sc) == IF realmScope(sc) THEN GetActions(t, sc.realms) ELSE {}

\* sectionAccess and AggregateData: a section for each permission.
sectionAccess(u, t) == {k \in {"alert", "event", "action"} : HasPermission(db, u, PermissionOf(k), t)}
AggregateData(t, sc, access) ==
    LET sources == tenantEventSources(NoRealm, sc) IN
    UNION {CASE k = "alert" -> IF realmScope(sc) THEN ListAlerts(t, sc.realms) ELSE {}
             [] k = "action" -> IF realmScope(sc) THEN GetAllOperatorsSummary(t, sc.realms) ELSE {}
             [] k = "event" -> Sourced(List(t, sources), sources) : k \in access}
handleGenerateReport(u, t, sc) ==
    LET access == sectionAccess(u, t) IN
    IF access \intersect {"alert", "action"} = {} THEN {} ELSE AggregateData(t, sc, access)

getTenant(t, r, sc) == Whole("tenant", t)
getTenantHealth(t, r, sc) == Whole("tenant", t)
Listed(tenants) == {[kind |-> "listed", tenant |-> t, realm |-> NoRealm] : t \in tenants}
listTenants(u) == Listed(FilterTenantsByUserRoles(db, u, {t \in Tenants : db.tenants[t] # "absent"}))

\* The pages of the platform.
Platform(kind, S) == IF S = {} THEN {} ELSE {[kind |-> kind, tenant |-> Global, realm |-> NoRealm]}
listRoles(all) == Platform("role", ListRoles(db, all))
getRole(r) == Platform("role", GetRoleWithPermissions(db, r))
handlePermissions == Platform("role", Permissions)
getUserRoles(u, t) == Platform("assignment", IF t = NoTenant THEN GetUserRoles(db, u) ELSE GetUserRolesForTenant(db, u, t))
getUserPolicies(u) == Platform("policy", GetUserPolicies(db, u))
listTokens == Platform("token", Users)
listUsers == Platform("account", Users)
getUser(u) == Platform("account", {u})

\* The caller's own roles, those only that grant something now.
GetUserWithRolesAndPermissions(u, t) ==
    LET all == IF t = NoTenant THEN GetUserRoles(db, u) ELSE GetUserRolesForTenant(db, u, t)
    IN  {g \in all : Granting(db, g)}
handleCurrentUser(u, t) ==
    {[kind |-> "mine", tenant |-> g.tenant, realm |-> NoRealm] : g \in GetUserWithRolesAndPermissions(u, t)}
----------------------------------------------------------------------------
(* The MCP server *)

\* TenantArg: a token for one tenant supplies it, a token for several names one.
TenantArg(token, arg) ==
    CASE Cardinality(token) = 1 /\ arg = NoTenant -> token
      [] Cardinality(token) > 1 /\ arg # NoTenant -> {arg}
      [] OTHER -> {}

\* AuthorizeTenant: the token's list, every permission, an enabled tenant.
AuthorizeTenant(u, token, t, perms) ==
    /\ t \in token
    /\ \A p \in perms : HasPermission(db, u, p, t)
    /\ t \in EnabledTenants(db)

\* AllowedRealms with the administrator's answer of the token's validation; an
\* empty scope is an error.
AllowedRealms(u, admin, t) ==
    IF admin THEN [all |-> TRUE, realms |-> {}] ELSE ResolveRealmScope(GetUserPolicies(db, u), t)
Refused(sc, r) == (~sc.all /\ sc.realms = {}) \/ (r # NoRealm /\ ~InScope(sc, r))

resolveEventSources(r, sc) == IF Refused(sc, r) THEN {} ELSE {x \in Realms : r = x \/ (r = NoRealm /\ InScope(sc, x))}
listEvents(t, r, sc) ==
    LET sources == resolveEventSources(r, sc) IN Sourced(ListKeyset(t, sources), sources)
getEventStats(t, r, sc) ==
    LET sources == resolveEventSources(r, sc) IN Sourced(Stats(t, sources), sources)
realmOfSource(r, sc) == ~Refused(sc, NoRealm) /\ InScope(sc, r)
getEvent(t, r, sc) == {row \in GetByTenantAndEventID(t, r) : realmOfSource(row.realm, sc)}

\* noAlertRealmsAllowed.
noAlertRealmsAllowed(r, sc) == r = NoRealm /\ ~sc.all /\ sc.realms = {}
AlertRealms(r, sc) == IF r # NoRealm THEN {r} ELSE sc.realms
listAlerts(t, r, sc) ==
    IF Refused(sc, r) \/ noAlertRealmsAllowed(r, sc) THEN {} ELSE ListAlerts(t, AlertRealms(r, sc))
getAlertStats(t, r, sc) ==
    IF Refused(sc, r) \/ noAlertRealmsAllowed(r, sc) THEN {} ELSE GetStatistics(t, AlertRealms(r, sc))
getAlert(t, r, sc) == IF Refused(sc, NoRealm) THEN {} ELSE alertInScope(t, r, sc)
getAmfaStats(t, r, sc) == IF r = NoRealm \/ Refused(sc, r) THEN {} ELSE GetStats(t, r)
listRealms(t, r, sc) == IF Refused(sc, NoRealm) THEN {} ELSE narrowed(GetRealms(t), sc)
mcpTenantHealth(t, r, sc) == Whole("tenant", t)

\* VisibleTenants: an administrator skips the permission, not the token's list.
VisibleTenants(u, admin, token) ==
    IF token = {} \/ ~(admin \/ "tenants:read" \in GetAnyPermissions(db, u)) THEN {}
    ELSE Listed(FilterTenantsByUserRoles(db, u, EnabledTenants(db)) \intersect token)

\* What a tool that needs these permissions may answer.
Tool(u, token, t, perms, rows) == IF AuthorizeTenant(u, token, t, perms) THEN rows ELSE {}
----------------------------------------------------------------------------
(* Requests *)

\* The route groups, with what each of them checks first.
Admits(u, group, t) ==
    CASE group = "keycloak" -> validateTenantMiddleware(t) /\ RequireTenantAccess(u, t) /\ requireKeycloakPermission(u, t)
      [] group = "system" -> /\ validateTenantMiddleware(t) /\ RequireTenantAccess(u, t)
                             /\ RequirePermission(u, "keycloak:read", t)
      [] group = "alerts" -> RequireTenantAccess(u, t) /\ checkAlertPermission(u, "alerts:read", t)
      [] group = "amfa" -> RequireTenantAccess(u, t) /\ RequirePermission(u, "amfa:read", t)
      [] group = "operators" -> RequireTenantAccess(u, t) /\ RequirePermission(u, "metrics:read", t)
      [] group = "reports" -> RequireTenantAccess(u, t) /\ db.tenants[t] # "absent"
      [] group = "tenant" -> RequireTenantAccess(u, t) /\ RequirePermission(u, "tenants:read", t)
      [] group = "tenants" -> IsAdmin(db, u) \/ "tenants:read" \in GetAnyPermissions(db, u)
      [] group = "rbac" -> RequireAdmin(u)
      [] group = "users" -> RequireGlobalPermission(u, "platform_users:read")
      [] group = "me" -> TRUE
Groups == {"keycloak", "system", "alerts", "amfa", "operators", "reports", "tenant", "tenants", "rbac", "users", "me"}

\* The answers that the handlers of a group may give.
Answers(u, group, t, r, sc) ==
    CASE group = "keycloak" ->
            {handleKeycloakHealth(t, r, sc), handleKeycloakHealthHistory(t, r, sc), handleInfinispanMetrics(t, r, sc),
             handleKeycloakVersionCheck(t, r, sc), handleKeycloakMetrics(t, r, sc),
             handleKeycloakMetricsHistory(t, r, sc), handleKeycloakEvents(t, r, sc), handleKeycloakRealms(t, r, sc),
             handleKeycloakAmfaRealms(t, r, sc), handleKeycloakRealmInfo(t, r, sc), handleKeycloakUsers(t, r, sc),
             handleKeycloakClients(t, r, sc), handleKeycloakUserDetails(t, r, sc), handleRealmUserByPath(t, r, sc),
             handleKeycloakEventStats(t, r, sc), handleKeycloakDashboard(t, r, sc)}
      [] group = "system" -> {handleEvents(t, r, sc), handleEvent(t, r, sc), handleStats(t, r, sc)}
      [] group = "alerts" -> {handleListAlerts(t, r, sc), getAlertByID(t, r, sc), handleAlertStats(t, r, sc),
                              handleListAlertsByRealm(t, r, sc)}
      [] group = "amfa" -> {handleAmfaEvents(t, r, sc), handleAmfaGeo(t, r, sc), handleAmfaStats(t, r, sc)}
      [] group = "operators" -> {handleGetAllOperatorsMetrics(t, r, sc), handleGetOperatorMetrics(t, r, sc),
                                 handleGetOperatorActions(t, r, sc)}
      [] group = "reports" -> {handleGenerateReport(u, t, sc)}
      [] group = "tenant" -> {getTenant(t, r, sc), getTenantHealth(t, r, sc)}
      [] group = "tenants" -> {listTenants(u)}
      [] group = "rbac" -> {listRoles(TRUE), listRoles(FALSE), handlePermissions, listTokens} \union
                           {getRole(x) : x \in Roles} \union
                           {getUserPolicies(x) : x \in Users} \union
                           {getUserRoles(x, tn) : x \in Users, tn \in {t, NoTenant}}
      [] group = "users" -> {listUsers} \union {getUser(x) : x \in Users}
      [] group = "me" -> {handleCurrentUser(u, t), handleCurrentUser(u, NoTenant)}

ToolAnswers(u, admin, token, t, r) ==
    LET sc == AllowedRealms(u, admin, t)
        events == {"keycloak:read"}
        alerts == {"alerts:read"}
    IN  {Tool(u, token, t, events, listEvents(t, r, sc)), Tool(u, token, t, events, getEvent(t, r, sc)),
         Tool(u, token, t, events, getEventStats(t, r, sc)), Tool(u, token, t, alerts, listAlerts(t, r, sc)),
         Tool(u, token, t, alerts, getAlert(t, r, sc)), Tool(u, token, t, alerts, getAlertStats(t, r, sc)),
         Tool(u, token, t, {"amfa:read"}, getAmfaStats(t, r, sc)),
         Tool(u, token, t, {"tenants:read", "keycloak:read"}, listRealms(t, r, sc)),
         Tool(u, token, t, {"tenants:read"}, mcpTenantHealth(t, r, sc))}

\* What a user is entitled to, in one state: permissions for a tenant or for
\* all, tenants that a role names, to be an administrator, and realms.
Entitled(d, u) ==
    {x \in Permissions \X Tenants : IsAdmin(d, u) \/ HasPermission(d, u, x[1], x[2])} \union
    {<<p, Global>> : p \in {x \in Permissions : IsAdmin(d, u) \/ HasGlobalPermission(d, u, x)}} \union
    {<<"role", t>> : t \in {x \in Tenants \union {Global} :
                            \E g \in GetEffectiveUserRoles(d, u) : g.tenant \in {Global, x}}} \union
    {<<"admin", Global>> : x \in {y \in {u} : IsAdmin(d, y)}}
Scope(d, u) ==
    {x \in Asked \X Tenants :
        LET rows == {p \in d.policies : p.user = u /\ p.tenant = x[2]}
        IN  IsAdmin(d, u) \/ rows = {} \/ \E p \in rows : p.all \/ x[1] \in p.realms}

NoRequest == [pc |-> "idle"]

HttpAdmit(u, group, t) ==
    /\ req = NoRequest /\ Admits(u, group, t)
    /\ req' = [pc |-> "http", user |-> u, group |-> group, tenant |-> t]
    /\ held' = Entitled(db, u) /\ scope' = Scope(db, u)
    /\ UNCHANGED rbacVars

HttpServe(r) ==
    /\ req.pc = "http"
    /\ LET sc == allowedRealmsWithAdmin(req.user, req.tenant) IN
       \E rows \in Answers(req.user, req.group, req.tenant, r, sc) : req' = [pc |-> "served", rows |-> rows]
    /\ UNCHANGED <<rbacVars, held, scope>>

\* AuthMiddleware of the MCP server: the token is valid; a failed lookup is
\* no administrator.
AuthMiddleware(u, token) ==
    /\ req = NoRequest
    /\ \E admin \in {IsAdmin(db, u)} \union (IF "lookup" \in Faults THEN {FALSE} ELSE {}) :
          req' = [pc |-> "mcp", user |-> u, admin |-> admin, token |-> token]
    /\ held' = Entitled(db, u) /\ scope' = Scope(db, u)
    /\ UNCHANGED rbacVars

\* wrapTool: the rate limit and the size of the answer may refuse it.
wrapTool(arg, r) ==
    /\ req.pc = "mcp"
    /\ \E rows \in (UNION {ToolAnswers(req.user, req.admin, req.token, t, r) : t \in TenantArg(req.token, arg)})
                   \union {VisibleTenants(req.user, req.admin, req.token), {}} :
          req' = [pc |-> "served", rows |-> rows]
    /\ UNCHANGED <<rbacVars, held, scope>>

\* An answer that was given is forgotten.
Answered == req.pc = "served" /\ req' = NoRequest /\ held' = {} /\ scope' = {} /\ UNCHANGED rbacVars

\* An administrator's step; what the request's user has by now is remembered.
Administer ==
    /\ RbacNext
    /\ req.pc # "served"
    /\ req' = req
    /\ held' = IF req = NoRequest THEN {} ELSE held \union Entitled(db', req.user)
    /\ scope' = IF req = NoRequest THEN {} ELSE scope \union Scope(db', req.user)

Init == RbacInit /\ req = NoRequest /\ held = {} /\ scope = {}

Next ==
    \/ Administer
    \/ \E u \in Users, group \in Groups, t \in Tenants : HttpAdmit(u, group, t)
    \/ \E r \in Asked : HttpServe(r)
    \/ \E u \in Users, token \in SUBSET Tenants : AuthMiddleware(u, token)
    \/ \E arg \in Tenants \union {NoTenant}, r \in Asked : wrapTool(arg, r)
    \/ Answered

Spec == Init /\ [][Next]_vars
----------------------------------------------------------------------------
TypeOK ==
    /\ db.roles \in [Roles -> Role] /\ db.granted \subseteq UserRole /\ db.policies \subseteq TenantPolicy
    /\ db.tenants \in [Tenants -> {"absent", "enabled", "disabled"}]
    /\ ops \in 0..MaxOps
    /\ req.pc \in {"idle", "http", "mcp", "served"}
    /\ held \subseteq (Permissions \union {"role", "admin"}) \X (Tenants \union {Global})
    /\ scope \subseteq Asked \X Tenants

\* No handler and no tool answers with a row whose permission its user lacked
\* for the row's tenant, or whose realm was outside the user's policies, all
\* through the request - whatever administrators change between the check of
\* the permission and the reading of the rows.  A restricted user never sees a
\* row that belongs to the tenant as a whole; the accounts are shown to grants for
\* every tenant only, the caller's own page lists no role that has ended.  The
\* types hold.
ReadsConfined ==
    /\ TypeOK
    /\ req.pc = "served" =>
           \A row \in req.rows :
               IF row.kind \in {"listed", "mine"} THEN <<"role", row.tenant>> \in held
               ELSE /\ <<PermissionOf(row.kind), row.tenant>> \in held
                    /\ row.kind \in PerTenant \/ row.tenant = Global \/ <<row.realm, row.tenant>> \in scope

\* A tenant whose pages a user may open is in the list of tenants that the web
\* and the MCP server show.
AccessibleIsListed ==
    \A u \in Users, t \in EnabledTenants(db) :
        RequireTenantAccess(u, t) =>
            t \in FilterTenantsByUserRoles(db, u, EnabledTenants(db))

\* A failed creation leaves no empty role: a role without permissions is still
\* being made.  (An administrator gives every role some, in this instance.)
NoEmptyRole ==
    \A r \in Custom :
        db.roles[r].state = "live" /\ db.roles[r].perms = {} =>
            \E c \in Callers : call[c].pc \in {"setNew", "unmake"} /\ call[c].role = r
=============================================================================
