--------------------------- MODULE ReadApiProofs ---------------------------
(***************************************************************************)
(* Theorems about ReadApi, for any users, tenants, realms, roles, grants   *)
(* and number of administrators' requests: what a request answers with is  *)
(* within what its user was entitled to while it ran.                      *)
(*                                                                         *)
(* A handler is a function of the tenant, the realm that was asked for and *)
(* the caller's scope, so the lemmas about handlers speak of any pairs h   *)
(* of a permission and a tenant and any pairs s of a realm and a tenant;   *)
(* the invariant says which of them `held` and `scope` contain.            *)
(***************************************************************************)
EXTENDS ReadApi, TLAPS

\* The body of ReadsConfined for one row and for a set of rows.
Allowed(row, h, s) ==
    IF row.kind \in {"listed", "mine"} THEN <<"role", row.tenant>> \in h
    ELSE /\ <<PermissionOf(row.kind), row.tenant>> \in h
         /\ row.kind \in PerTenant \/ row.tenant = Global \/ <<row.realm, row.tenant>> \in s
Confined(rows, h, s) == \A row \in rows : Allowed(row, h, s)

RealmScopes == [all : BOOLEAN, realms : SUBSET Realms]

\* Every realm of the scope sc, for tenant t, is in s.
Within(sc, t, s) == \A x \in Asked : InScope(sc, x) => <<x, t>> \in s
----------------------------------------------------------------------------
(* Rows *)

LEMMA PermissionFacts ==
    /\ \A k \in {"event", "metric", "realm", "user", "health"} : PermissionOf(k) = "keycloak:read"
    /\ PermissionOf("alert") = "alerts:read"
    /\ PermissionOf("amfa") = "amfa:read"
    /\ PermissionOf("action") = "metrics:read"
    /\ PermissionOf("tenant") = "tenants:read"
    /\ PermissionOf("account") = "platform_users:read"
    /\ \A k \in AdminOnly : PermissionOf(k) = "admin"
  BY DEF PermissionOf, AdminOnly

\* Rows of one kind and one tenant are confined when its permission is held and
\* each of their realms is in the scope, or the kind has no realms.
LEMMA RowsConfined ==
    ASSUME NEW kind \in Kinds \ {"listed", "mine"}, NEW t, NEW realms, NEW h, NEW s,
           <<PermissionOf(kind), t>> \in h,
           \A x \in realms : kind \in PerTenant \/ <<x, t>> \in s
                             \/ (x = NoRealm /\ kind \notin {"alert", "action"})
    PROVE  Confined(Rows(kind, t, realms), h, s)
<1> SUFFICES ASSUME NEW row \in Rows(kind, t, realms)
             PROVE  Allowed(row, h, s)
    BY DEF Confined
<1>1. row.kind = kind /\ row.tenant = t /\ row.realm \in realms
    BY DEF Rows
<1>2. row.realm # NoRealm \/ kind \in PerTenant \union {"alert", "action"}
    BY DEF Rows
<1>3. row.kind \notin {"listed", "mine"}
    BY <1>1
<1>4. <<PermissionOf(row.kind), row.tenant>> \in h
    BY <1>1
<1>5. row.kind \in PerTenant \/ <<row.realm, row.tenant>> \in s
    BY <1>1, <1>2
<1> QED BY <1>3, <1>4, <1>5 DEF Allowed

LEMMA ConfinedUnion ==
    ASSUME NEW A, NEW B, NEW h, NEW s, Confined(A, h, s), Confined(B, h, s)
    PROVE  Confined(A \union B, h, s)
  BY DEF Confined

LEMMA ConfinedSubset ==
    ASSUME NEW A, NEW B, NEW h, NEW s, Confined(A, h, s), B \subseteq A
    PROVE  Confined(B, h, s)
  BY DEF Confined

LEMMA NothingConfined == ASSUME NEW h, NEW s PROVE Confined({}, h, s)
  BY DEF Confined

LEMMA ConfinedUnions ==
    ASSUME NEW S, NEW h, NEW s, \A A \in S : Confined(A, h, s)
    PROVE  Confined(UNION S, h, s)
  BY DEF Confined
----------------------------------------------------------------------------
(* Answers of the HTTP API *)

\* What each kind's rows need, for a tenant whose permission is held.
LEMMA KindConfined ==
    ASSUME NEW kind \in Kinds \ {"listed", "mine"}, NEW t, NEW h, NEW s,
           <<PermissionOf(kind), t>> \in h
    PROVE  /\ kind \in PerTenant => \A S : Confined(Rows(kind, t, S), h, s)
           /\ \A S : (\A x \in S : <<x, t>> \in s) => Confined(Rows(kind, t, S), h, s)
           /\ kind \notin {"alert", "action"} =>
                 \A S : (\A x \in S \ {NoRealm} : <<x, t>> \in s) => Confined(Rows(kind, t, S), h, s)
<1>1. ASSUME kind \in PerTenant, NEW S
      PROVE  Confined(Rows(kind, t, S), h, s)
    BY <1>1, RowsConfined
<1>2. ASSUME NEW S, \A x \in S : <<x, t>> \in s
      PROVE  Confined(Rows(kind, t, S), h, s)
    BY <1>2, RowsConfined
<1>3. ASSUME kind \notin {"alert", "action"}, NEW S, \A x \in S \ {NoRealm} : <<x, t>> \in s
      PROVE  Confined(Rows(kind, t, S), h, s)
    BY <1>3, RowsConfined
<1> QED BY <1>1, <1>2, <1>3

\* What is narrowed after it was read for the whole tenant.
LEMMA NarrowedConfined ==
    ASSUME NEW kind \in {"metric", "realm"}, NEW t, NEW h, NEW s, NEW sc \in RealmScopes,
           Within(sc, t, s), <<"keycloak:read", t>> \in h,
           NEW rows \in SUBSET Rows(kind, t, Realms)
    PROVE  Confined(narrowed(rows, sc), h, s)
<1>1. SUFFICES ASSUME NEW row \in narrowed(rows, sc)
               PROVE  Allowed(row, h, s)
    BY DEF Confined
<1>2. row \in Rows(kind, t, Realms) /\ InScope(sc, row.realm)
    BY <1>1 DEF narrowed
<1>3. row.kind = kind /\ row.tenant = t /\ row.realm \in Asked
    BY <1>2 DEF Rows, Asked
<1>4. <<row.realm, row.tenant>> \in s
    BY <1>2, <1>3 DEF Within
<1>5. <<PermissionOf(row.kind), row.tenant>> \in h
    BY <1>3, PermissionFacts
<1> QED BY <1>3, <1>4, <1>5 DEF Allowed

LEMMA RealmMetrics ==
    ASSUME NEW t
    PROVE  GetAllRealmMetrics(t) \subseteq Rows("metric", t, Realms) /\ GetRealms(t) = Rows("realm", t, Realms)
<1>1. \A row \in GetRealms(t) : row.realm \in Realms
    BY DEF GetRealms, Rows
<1> QED BY <1>1 DEF GetAllRealmMetrics, GetRealms, GetLatestMetricsByRealm, Rows

\* The group "keycloak".
LEMMA KeycloakConfined ==
    ASSUME NEW u, NEW t, NEW r \in Asked, NEW sc \in RealmScopes, NEW h, NEW s,
           Within(sc, t, s), <<"keycloak:read", t>> \in h
    PROVE  \A rows \in Answers(u, "keycloak", t, r, sc) : Confined(rows, h, s)
<1>1. \A S : Confined(Rows("health", t, S), h, s)
    BY KindConfined, PermissionFacts DEF Kinds, PerTenant
<1>2. \A k \in {"event", "metric", "realm", "user"} : \A S :
        (\A x \in S \ {NoRealm} : <<x, t>> \in s) => Confined(Rows(k, t, S), h, s)
    BY KindConfined, PermissionFacts DEF Kinds
<1>3. ASSUME checkRealmAccess(sc, r), NEW k \in {"event", "metric", "realm", "user"}
      PROVE  Confined(Rows(k, t, {r}), h, s)
    <2>1. <<r, t>> \in s
        BY <1>3 DEF checkRealmAccess, Within
    <2> QED BY <1>2, <2>1
<1>4. Confined({}, h, s)
    BY NothingConfined
<1>5. Confined(Whole("health", t), h, s)
    BY <1>1 DEF Whole
<1>6. Confined(handleKeycloakMetrics(t, r, sc), h, s)
    <2>1. Confined(narrowed(GetAllRealmMetrics(t), sc), h, s)
        BY RealmMetrics, NarrowedConfined
    <2> QED BY <2>1, <1>3, <1>4 DEF handleKeycloakMetrics, OfRealm, GetLatestMetricsByRealm
<1>7. Confined(handleKeycloakEvents(t, r, sc), h, s)
    BY <1>3, <1>4, ConfinedUnion DEF handleKeycloakEvents, OfRealm, GetEventsByRealm, GetEventsByType
<1>8. Confined(handleKeycloakRealms(t, r, sc), h, s) /\ Confined(handleKeycloakAmfaRealms(t, r, sc), h, s)
    BY RealmMetrics, NarrowedConfined
       DEF handleKeycloakRealms, handleKeycloakAmfaRealms, ListAmfaEnabledRealms, cachedAmfaRealms
<1>9. /\ Confined(handleKeycloakMetricsHistory(t, r, sc), h, s)
      /\ Confined(handleKeycloakRealmInfo(t, r, sc), h, s)
      /\ Confined(handleKeycloakUsers(t, r, sc), h, s)
      /\ Confined(handleKeycloakClients(t, r, sc), h, s)
      /\ Confined(handleKeycloakUserDetails(t, r, sc), h, s)
      /\ Confined(handleRealmUserByPath(t, r, sc), h, s)
    BY <1>3, <1>4 DEF handleKeycloakMetricsHistory, handleKeycloakRealmInfo, handleKeycloakUsers,
        handleKeycloakClients, handleKeycloakUserDetails, handleRealmUserByPath, OfRealm,
        GetMetricsHistoryByRealm, GetRealmByName, GetUsers, GetClients, GetUserDetails
<1>10. Confined(handleKeycloakEventStats(t, r, sc), h, s)
    <2>1. CASE r # NoRealm
        BY <2>1, <1>3, <1>4 DEF handleKeycloakEventStats, OfRealm, GetEventStats, CountEventsByType
    <2>2. CASE r = NoRealm
        <3>1. \A x \in statsRealmsForCaller(t, sc) : x \in Realms /\ InScope(sc, x)
            BY RealmMetrics DEF statsRealmsForCaller, Rows, RealmScopes, InScope
        <3>2. \A x \in statsRealmsForCaller(t, sc) : x # NoRealm /\ <<x, t>> \in s
            BY <3>1, NamesAssumption DEF Within, Asked
        <3>3. \A x \in statsRealmsForCaller(t, sc) : Confined(GetEventStats(t, x), h, s)
            BY <3>2, <1>2 DEF GetEventStats, CountEventsByType
        <3> QED BY <2>2, <3>3, ConfinedUnions DEF handleKeycloakEventStats
    <2> QED BY <2>1, <2>2
<1>11. Confined(handleKeycloakDashboard(t, r, sc), h, s)
    <2>1. ASSUME checkRealmAccess(sc, r)
          PROVE  Confined(GetDashboard(t, r), h, s)
        <3>1. r # NoRealm
            BY <2>1 DEF checkRealmAccess
        <3>2. /\ Confined(GetLatestMetricsByRealm(t, r), h, s)
              /\ Confined(GetRealmByName(t, r), h, s)
              /\ Confined(CountEventsByType(t, r), h, s)
            BY <2>1, <3>1, <1>3 DEF GetLatestMetricsByRealm, GetRealmByName, CountEventsByType
        <3> QED BY <3>1, <3>2, <1>5, ConfinedUnion DEF GetDashboard, GetLatestHealth, GetVersionInfo
    <2>2. Confined(narrowDashboardRealms(GetDashboard(t, NoRealm), sc), h, s)
        <3>1. SUFFICES ASSUME NEW row \in GetDashboard(t, NoRealm), row.realm = NoRealm \/ InScope(sc, row.realm)
                       PROVE  Allowed(row, h, s)
            BY DEF Confined, narrowDashboardRealms
        <3>2. \/ row \in Whole("health", t)
              \/ row \in Rows("realm", t, Realms)
              \/ row \in Rows("metric", t, Realms)
            BY <3>1, RealmMetrics DEF GetDashboard, GetLatestHealth, GetVersionInfo
        <3>3. CASE row \in Whole("health", t)
            BY <3>3, <1>5 DEF Confined
        <3>4. ASSUME NEW k \in {"realm", "metric"}, row \in Rows(k, t, Realms)
              PROVE  Allowed(row, h, s)
            <4>1. row.realm # NoRealm
                BY <3>4, NamesAssumption DEF Rows
            <4>2. row \in narrowed(Rows(k, t, Realms), sc)
                BY <3>1, <3>4, <4>1 DEF narrowed
            <4>3. Confined(narrowed(Rows(k, t, Realms), sc), h, s)
                BY NarrowedConfined
            <4> QED BY <4>2, <4>3 DEF Confined
        <3> QED BY <3>2, <3>3, <3>4
    <2> QED BY <2>1, <2>2, <1>4 DEF handleKeycloakDashboard, OfRealm
<1>12. /\ Confined(handleKeycloakHealth(t, r, sc), h, s)
       /\ Confined(handleKeycloakHealthHistory(t, r, sc), h, s)
       /\ Confined(handleInfinispanMetrics(t, r, sc), h, s)
       /\ Confined(handleKeycloakVersionCheck(t, r, sc), h, s)
    BY <1>5 DEF handleKeycloakHealth, handleKeycloakHealthHistory, handleInfinispanMetrics,
        handleKeycloakVersionCheck, GetLatestHealth, GetHealthHistory, GetInfinispanMetrics, GetVersionInfo
<1> QED BY <1>6, <1>7, <1>8, <1>9, <1>10, <1>11, <1>12 DEF Answers

\* A scope narrows what is read to the realms of its list, which names none only
\* if the caller has every realm.
LEMMA ScopeLists ==
    ASSUME NEW t, NEW s, NEW sc \in RealmScopes, Within(sc, t, s), realmScope(sc), sc.all => sc.realms = {}
    PROVE  /\ sc.realms \subseteq Asked
           /\ \A x \in sc.realms : <<x, t>> \in s /\ x # NoRealm
           /\ sc.realms = {} => \A x \in Asked : <<x, t>> \in s
  BY NamesAssumption DEF Within, realmScope, RealmScopes, InScope, Asked

LEMMA AlertsOfList ==
    ASSUME NEW t, NEW h, NEW s, NEW S \in SUBSET Asked, <<"alerts:read", t>> \in h,
           \A x \in S : <<x, t>> \in s,
           S = {} => \A x \in Asked : <<x, t>> \in s
    PROVE  /\ Confined(ListAlerts(t, S), h, s)
           /\ (NoRealm \in S => \A x \in Asked : <<x, t>> \in s) => Confined(GetStatistics(t, S), h, s)
<1>1. \A T : (\A x \in T : <<x, t>> \in s) => Confined(Rows("alert", t, T), h, s)
    BY KindConfined, PermissionFacts DEF Kinds
<1>2. ASSUME \A x \in Asked : <<x, t>> \in s
      PROVE  Confined(Everything("alert", t), h, s)
    BY <1>1, <1>2 DEF Everything
<1>3. Confined(Rows("alert", t, S), h, s)
    BY <1>1
<1>4. S \ {NoRealm} = {} => S = {} \/ NoRealm \in S
    OBVIOUS
<1> QED BY <1>2, <1>3, <1>4 DEF ListAlerts, GetStatistics

LEMMA ActionsOfList ==
    ASSUME NEW t, NEW h, NEW s, NEW S \in SUBSET Asked, <<"metrics:read", t>> \in h,
           \A x \in S : <<x, t>> \in s,
           S = {} => \A x \in Asked : <<x, t>> \in s
    PROVE  /\ Confined(GetActions(t, S), h, s)
           /\ Confined(GetMetricsSummary(t, S), h, s)
           /\ Confined(GetAllOperatorsSummary(t, S), h, s)
<1>1. \A T : (\A x \in T : <<x, t>> \in s) => Confined(Rows("action", t, T), h, s)
    BY KindConfined, PermissionFacts DEF Kinds
<1>2. Confined(GetActions(t, S), h, s) /\ Confined(timings(t, S), h, s)
    <2>1. CASE S = {}
        BY <2>1, <1>1 DEF GetActions, timings, Everything
    <2>2. CASE S # {}
        BY <2>2, <1>1 DEF GetActions, timings
    <2> QED BY <2>1, <2>2
<1> QED BY <1>2, ConfinedUnion DEF GetMetricsSummary, GetAllOperatorsSummary

\* Events of a set of sources that is not empty.
LEMMA EventsOfSources ==
    ASSUME NEW t, NEW h, NEW s, NEW S \in SUBSET Asked, <<"keycloak:read", t>> \in h,
           \A x \in S : <<x, t>> \in s
    PROVE  /\ Confined(Sourced(List(t, S) \union CountWithFilter(t, S), S), h, s)
           /\ Confined(Sourced(List(t, S), S), h, s)
           /\ Confined(Sourced(CountWithFilter(t, S), S), h, s)
           /\ Confined(Sourced(ListKeyset(t, S), S), h, s)
           /\ Confined(Sourced(Stats(t, S), S), h, s)
<1>1. Confined(Rows("event", t, S), h, s)
    BY KindConfined, PermissionFacts DEF Kinds
<1>2. Confined({}, h, s)
    BY NothingConfined
<1>3. S # {} => /\ applyFilters(t, S) = Rows("event", t, S)
                /\ applyFilters(t, S) \union applyFilters(t, S) = Rows("event", t, S)
    BY DEF applyFilters
<1> QED BY <1>1, <1>2, <1>3 DEF Sourced, List, CountWithFilter, ListKeyset, Stats

LEMMA SourcesInScope ==
    ASSUME NEW t, NEW r, NEW s, NEW sc, Within(sc, t, s)
    PROVE  /\ tenantEventSources(r, sc) \in SUBSET Asked
           /\ \A x \in tenantEventSources(r, sc) : <<x, t>> \in s
  BY DEF tenantEventSources, Within, Asked

\* One alert or event, looked up by its id and then compared with the scope.
LEMMA OneRowConfined ==
    ASSUME NEW kind \in {"alert", "event"}, NEW t, NEW r \in Asked, NEW h, NEW s,
           <<PermissionOf(kind), t>> \in h, <<r, t>> \in s
    PROVE  Confined(Rows(kind, t, {r}), h, s)
  BY KindConfined DEF Kinds

LEMMA AlertInScopeConfined ==
    ASSUME NEW t, NEW r \in Asked, NEW sc, NEW h, NEW s,
           Within(sc, t, s), <<"alerts:read", t>> \in h
    PROVE  Confined(alertInScope(t, r, sc), h, s)
<1>1. \A row \in GetByAlertID(t, r) : row.realm = r
    BY DEF GetByAlertID, Rows
<1>2. CASE InScope(sc, r)
    <2>1. Confined(GetByAlertID(t, r), h, s)
        BY <1>2, OneRowConfined, PermissionFacts DEF Within, GetByAlertID
    <2> QED BY <2>1, ConfinedSubset DEF alertInScope
<1>3. CASE ~InScope(sc, r)
    <2>1. alertInScope(t, r, sc) = {}
        BY <1>1, <1>3 DEF alertInScope
    <2> QED BY <2>1, NothingConfined
<1> QED BY <1>2, <1>3

\* The group "system".
LEMMA SystemConfined ==
    ASSUME NEW u, NEW t, NEW r \in Asked, NEW sc \in RealmScopes, NEW h, NEW s,
           Within(sc, t, s), <<"keycloak:read", t>> \in h
    PROVE  \A rows \in Answers(u, "system", t, r, sc) : Confined(rows, h, s)
<1>1. Confined(handleEvents(t, r, sc), h, s) /\ Confined(handleStats(t, r, sc), h, s)
    BY SourcesInScope, EventsOfSources DEF handleEvents, handleStats
<1>2. Confined(handleEvent(t, r, sc), h, s)
    <2>1. \A row \in GetByTenantAndEventID(t, r) : row.realm = r
        BY DEF GetByTenantAndEventID, Rows
    <2>2. CASE r \in tenantEventSources(NoRealm, sc)
        <3>1. Confined(GetByTenantAndEventID(t, r), h, s)
            BY <2>2, SourcesInScope, OneRowConfined, PermissionFacts DEF GetByTenantAndEventID
        <3> QED BY <3>1, ConfinedSubset DEF handleEvent
    <2>3. CASE r \notin tenantEventSources(NoRealm, sc)
        <3>1. handleEvent(t, r, sc) = {}
            BY <2>1, <2>3 DEF handleEvent
        <3> QED BY <3>1, NothingConfined
    <2> QED BY <2>2, <2>3
<1> QED BY <1>1, <1>2 DEF Answers

\* The group "alerts".
LEMMA AlertsConfined ==
    ASSUME NEW u, NEW t, NEW r \in Asked, NEW sc \in RealmScopes, NEW h, NEW s,
           sc.all => sc.realms = {}, Within(sc, t, s), <<"alerts:read", t>> \in h
    PROVE  \A rows \in Answers(u, "alerts", t, r, sc) : Confined(rows, h, s)
<1>1. ASSUME r # NoRealm, InScope(sc, r)
      PROVE  Confined(ListAlerts(t, {r}), h, s) /\ Confined(GetStatistics(t, {r}), h, s)
    <2>1. <<r, t>> \in s /\ {r} \in SUBSET Asked /\ NoRealm \notin {r}
        BY <1>1 DEF Within
    <2> QED BY <2>1, AlertsOfList
<1>2. ASSUME sc.all \/ sc.realms # {}
      PROVE  Confined(ListAlerts(t, sc.realms), h, s) /\ Confined(GetStatistics(t, sc.realms), h, s)
    <2>1. realmScope(sc)
        BY <1>2 DEF realmScope
    <2> QED BY <2>1, ScopeLists, AlertsOfList
<1>3. Confined({}, h, s)
    BY NothingConfined
<1>4. Confined(handleListAlerts(t, r, sc), h, s)
    BY <1>1, <1>2, <1>3 DEF handleListAlerts
<1>5. Confined(handleAlertStats(t, r, sc), h, s)
    BY <1>1, <1>2, <1>3 DEF handleAlertStats
<1>6. Confined(handleListAlertsByRealm(t, r, sc), h, s)
    <2>1. CASE checkRealmAccess(sc, r)
        <3>1. {r} \ {NoRealm} = {r}
            BY <2>1 DEF checkRealmAccess
        <3> QED BY <2>1, <3>1, <1>1 DEF handleListAlertsByRealm, ListByRealm, checkRealmAccess
    <2> QED BY <2>1, <1>3 DEF handleListAlertsByRealm
<1>7. Confined(getAlertByID(t, r, sc), h, s)
    BY AlertInScopeConfined DEF getAlertByID
<1> QED BY <1>4, <1>5, <1>6, <1>7 DEF Answers

\* The group "amfa".
LEMMA AmfaConfined ==
    ASSUME NEW u, NEW t, NEW r \in Asked, NEW sc \in RealmScopes, NEW h, NEW s,
           Within(sc, t, s), <<"amfa:read", t>> \in h
    PROVE  \A rows \in Answers(u, "amfa", t, r, sc) : Confined(rows, h, s)
<1>1. \A S : (\A x \in S : <<x, t>> \in s) => Confined(Rows("amfa", t, S), h, s)
    BY KindConfined, PermissionFacts DEF Kinds
<1>2. Confined({}, h, s)
    BY NothingConfined
<1>3. ASSUME NEW x \in Asked, InScope(sc, x)
      PROVE  Confined(Rows("amfa", t, {x}), h, s)
    BY <1>1, <1>3 DEF Within
<1>4. checkAmfaRealm(sc, r) => InScope(sc, r)
    BY DEF checkAmfaRealm, InScope
<1>5. Confined(handleAmfaEvents(t, r, sc), h, s) /\ Confined(handleAmfaGeo(t, r, sc), h, s)
    BY <1>2, <1>3, <1>4 DEF handleAmfaEvents, handleAmfaGeo, ListEvents, GetGeoBuckets
<1>6. \A x \in statsRealm(r, sc) : x \in Asked /\ InScope(sc, x) /\ (x = NoRealm => sc.all)
    BY NamesAssumption DEF statsRealm, InScope, RealmScopes, Asked
<1>7. ASSUME NEW x \in statsRealm(r, sc)
      PROVE  Confined(GetStats(t, x), h, s)
    <2>1. CASE x = NoRealm
        <3>1. \A y \in Asked : <<y, t>> \in s
            BY <2>1, <1>6 DEF Within, InScope
        <3> QED BY <2>1, <3>1, <1>1 DEF GetStats, Everything
    <2>2. CASE x # NoRealm
        BY <2>2, <1>3, <1>6 DEF GetStats
    <2> QED BY <2>1, <2>2
<1>8. Confined(handleAmfaStats(t, r, sc), h, s)
    BY <1>7, ConfinedUnions DEF handleAmfaStats
<1> QED BY <1>5, <1>8 DEF Answers

\* The group "operators".
LEMMA OperatorsConfined ==
    ASSUME NEW u, NEW t, NEW r \in Asked, NEW sc \in RealmScopes, NEW h, NEW s,
           sc.all => sc.realms = {}, Within(sc, t, s), <<"metrics:read", t>> \in h
    PROVE  \A rows \in Answers(u, "operators", t, r, sc) : Confined(rows, h, s)
<1>1. ASSUME realmScope(sc)
      PROVE  /\ Confined(GetActions(t, sc.realms), h, s)
             /\ Confined(GetMetricsSummary(t, sc.realms), h, s)
             /\ Confined(GetAllOperatorsSummary(t, sc.realms), h, s)
    BY <1>1, ScopeLists, ActionsOfList
<1> QED BY <1>1, NothingConfined
        DEF Answers, handleGetAllOperatorsMetrics, handleGetOperatorMetrics, handleGetOperatorActions

\* The group "reports": a section is in the report if its permission is held.
LEMMA ReportsConfined ==
    ASSUME NEW u, NEW t \in Tenants, NEW r \in Asked, NEW sc \in RealmScopes, NEW h, NEW s,
           sc.all => sc.realms = {}, Within(sc, t, s),
           \A p \in Permissions : HasPermission(db, u, p, t) => <<p, t>> \in h
    PROVE  \A rows \in Answers(u, "reports", t, r, sc) : Confined(rows, h, s)
<1> DEFINE sources == tenantEventSources(NoRealm, sc)
<1>1. \A k \in sectionAccess(u, t) : k \in {"alert", "event", "action"} /\ <<PermissionOf(k), t>> \in h
    BY PermissionFacts DEF sectionAccess, Permissions
<1>2. ASSUME "alert" \in sectionAccess(u, t), realmScope(sc)
      PROVE  Confined(ListAlerts(t, sc.realms), h, s)
    BY <1>1, <1>2, ScopeLists, AlertsOfList, PermissionFacts
<1>3. ASSUME "action" \in sectionAccess(u, t), realmScope(sc)
      PROVE  Confined(GetAllOperatorsSummary(t, sc.realms), h, s)
    BY <1>1, <1>3, ScopeLists, ActionsOfList, PermissionFacts
<1>4. ASSUME "event" \in sectionAccess(u, t)
      PROVE  Confined(Sourced(List(t, sources), sources), h, s)
    BY <1>1, <1>4, SourcesInScope, EventsOfSources, PermissionFacts
<1>5. Confined({}, h, s)
    BY NothingConfined
<1> HIDE DEF sources
<1>6. Confined(AggregateData(t, sc, sectionAccess(u, t)), h, s)
    <2> DEFINE part(k) == CASE k = "alert" -> IF realmScope(sc) THEN ListAlerts(t, sc.realms) ELSE {}
             [] k = "action" -> IF realmScope(sc) THEN GetAllOperatorsSummary(t, sc.realms) ELSE {}
             [] k = "event" -> Sourced(List(t, sources), sources)
    <2>1. \A k \in sectionAccess(u, t) : Confined(part(k), h, s)
        BY <1>1, <1>2, <1>3, <1>4, <1>5
    <2>2. AggregateData(t, sc, sectionAccess(u, t)) = UNION {part(k) : k \in sectionAccess(u, t)}
        BY DEF AggregateData, sources
    <2> DEFINE parts == {part(k) : k \in sectionAccess(u, t)}
    <2> HIDE DEF part
    <2>3. \A A \in parts : Confined(A, h, s)
        BY <2>1
    <2> HIDE DEF parts
    <2>4. Confined(UNION parts, h, s)
        BY <2>3, ConfinedUnions
    <2> QED BY <2>2, <2>4 DEF parts
<1>7. Confined(handleGenerateReport(u, t, sc), h, s)
    BY <1>5, <1>6 DEF handleGenerateReport
<1> QED BY <1>7 DEF Answers

\* The group "tenant".
LEMMA TenantConfined ==
    ASSUME NEW u, NEW t, NEW r, NEW sc, NEW h, NEW s, <<"tenants:read", t>> \in h
    PROVE  \A rows \in Answers(u, "tenant", t, r, sc) : Confined(rows, h, s)
<1>1. Confined(Whole("tenant", t), h, s)
    BY KindConfined, PermissionFacts DEF Kinds, PerTenant, Whole
<1> QED BY <1>1 DEF Answers, getTenant, getTenantHealth

\* FilterTenantsByUserRoles: a tenant in the list is one that a role names, or
\* there is a role for every tenant.
LEMMA ListedNamed ==
    ASSUME NEW u, NEW S \in SUBSET Tenants, NEW t \in FilterTenantsByUserRoles(db, u, S)
    PROVE  t \in S /\ <<"role", t>> \in Entitled(db, u)
<1>1. t \in S
    BY DEF FilterTenantsByUserRoles
<1>2. \E g \in GetEffectiveUserRoles(db, u) : g.tenant \in {Global, t}
    BY DEF FilterTenantsByUserRoles, IsAdmin
<1> QED BY <1>1, <1>2 DEF Entitled

LEMMA ListedConfined ==
    ASSUME NEW S, NEW h, NEW s, \A t \in S : <<"role", t>> \in h
    PROVE  Confined(Listed(S), h, s)
  BY DEF Listed, Confined, Allowed

\* The group "tenants".
LEMMA TenantsConfined ==
    ASSUME NEW u, NEW t, NEW r, NEW sc, NEW h, NEW s, Entitled(db, u) \subseteq h
    PROVE  \A rows \in Answers(u, "tenants", t, r, sc) : Confined(rows, h, s)
<1> DEFINE S == {x \in Tenants : db.tenants[x] # "absent"}
<1>1. S \in SUBSET Tenants
    OBVIOUS
<1>2. \A x \in FilterTenantsByUserRoles(db, u, S) : <<"role", x>> \in h
    BY <1>1, ListedNamed
<1>3. Confined(listTenants(u), h, s)
    BY <1>2, ListedConfined DEF listTenants
<1> QED BY <1>3 DEF Answers

LEMMA PlatformConfined ==
    ASSUME NEW kind \in Kinds \ {"listed", "mine"}, NEW S, NEW h, NEW s, <<PermissionOf(kind), Global>> \in h
    PROVE  Confined(Platform(kind, S), h, s)
  BY DEF Platform, Confined, Allowed

\* The group "rbac", for administrators.
LEMMA AdministrationConfined ==
    ASSUME NEW u, NEW t, NEW r, NEW sc, NEW h, NEW s, <<"admin", Global>> \in h
    PROVE  \A rows \in Answers(u, "rbac", t, r, sc) : Confined(rows, h, s)
<1>1. \A k \in AdminOnly : \A S : Confined(Platform(k, S), h, s)
    BY PlatformConfined, PermissionFacts DEF AdminOnly, Kinds
<1>2. /\ \A all : Confined(listRoles(all), h, s)
      /\ \A x : Confined(getRole(x), h, s)
      /\ Confined(handlePermissions, h, s)
    BY <1>1 DEF AdminOnly, listRoles, getRole, handlePermissions
<1>3. /\ Confined(listTokens, h, s)
      /\ \A x : Confined(getUserPolicies(x), h, s)
      /\ \A x, y : Confined(getUserRoles(x, y), h, s)
    BY <1>1 DEF AdminOnly, listTokens, getUserPolicies, getUserRoles
<1> DEFINE pages == {listRoles(TRUE), listRoles(FALSE), handlePermissions, listTokens}
           roles == {getRole(x) : x \in Roles}
           policies == {getUserPolicies(x) : x \in Users}
           assigned == {getUserRoles(x, tn) : x \in Users, tn \in {t, NoTenant}}
<1>4. Answers(u, "rbac", t, r, sc) = pages \union roles \union policies \union assigned
    BY DEF Answers
<1>5. \A rows \in pages : Confined(rows, h, s)
    BY <1>2, <1>3
<1>6. \A rows \in roles \union policies : Confined(rows, h, s)
    BY <1>2, <1>3
<1>7. \A rows \in assigned : Confined(rows, h, s)
    BY <1>3
<1> HIDE DEF pages, roles, policies, assigned
<1> QED BY <1>4, <1>5, <1>6, <1>7

\* The group "users".
LEMMA AccountsConfined ==
    ASSUME NEW u, NEW t, NEW r, NEW sc, NEW h, NEW s, <<"platform_users:read", Global>> \in h
    PROVE  \A rows \in Answers(u, "users", t, r, sc) : Confined(rows, h, s)
<1>1. \A S : Confined(Platform("account", S), h, s)
    BY PlatformConfined, PermissionFacts DEF Kinds
<1>2. Confined(listUsers, h, s) /\ \A x \in Users : Confined(getUser(x), h, s)
    BY <1>1 DEF listUsers, getUser
<1> QED BY <1>2 DEF Answers

\* The group "me": the roles that are shown grant something now.
LEMMA MineConfined ==
    ASSUME NEW u, NEW t, NEW r, NEW sc, NEW h, NEW s,
           db.granted \subseteq UserRole, Entitled(db, u) \subseteq h
    PROVE  \A rows \in Answers(u, "me", t, r, sc) : Confined(rows, h, s)
<1>1. ASSUME NEW x, NEW g \in GetUserWithRolesAndPermissions(u, x)
      PROVE  <<"role", g.tenant>> \in h
    <2>1. g \in GetEffectiveUserRoles(db, u)
        BY DEF GetUserWithRolesAndPermissions, GetEffectiveUserRoles, GetUserRoles, GetUserRolesForTenant
    <2>2. g.tenant \in Tenants \union {Global}
        BY <2>1 DEF GetEffectiveUserRoles, GetUserRoles, UserRole
    <2> QED BY <2>1, <2>2 DEF Entitled
<1>2. ASSUME NEW x, NEW row \in handleCurrentUser(u, x)
      PROVE  Allowed(row, h, s)
    <2>1. PICK g \in GetUserWithRolesAndPermissions(u, x) :
            row = [kind |-> "mine", tenant |-> g.tenant, realm |-> NoRealm]
        BY DEF handleCurrentUser
    <2> QED BY <2>1, <1>1 DEF Allowed
<1>3. \A x : Confined(handleCurrentUser(u, x), h, s)
    BY <1>2 DEF Confined
<1> QED BY <1>3 DEF Answers
----------------------------------------------------------------------------
(* Answers of the MCP server *)

\* AllowedRealms refuses an empty scope, and then no realm is asked for.
LEMMA ToolsConfined ==
    ASSUME NEW t \in Tenants, NEW r \in Asked, NEW sc \in RealmScopes, NEW h, NEW s,
           sc.all => sc.realms = {}, Within(sc, t, s)
    PROVE  /\ <<"keycloak:read", t>> \in h =>
                 /\ Confined(listEvents(t, r, sc), h, s)
                 /\ Confined(getEvent(t, r, sc), h, s)
                 /\ Confined(getEventStats(t, r, sc), h, s)
                 /\ Confined(listRealms(t, r, sc), h, s)
           /\ <<"alerts:read", t>> \in h =>
                 /\ Confined(listAlerts(t, r, sc), h, s)
                 /\ Confined(getAlert(t, r, sc), h, s)
                 /\ Confined(getAlertStats(t, r, sc), h, s)
           /\ <<"amfa:read", t>> \in h => Confined(getAmfaStats(t, r, sc), h, s)
           /\ <<"tenants:read", t>> \in h => Confined(mcpTenantHealth(t, r, sc), h, s)
<1>0. Confined({}, h, s)
    BY NothingConfined
<1>1. ASSUME <<"keycloak:read", t>> \in h
      PROVE  /\ Confined(listEvents(t, r, sc), h, s)
             /\ Confined(getEventStats(t, r, sc), h, s)
    <2>1. \A x \in resolveEventSources(r, sc) : x \in Asked /\ InScope(sc, x)
        BY NamesAssumption DEF resolveEventSources, Refused, Asked
    <2>2. resolveEventSources(r, sc) \in SUBSET Asked /\ \A x \in resolveEventSources(r, sc) : <<x, t>> \in s
        BY <2>1 DEF Within
    <2> QED BY <1>1, <2>2, EventsOfSources DEF listEvents, getEventStats
<1>2. ASSUME <<"keycloak:read", t>> \in h
      PROVE  Confined(getEvent(t, r, sc), h, s)
    <2>1. \A row \in GetByTenantAndEventID(t, r) : row.realm = r
        BY DEF GetByTenantAndEventID, Rows
    <2>2. CASE InScope(sc, r)
        <3>1. Confined(GetByTenantAndEventID(t, r), h, s)
            BY <1>2, <2>2, OneRowConfined, PermissionFacts DEF Within, GetByTenantAndEventID
        <3> QED BY <3>1, ConfinedSubset DEF getEvent
    <2>3. CASE ~InScope(sc, r)
        <3>1. getEvent(t, r, sc) = {}
            BY <2>1, <2>3 DEF getEvent, realmOfSource
        <3> QED BY <3>1, <1>0
    <2> QED BY <2>2, <2>3
<1>3. ASSUME <<"keycloak:read", t>> \in h
      PROVE  Confined(listRealms(t, r, sc), h, s)
    <2>1. Confined(narrowed(GetRealms(t), sc), h, s)
        BY <1>3, RealmMetrics, NarrowedConfined
    <2> QED BY <2>1, <1>0 DEF listRealms
<1>4. ASSUME <<"alerts:read", t>> \in h
      PROVE  Confined(listAlerts(t, r, sc), h, s) /\ Confined(getAlertStats(t, r, sc), h, s)
    <2> DEFINE S == AlertRealms(r, sc)
    <2>1. CASE Refused(sc, r) \/ noAlertRealmsAllowed(r, sc)
        BY <2>1, <1>0 DEF listAlerts, getAlertStats
    <2>2. CASE ~(Refused(sc, r) \/ noAlertRealmsAllowed(r, sc))
        <3>1. /\ S \in SUBSET Asked
              /\ \A x \in S : InScope(sc, x) /\ x # NoRealm
              /\ S = {} => sc.all
            BY <2>2, NamesAssumption DEF AlertRealms, Refused, noAlertRealmsAllowed, InScope, RealmScopes, Asked
        <3>2. /\ \A x \in S : <<x, t>> \in s
              /\ S = {} => \A x \in Asked : <<x, t>> \in s
              /\ NoRealm \notin S
            BY <3>1 DEF Within, InScope
        <3> HIDE DEF S
        <3>3. Confined(ListAlerts(t, S), h, s) /\ Confined(GetStatistics(t, S), h, s)
            BY <1>4, <3>1, <3>2, AlertsOfList
        <3> QED BY <2>2, <3>3 DEF listAlerts, getAlertStats, S
    <2> QED BY <2>1, <2>2
<1>5. ASSUME <<"alerts:read", t>> \in h
      PROVE  Confined(getAlert(t, r, sc), h, s)
    BY <1>5, <1>0, AlertInScopeConfined DEF getAlert
<1>6. ASSUME <<"amfa:read", t>> \in h
      PROVE  Confined(getAmfaStats(t, r, sc), h, s)
    <2>1. CASE r = NoRealm \/ Refused(sc, r)
        BY <2>1, <1>0 DEF getAmfaStats
    <2>2. CASE r # NoRealm /\ ~Refused(sc, r)
        <3>1. <<r, t>> \in s
            BY <2>2 DEF Refused, Within
        <3>2. Confined(Rows("amfa", t, {r}), h, s)
            BY <1>6, <3>1, KindConfined, PermissionFacts DEF Kinds
        <3> QED BY <2>2, <3>2 DEF getAmfaStats, GetStats
    <2> QED BY <2>1, <2>2
<1>7. ASSUME <<"tenants:read", t>> \in h
      PROVE  Confined(mcpTenantHealth(t, r, sc), h, s)
    BY <1>7, KindConfined, PermissionFacts DEF Kinds, PerTenant, Whole, mcpTenantHealth
<1> QED BY <1>1, <1>2, <1>3, <1>4, <1>5, <1>6, <1>7
----------------------------------------------------------------------------
(* What a user is entitled to *)

LEMMA EntitledTyped ==
    ASSUME NEW d, NEW u
    PROVE  /\ Entitled(d, u) \subseteq (Permissions \union {"role", "admin"}) \X (Tenants \union {Global})
           /\ Scope(d, u) \subseteq Asked \X Tenants
<1>1. Scope(d, u) \subseteq Asked \X Tenants
    BY DEF Scope
<1>2. ASSUME NEW x \in Entitled(d, u)
      PROVE  x \in (Permissions \union {"role", "admin"}) \X (Tenants \union {Global})
    BY DEF Entitled
<1> QED BY <1>1, <1>2

LEMMA PermissionEntitles ==
    ASSUME NEW d, NEW u, NEW p \in Permissions, NEW t \in Tenants,
           IsAdmin(d, u) \/ HasPermission(d, u, p, t)
    PROVE  <<p, t>> \in Entitled(d, u)
<1>1. <<p, t>> \in Permissions \X Tenants /\ <<p, t>>[1] = p /\ <<p, t>>[2] = t
    OBVIOUS
<1> QED BY <1>1 DEF Entitled

\* The permission that the middleware of a group asked for.
Admitted(group, t, h) ==
    /\ group \in {"keycloak", "system"} => <<"keycloak:read", t>> \in h
    /\ group = "alerts" => <<"alerts:read", t>> \in h
    /\ group = "amfa" => <<"amfa:read", t>> \in h
    /\ group = "operators" => <<"metrics:read", t>> \in h
    /\ group = "tenant" => <<"tenants:read", t>> \in h
    /\ group = "rbac" => <<"admin", Global>> \in h
    /\ group = "users" => <<"platform_users:read", Global>> \in h

LEMMA AdmittedEntitled ==
    ASSUME NEW u, NEW group \in Groups, NEW t \in Tenants, Admits(u, group, t)
    PROVE  Admitted(group, t, Entitled(db, u))
<1>1. \A p \in Permissions : IsAdmin(db, u) \/ HasPermission(db, u, p, t) => <<p, t>> \in Entitled(db, u)
    BY PermissionEntitles
<1>2. group \in {"keycloak", "system"} => IsAdmin(db, u) \/ HasPermission(db, u, "keycloak:read", t)
    BY DEF Admits, requireKeycloakPermission, RequirePermission
<1>3. /\ group = "alerts" => HasPermission(db, u, "alerts:read", t)
      /\ group = "amfa" => IsAdmin(db, u) \/ HasPermission(db, u, "amfa:read", t)
      /\ group = "operators" => IsAdmin(db, u) \/ HasPermission(db, u, "metrics:read", t)
      /\ group = "tenant" => IsAdmin(db, u) \/ HasPermission(db, u, "tenants:read", t)
    BY DEF Admits, checkAlertPermission, RequirePermission
<1>4. group = "rbac" => <<"admin", Global>> \in Entitled(db, u)
    <2>1. group = "rbac" => IsAdmin(db, u)
        BY DEF Admits, RequireAdmin
    <2>2. IsAdmin(db, u) => <<"admin", Global>> \in Entitled(db, u)
        BY DEF Entitled
    <2> QED BY <2>1, <2>2
<1>5. group = "users" => <<"platform_users:read", Global>> \in Entitled(db, u)
    <2>1. group = "users" => IsAdmin(db, u) \/ HasGlobalPermission(db, u, "platform_users:read")
        BY DEF Admits, RequireGlobalPermission
    <2>2. \A p \in Permissions : IsAdmin(db, u) \/ HasGlobalPermission(db, u, p) => <<p, Global>> \in Entitled(db, u)
        BY DEF Entitled
    <2> QED BY <2>1, <2>2 DEF Permissions
<1>6. {"keycloak:read", "alerts:read", "amfa:read", "metrics:read", "tenants:read"} \subseteq Permissions
    BY DEF Permissions
<1>7. /\ group \in {"keycloak", "system"} => <<"keycloak:read", t>> \in Entitled(db, u)
      /\ group = "alerts" => <<"alerts:read", t>> \in Entitled(db, u)
      /\ group = "amfa" => <<"amfa:read", t>> \in Entitled(db, u)
      /\ group = "operators" => <<"metrics:read", t>> \in Entitled(db, u)
      /\ group = "tenant" => <<"tenants:read", t>> \in Entitled(db, u)
    BY <1>1, <1>2, <1>3, <1>6
<1> QED BY <1>4, <1>5, <1>7 DEF Admitted

\* ResolveRealmScope answers with realms that the user's policies name.
LEMMA ResolvedWithin ==
    ASSUME NEW d, NEW u, NEW t \in Tenants, d.policies \subseteq TenantPolicy
    PROVE  LET sc == ResolveRealmScope(GetUserPolicies(d, u), t) IN
           sc \in RealmScopes /\ (sc.all => sc.realms = {}) /\ Within(sc, t, Scope(d, u))
<1> DEFINE rows == {p \in GetUserPolicies(d, u) : p.tenant = t}
           open == rows = {} \/ \E p \in rows : p.all
           sc == ResolveRealmScope(GetUserPolicies(d, u), t)
<1>1. rows = {p \in d.policies : p.user = u /\ p.tenant = t} /\ rows \subseteq TenantPolicy
    BY DEF GetUserPolicies
<1>2. sc = IF open THEN [all |-> TRUE, realms |-> {}] ELSE [all |-> FALSE, realms |-> UNION {p.realms : p \in rows}]
    BY DEF ResolveRealmScope
<1>3. \A x \in Asked : <<x, t>> \in Asked \X Tenants /\ <<x, t>>[1] = x /\ <<x, t>>[2] = t
    OBVIOUS
<1>4. \A x \in Asked : open \/ (\E p \in rows : x \in p.realms) => <<x, t>> \in Scope(d, u)
    BY <1>1, <1>3 DEF Scope
<1> HIDE DEF rows, sc
<1>5. ASSUME open
      PROVE  sc \in RealmScopes /\ (sc.all => sc.realms = {}) /\ Within(sc, t, Scope(d, u))
    <2>1. sc = [all |-> TRUE, realms |-> {}]
        BY <1>2, <1>5
    <2>2. sc \in RealmScopes /\ sc.realms = {}
        BY <2>1 DEF RealmScopes
    <2>3. Within(sc, t, Scope(d, u))
        BY <1>4, <1>5 DEF Within
    <2> QED BY <2>2, <2>3
<1>6. ASSUME ~open
      PROVE  sc \in RealmScopes /\ (sc.all => sc.realms = {}) /\ Within(sc, t, Scope(d, u))
    <2>1. UNION {p.realms : p \in rows} \subseteq Realms
        BY <1>1 DEF TenantPolicy
    <2>2. sc.all = FALSE /\ sc.realms = UNION {p.realms : p \in rows} /\ sc \in RealmScopes
        BY <1>2, <1>6, <2>1 DEF RealmScopes
    <2>3. \A x \in Asked : InScope(sc, x) => \E p \in rows : x \in p.realms
        BY <2>2 DEF InScope
    <2>4. Within(sc, t, Scope(d, u))
        BY <1>4, <2>3 DEF Within
    <2> QED BY <2>2, <2>4
<1> QED BY <1>5, <1>6 DEF sc

LEMMA EverythingWithin ==
    ASSUME NEW t \in Tenants, NEW s, Asked \X Tenants \subseteq s
    PROVE  LET sc == [all |-> TRUE, realms |-> {}] IN
           sc \in RealmScopes /\ (sc.all => sc.realms = {}) /\ Within(sc, t, s)
  BY DEF RealmScopes, Within, InScope

LEMMA AdminScope ==
    ASSUME NEW d, NEW u, IsAdmin(d, u)
    PROVE  Asked \X Tenants \subseteq Scope(d, u) /\ Permissions \X Tenants \subseteq Entitled(d, u)
  BY DEF Scope, Entitled

LEMMA ScopeWithin ==
    ASSUME NEW u, NEW t \in Tenants, NEW s, db.policies \subseteq TenantPolicy, Scope(db, u) \subseteq s
    PROVE  LET sc == allowedRealmsWithAdmin(u, t) IN
           sc \in RealmScopes /\ (sc.all => sc.realms = {}) /\ Within(sc, t, s)
<1>1. CASE IsAdmin(db, u)
    BY <1>1, AdminScope, EverythingWithin DEF allowedRealmsWithAdmin
<1>2. CASE ~IsAdmin(db, u)
    <2> DEFINE sc == ResolveRealmScope(GetUserPolicies(db, u), t)
    <2>1. sc \in RealmScopes /\ (sc.all => sc.realms = {}) /\ Within(sc, t, Scope(db, u))
        BY ResolvedWithin
    <2>2. allowedRealmsWithAdmin(u, t) = sc
        BY <1>2 DEF allowedRealmsWithAdmin
    <2> HIDE DEF sc
    <2>3. Within(sc, t, s)
        BY <2>1 DEF Within
    <2> QED BY <2>1, <2>2, <2>3
<1> QED BY <1>1, <1>2
----------------------------------------------------------------------------
(* The stored state and the administrators' requests *)

Database == [roles : [Roles -> Role], granted : SUBSET UserRole, policies : SUBSET TenantPolicy,
             tenants : [Tenants -> {"absent", "enabled", "disabled"}]]

Fields == {"none", "keep", "on", "off"}

\* What an administrator's request carries from its reads to its writes.
Call == {Idle}
    \union [pc : {"setNew", "unmake"}, role : Roles, perms : Grants]
    \union [pc : {"setOld"}, role : Roles, perms : Grants, field : Fields, active : BOOLEAN]
    \union [pc : {"write"}, role : Roles, perms : Grants \union {{}}, field : Fields, active : BOOLEAN]
    \union [pc : {"assign"}, grant : UserRole]

DataInv == db \in Database /\ call \in [Callers -> Call] /\ ops \in 0 .. MaxOps

LEMMA CallFacts ==
    ASSUME call \in [Callers -> Call], NEW c \in Callers
    PROVE  /\ call[c].pc \in {"setNew", "unmake"} =>
                 call[c] \in [pc : {"setNew", "unmake"}, role : Roles, perms : Grants]
           /\ call[c].pc = "setOld" =>
                 call[c] \in [pc : {"setOld"}, role : Roles, perms : Grants, field : Fields, active : BOOLEAN]
           /\ call[c].pc = "write" =>
                 call[c] \in [pc : {"write"}, role : Roles, perms : Grants \union {{}}, field : Fields, active : BOOLEAN]
           /\ call[c].pc = "assign" => call[c] \in [pc : {"assign"}, grant : UserRole]
  BY DEF Call, Idle

\* The repositories' writes keep the tables' types.
LEMMA RoleWrites ==
    ASSUME NEW d \in Database, NEW r \in Roles
    PROVE  /\ \A ps \in SUBSET Permissions : SetRolePermissions(d, r, ps) \in Database
           /\ \A a \in BOOLEAN : UpdateRole(d, r, a) \in Database
           /\ DeleteRole(d, r) \in Database
<1>1. d.roles[r] \in Role
    BY DEF Database
<1>2. \A ps \in SUBSET Permissions : SetRolePermissions(d, r, ps) \in Database
    BY <1>1 DEF SetRolePermissions, Database, Role
<1>3. \A a \in BOOLEAN : UpdateRole(d, r, a) \in Database
    BY <1>1 DEF UpdateRole, Database, Role
<1>4. DeleteRole(d, r) \in Database
    BY <1>1 DEF DeleteRole, Database, Role
<1> QED BY <1>2, <1>3, <1>4

LEMMA AssignmentWrites ==
    ASSUME NEW d \in Database
    PROVE  /\ \A g \in UserRole : InsertUserRole(d, g) \in Database
           /\ \A u, r, t : RemoveRoleFromUser(d, u, r, t) \in Database
           /\ \A p \in TenantPolicy : CreatePolicy(d, p) \in Database /\ DeletePolicy(d, p) \in Database
<1>1. \A g \in UserRole : InsertUserRole(d, g) \in Database
    BY DEF InsertUserRole, Database
<1>2. \A u, r, t : RemoveRoleFromUser(d, u, r, t) \in Database
    BY DEF RemoveRoleFromUser, Database
<1>3. \A p \in TenantPolicy : CreatePolicy(d, p) \in Database /\ DeletePolicy(d, p) \in Database
    BY DEF CreatePolicy, DeletePolicy, Database
<1> QED BY <1>1, <1>2, <1>3

LEMMA TenantWrites ==
    ASSUME NEW d \in Database, NEW t \in Tenants
    PROVE  /\ DeleteTenant(d, t) \in Database
           /\ \A x \in {"enabled", "disabled"} : [d EXCEPT !.tenants[t] = x] \in Database
<1>1. DeleteTenant(d, t) \in Database
    BY DEF DeleteTenant, Database
<1>2. \A x \in {"enabled", "disabled"} : [d EXCEPT !.tenants[t] = x] \in Database
    BY DEF Database
<1> QED BY <1>1, <1>2

LEMMA DataInit == RbacInit => DataInv
<1> SUFFICES ASSUME RbacInit
             PROVE  DataInv
    OBVIOUS
<1>1. \A r \in SystemRoles : SystemPermissions(r) \subseteq Permissions
    BY DEF SystemPermissions
<1>2. [r \in Roles |-> [state |-> IF r \in SystemRoles THEN "live" ELSE "new", active |-> TRUE,
                        perms |-> IF r \in SystemRoles THEN SystemPermissions(r) ELSE {}]] \in [Roles -> Role]
    BY <1>1 DEF Role
<1>3. [user : Users, role : {"viewer"}, tenant : Tenants, expired : {FALSE}] \subseteq UserRole
    BY DEF UserRole, Roles, SystemRoles
<1>4. db \in Database
    <2>1. PICK before \in {{}} \union
                {{g} : g \in [user : Users, role : {"viewer"}, tenant : Tenants, expired : {FALSE}]} :
            db = [roles |-> [r \in Roles |-> [state |-> IF r \in SystemRoles THEN "live" ELSE "new", active |-> TRUE,
                             perms |-> IF r \in SystemRoles THEN SystemPermissions(r) ELSE {}]],
                  granted |-> before, policies |-> {}, tenants |-> [t \in Tenants |-> "enabled"]]
        BY DEF RbacInit
    <2>2. before \in SUBSET UserRole
        BY <1>3
    <2>3. db.roles \in [Roles -> Role] /\ db.tenants \in [Tenants -> {"absent", "enabled", "disabled"}]
        BY <1>2, <2>1
    <2>4. db = [roles |-> db.roles, granted |-> before, policies |-> {}, tenants |-> db.tenants]
        BY <2>1
    <2> QED BY <2>2, <2>3, <2>4 DEF Database
<1>5. call \in [Callers -> Call] /\ ops \in 0 .. MaxOps
    BY OpsAssumption DEF RbacInit, Call
<1> QED BY <1>4, <1>5 DEF DataInv

LEMMA DataStep == DataInv /\ RbacNext => DataInv'
<1> SUFFICES ASSUME DataInv, RbacNext
             PROVE  DataInv'
    OBVIOUS
<1> USE DEF DataInv
<1>1. ASSUME NEW c \in Callers, NEW x \in Call, Begin(c, x)
      PROVE  call' \in [Callers -> Call] /\ ops' \in 0 .. MaxOps
    BY <1>1, OpsAssumption DEF Begin
<1>2. ASSUME NEW c \in Callers, AtOnce(c)
      PROVE  call' \in [Callers -> Call] /\ ops' \in 0 .. MaxOps
    BY <1>2, OpsAssumption DEF AtOnce
<1>3. ASSUME NEW c \in Callers, Return(c)
      PROVE  call' \in [Callers -> Call] /\ ops' \in 0 .. MaxOps
    BY <1>3 DEF Return, Call
<1>4. ASSUME NEW c \in Callers, NEW r \in Custom, NEW ps \in Grants, NEW a \in BOOLEAN, createRole(c, r, ps, a)
      PROVE  DataInv'
    <2>1. [pc |-> "setNew", role |-> r, perms |-> ps] \in Call
        BY DEF Call, Roles
    <2>2. r \in Roles /\ [state |-> "live", active |-> a, perms |-> {}] \in Role
        BY DEF Roles, Role
    <2>3. db' \in Database
        BY <1>4, <2>2 DEF createRole, Database
    <2> QED BY <1>1, <1>4, <2>1, <2>3 DEF createRole
<1>5. ASSUME NEW c \in Callers, CreateRoleWithPermissions(c)
      PROVE  DataInv'
    <2>1. call[c] \in [pc : {"setNew", "unmake"}, role : Roles, perms : Grants]
        BY <1>5, CallFacts DEF CreateRoleWithPermissions
    <2>2. CASE Return(c) /\ db' = SetRolePermissions(db, call[c].role, call[c].perms)
        <3>1. call[c].role \in Roles /\ call[c].perms \in SUBSET Permissions
            BY <2>1, GrantsAssumption
        <3>2. db' \in Database
            BY <2>2, <3>1, RoleWrites
        <3> QED BY <3>2, <2>2, <1>3
    <2>3. CASE Goto(c, "unmake") /\ UNCHANGED db
        <3>1. [call[c] EXCEPT !.pc = "unmake"] \in Call
            BY <2>1 DEF Call
        <3> QED BY <2>3, <3>1 DEF Goto
    <2> QED BY <1>5, <2>2, <2>3 DEF CreateRoleWithPermissions
<1>6. ASSUME NEW c \in Callers, UndoCreate(c)
      PROVE  DataInv'
    <2>1. call[c].role \in Roles
        BY <1>6, CallFacts DEF UndoCreate
    <2>2. DeleteRole(db, call[c].role) \in Database
        BY <2>1, RoleWrites
    <2>3. db' \in Database
        BY <1>6, <2>2 DEF UndoCreate
    <2> QED BY <1>3, <1>6, <2>3 DEF UndoCreate
<1>7. ASSUME NEW c \in Callers, NEW r \in Custom, NEW ps \in Grants, NEW f \in {"none", "keep", "on", "off"},
             updateRole(c, r, TRUE, ps, f)
      PROVE  DataInv'
    <2> DEFINE flag == IF f = "keep" THEN db.roles[r].active ELSE f = "on"
    <2>1. r \in Roles /\ db.roles[r].active \in BOOLEAN
        BY DEF Roles, Database, Role
    <2>2. flag \in BOOLEAN
        BY <2>1
    <2> HIDE DEF flag
    <2>3. [pc |-> "setOld", role |-> r, perms |-> ps, field |-> f, active |-> flag] \in Call
        BY <2>1, <2>2 DEF Call, Fields
    <2> QED BY <1>1, <1>7, <2>3 DEF updateRole, flag
<1>8. ASSUME NEW c \in Callers, NEW r \in Custom, NEW f \in {"keep", "on", "off"}, updateRole(c, r, FALSE, {}, f)
      PROVE  DataInv'
    <2> DEFINE flag == IF f = "keep" THEN db.roles[r].active ELSE f = "on"
    <2>1. r \in Roles /\ db.roles[r].active \in BOOLEAN
        BY DEF Roles, Database, Role
    <2>2. flag \in BOOLEAN
        BY <2>1
    <2> HIDE DEF flag
    <2>3. [pc |-> "write", role |-> r, perms |-> {}, field |-> f, active |-> flag] \in Call
        BY <2>1, <2>2 DEF Call, Fields
    <2> QED BY <1>1, <1>8, <2>3 DEF updateRole, flag
<1>9. ASSUME NEW c \in Callers, UpdateRolePermissions(c)
      PROVE  DataInv'
    <2>1. call[c] \in [pc : {"setOld"}, role : Roles, perms : Grants, field : Fields, active : BOOLEAN]
        BY <1>9, CallFacts DEF UpdateRolePermissions
    <2>2. CASE Return(c) /\ UNCHANGED db
        BY <2>2, <1>3
    <2>3. CASE Goto(c, "write") /\ db' = SetRolePermissions(db, call[c].role, call[c].perms)
        <3>1. [call[c] EXCEPT !.pc = "write"] \in Call
            BY <2>1 DEF Call
        <3>2. call[c].role \in Roles /\ call[c].perms \in SUBSET Permissions
            BY <2>1, GrantsAssumption
        <3>3. db' \in Database
            BY <2>3, <3>2, RoleWrites
        <3> QED BY <2>3, <3>1, <3>3 DEF Goto
    <2> QED BY <1>9, <2>2, <2>3 DEF UpdateRolePermissions
<1>10. ASSUME NEW c \in Callers, UpdateRoleRow(c)
       PROVE  DataInv'
    <2>1. call[c].role \in Roles /\ call[c].active \in BOOLEAN
        BY <1>10, CallFacts DEF UpdateRoleRow
    <2>2. UpdateRole(db, call[c].role, call[c].active) \in Database
        BY <2>1, RoleWrites
    <2>3. db' \in Database
        BY <1>10, <2>2 DEF UpdateRoleRow
    <2> QED BY <1>3, <1>10, <2>3 DEF UpdateRoleRow
<1>11. ASSUME NEW c \in Callers, NEW r \in Custom, deleteRole(c, r)
       PROVE  DataInv'
    <2>1. DeleteRole(db, r) \in Database
        BY RoleWrites DEF Roles
    <2> QED BY <1>2, <1>11, <2>1 DEF deleteRole
<1>12. ASSUME NEW c \in Callers, NEW u \in Users, NEW r \in Roles, NEW t \in Tenants \union {Global},
              assignRoleToUser(c, u, r, t)
       PROVE  DataInv'
    <2>1. [pc |-> "assign", grant |-> [user |-> u, role |-> r, tenant |-> t, expired |-> FALSE]] \in Call
        BY DEF Call, UserRole
    <2> QED BY <1>1, <1>12, <2>1 DEF assignRoleToUser
<1>13. ASSUME NEW c \in Callers, AssignRoleToUser(c)
       PROVE  DataInv'
    <2>1. call[c].grant \in UserRole
        BY <1>13, CallFacts DEF AssignRoleToUser
    <2>2. InsertUserRole(db, call[c].grant) \in Database
        BY <2>1, AssignmentWrites
    <2> QED BY <1>3, <1>13, <2>2 DEF AssignRoleToUser
<1>14. ASSUME NEW c \in Callers, NEW g \in db.granted, removeRoleFromUser(c, g)
       PROVE  DataInv'
    <2>1. RemoveRoleFromUser(db, g.user, g.role, g.tenant) \in Database
        BY AssignmentWrites
    <2> QED BY <1>2, <1>14, <2>1 DEF removeRoleFromUser
<1>15. ASSUME NEW c \in Callers, NEW p \in TenantPolicy, createUserPolicy(c, p) \/ deletePolicy(c, p)
       PROVE  DataInv'
    <2>1. CreatePolicy(db, p) \in Database /\ DeletePolicy(db, p) \in Database
        BY AssignmentWrites
    <2> QED BY <1>2, <1>15, <2>1 DEF createUserPolicy, deletePolicy
<1>16. ASSUME NEW c \in Callers, NEW t \in Tenants, updateTenant(c, t) \/ deleteTenant(c, t) \/ createTenant(c, t)
       PROVE  DataInv'
    <2>1. /\ DeleteTenant(db, t) \in Database
          /\ \A x \in {"enabled", "disabled"} : [db EXCEPT !.tenants[t] = x] \in Database
        BY TenantWrites
    <2>2. db' \in Database
        <3>1. db' = DeleteTenant(db, t) \/ \E x \in {"enabled", "disabled"} : db' = [db EXCEPT !.tenants[t] = x]
            BY <1>16 DEF updateTenant, deleteTenant, createTenant
        <3> QED BY <2>1, <3>1
    <2> QED BY <1>2, <1>16, <2>2 DEF updateTenant, deleteTenant, createTenant
<1>17. ASSUME NEW g \in db.granted, Expire(g)
       PROVE  DataInv'
    <2>1. [g EXCEPT !.expired = TRUE] \in UserRole
        BY DEF Database, UserRole
    <2>2. db' \in Database
        BY <1>17, <2>1 DEF Expire, Database
    <2> QED BY <1>17, <2>2, OpsAssumption DEF Expire
<1>18. db.policies \subseteq TenantPolicy
    BY DEF Database
<1> HIDE DEF DataInv
<1> QED BY <1>4, <1>5, <1>6, <1>7, <1>8, <1>9, <1>10, <1>11, <1>12, <1>13, <1>14, <1>15, <1>16, <1>17, <1>18
        DEF RbacNext
----------------------------------------------------------------------------
(* The inductive invariant *)

\* What a request in progress knows, and that `held` and `scope` contain all its
\* user is entitled to by now and everything its admission rested on.
HttpInv ==
    req.pc = "http" =>
        /\ req \in [pc : {"http"}, user : Users, group : Groups, tenant : Tenants]
        /\ Admitted(req.group, req.tenant, held)

McpInv ==
    req.pc = "mcp" =>
        /\ req \in [pc : {"mcp"}, user : Users, admin : BOOLEAN, token : SUBSET Tenants]
        /\ req.admin => Asked \X Tenants \subseteq scope

EntitledInv ==
    req.pc \in {"http", "mcp"} => Entitled(db, req.user) \subseteq held /\ Scope(db, req.user) \subseteq scope

ServedInv == req.pc = "served" => Confined(req.rows, held, scope)

PhaseInv ==
    /\ req.pc \in {"idle", "http", "mcp", "served"}
    /\ req.pc = "idle" => req = NoRequest
    /\ held \subseteq (Permissions \union {"role", "admin"}) \X (Tenants \union {Global})
    /\ scope \subseteq Asked \X Tenants

IInv == DataInv /\ PhaseInv /\ HttpInv /\ McpInv /\ EntitledInv /\ ServedInv

LEMMA Confinement == IInv => ReadsConfined
  BY DEF IInv, DataInv, Database, PhaseInv, ServedInv, Confined, Allowed, ReadsConfined, TypeOK

LEMMA AdmittedGrows ==
    ASSUME NEW group, NEW t, NEW h, NEW k, h \subseteq k, Admitted(group, t, h)
    PROVE  Admitted(group, t, k)
  BY DEF Admitted

LEMMA InitInv == Init => IInv
<1> SUFFICES ASSUME Init
             PROVE  IInv
    OBVIOUS
<1>1. DataInv
    BY DataInit DEF Init
<1>2. req = [pc |-> "idle"] /\ held = {} /\ scope = {}
    BY DEF Init, NoRequest
<1> QED BY <1>1, <1>2 DEF IInv, PhaseInv, HttpInv, McpInv, EntitledInv, ServedInv, NoRequest

\* A request is admitted: what its user has is remembered.
LEMMA AdmitStep ==
    ASSUME IInv, NEW u \in Users,
           \/ \E group \in Groups, t \in Tenants : HttpAdmit(u, group, t)
           \/ \E token \in SUBSET Tenants : AuthMiddleware(u, token)
    PROVE  IInv'
<1>1. DataInv' /\ UNCHANGED rbacVars /\ held' = Entitled(db, u) /\ scope' = Scope(db, u)
    BY DEF IInv, DataInv, HttpAdmit, AuthMiddleware, rbacVars
<1>2. db' = db
    BY <1>1 DEF rbacVars
<1>3. req'.pc \in {"http", "mcp"} /\ req'.user = u
    <2>1. ASSUME NEW group \in Groups, NEW t \in Tenants, HttpAdmit(u, group, t)
          PROVE  req'.pc = "http" /\ req'.user = u
        BY <2>1 DEF HttpAdmit
    <2>2. ASSUME NEW token \in SUBSET Tenants, AuthMiddleware(u, token)
          PROVE  req'.pc = "mcp" /\ req'.user = u
        BY <2>2 DEF AuthMiddleware
    <2> QED BY <2>1, <2>2
<1>4. PhaseInv'
    BY <1>1, <1>3, EntitledTyped DEF PhaseInv
<1>5. EntitledInv'
    BY <1>1, <1>2, <1>3 DEF EntitledInv
<1>6. ServedInv'
    BY <1>3 DEF ServedInv
<1>7. CASE \E group \in Groups, t \in Tenants : HttpAdmit(u, group, t)
    <2>1. PICK group \in Groups, t \in Tenants : HttpAdmit(u, group, t)
        BY <1>7
    <2>2. req' = [pc |-> "http", user |-> u, group |-> group, tenant |-> t] /\ Admits(u, group, t)
        BY <2>1 DEF HttpAdmit
    <2>3. Admitted(group, t, held')
        BY <1>1, <2>2, AdmittedEntitled
    <2>4. HttpInv' /\ McpInv'
        BY <2>2, <2>3 DEF HttpInv, McpInv
    <2> QED BY <1>1, <1>4, <1>5, <1>6, <2>4 DEF IInv
<1>8. CASE \E token \in SUBSET Tenants : AuthMiddleware(u, token)
    <2>1. PICK token \in SUBSET Tenants : AuthMiddleware(u, token)
        BY <1>8
    <2>2. PICK admin \in {IsAdmin(db, u)} \union (IF "lookup" \in Faults THEN {FALSE} ELSE {}) :
            req' = [pc |-> "mcp", user |-> u, admin |-> admin, token |-> token]
        BY <2>1 DEF AuthMiddleware
    <2>3. admin \in BOOLEAN
        BY <2>2 DEF IsAdmin
    <2>4. admin => Asked \X Tenants \subseteq scope'
        BY <2>2, <1>1, AdminScope
    <2>5. HttpInv' /\ McpInv'
        BY <2>2, <2>3, <2>4 DEF HttpInv, McpInv
    <2> QED BY <1>1, <1>4, <1>5, <1>6, <2>5 DEF IInv
<1> QED BY <1>7, <1>8

\* An answer leaves the rest as it is.
LEMMA ServedStep ==
    ASSUME IInv, NEW rows, Confined(rows, held, scope), req' = [pc |-> "served", rows |-> rows],
           UNCHANGED <<rbacVars, held, scope>>
    PROVE  IInv'
<1>1. DataInv'
    BY DEF IInv, DataInv, rbacVars
<1>2. req'.pc = "served" /\ req'.rows = rows /\ held' = held /\ scope' = scope
    OBVIOUS
<1>3. PhaseInv'
    BY <1>2 DEF IInv, PhaseInv
<1>4. HttpInv' /\ McpInv' /\ EntitledInv'
    BY <1>2 DEF HttpInv, McpInv, EntitledInv
<1>5. ServedInv'
    BY <1>2 DEF ServedInv
<1> QED BY <1>1, <1>3, <1>4, <1>5 DEF IInv

LEMMA HttpStep ==
    ASSUME IInv, NEW r \in Asked, HttpServe(r)
    PROVE  IInv'
<1> DEFINE u == req.user
           group == req.group
           t == req.tenant
           sc == allowedRealmsWithAdmin(u, t)
<1>1. PICK rows \in Answers(u, group, t, r, sc) : req' = [pc |-> "served", rows |-> rows]
    BY DEF HttpServe
<1>2. u \in Users /\ group \in Groups /\ t \in Tenants /\ Admitted(group, t, held)
    BY DEF HttpServe, IInv, HttpInv
<1>3. Entitled(db, u) \subseteq held /\ Scope(db, u) \subseteq scope
    BY DEF HttpServe, IInv, EntitledInv
<1>4. db.granted \subseteq UserRole /\ db.policies \subseteq TenantPolicy
    BY DEF IInv, DataInv, Database
<1>5. sc \in RealmScopes /\ (sc.all => sc.realms = {}) /\ Within(sc, t, scope)
    BY <1>2, <1>3, <1>4, ScopeWithin
<1>6. \A p \in Permissions : HasPermission(db, u, p, t) => <<p, t>> \in held
    BY <1>2, <1>3, PermissionEntitles
<1> HIDE DEF u, group, t, sc
<1>7. CASE group \in {"keycloak", "system"}
    <2>1. <<"keycloak:read", t>> \in held
        BY <1>2, <1>7 DEF Admitted
    <2> QED BY <1>1, <1>5, <1>7, <2>1, KeycloakConfined, SystemConfined, ServedStep DEF HttpServe
<1>8. CASE group = "alerts"
    <2>1. <<"alerts:read", t>> \in held
        BY <1>2, <1>8 DEF Admitted
    <2> QED BY <1>1, <1>5, <1>8, <2>1, AlertsConfined, ServedStep DEF HttpServe
<1>9. CASE group = "amfa"
    <2>1. <<"amfa:read", t>> \in held
        BY <1>2, <1>9 DEF Admitted
    <2> QED BY <1>1, <1>5, <1>9, <2>1, AmfaConfined, ServedStep DEF HttpServe
<1>10. CASE group = "operators"
    <2>1. <<"metrics:read", t>> \in held
        BY <1>2, <1>10 DEF Admitted
    <2> QED BY <1>1, <1>5, <1>10, <2>1, OperatorsConfined, ServedStep DEF HttpServe
<1>11. CASE group = "reports"
    <2> QED BY <1>1, <1>2, <1>5, <1>6, <1>11, ReportsConfined, ServedStep DEF HttpServe
<1>12. CASE group = "tenant"
    <2>1. <<"tenants:read", t>> \in held
        BY <1>2, <1>12 DEF Admitted
    <2> QED BY <1>1, <1>12, <2>1, TenantConfined, ServedStep DEF HttpServe
<1>13. CASE group = "tenants"
    <2> QED BY <1>1, <1>3, <1>13, TenantsConfined, ServedStep DEF HttpServe
<1>14. CASE group = "rbac"
    <2>1. <<"admin", Global>> \in held
        BY <1>2, <1>14 DEF Admitted
    <2> QED BY <1>1, <1>14, <2>1, AdministrationConfined, ServedStep DEF HttpServe
<1>15. CASE group = "users"
    <2>1. <<"platform_users:read", Global>> \in held
        BY <1>2, <1>15 DEF Admitted
    <2> QED BY <1>1, <1>15, <2>1, AccountsConfined, ServedStep DEF HttpServe
<1>16. CASE group = "me"
    <2> QED BY <1>1, <1>3, <1>4, <1>16, MineConfined, ServedStep DEF HttpServe
<1> QED BY <1>2, <1>7, <1>8, <1>9, <1>10, <1>11, <1>12, <1>13, <1>14, <1>15, <1>16 DEF Groups

\* The scope of a tool: a token that was validated as an administrator's has
\* every realm.
LEMMA ToolScope ==
    ASSUME IInv, req.pc = "mcp", NEW t \in Tenants
    PROVE  LET sc == AllowedRealms(req.user, req.admin, t) IN
           sc \in RealmScopes /\ (sc.all => sc.realms = {}) /\ Within(sc, t, scope)
<1> DEFINE u == req.user
           sc == ResolveRealmScope(GetUserPolicies(db, u), t)
<1>1. CASE req.admin
    <2>1. Asked \X Tenants \subseteq scope
        BY <1>1 DEF IInv, McpInv
    <2> QED BY <1>1, <2>1, EverythingWithin DEF AllowedRealms
<1>2. CASE ~req.admin
    <2>1. db.policies \subseteq TenantPolicy
        BY DEF IInv, DataInv, Database
    <2>2. sc \in RealmScopes /\ (sc.all => sc.realms = {}) /\ Within(sc, t, Scope(db, u))
        BY <2>1, ResolvedWithin
    <2>3. AllowedRealms(req.user, req.admin, t) = sc
        BY <1>2 DEF AllowedRealms
    <2>4. Scope(db, u) \subseteq scope
        BY DEF IInv, EntitledInv
    <2> HIDE DEF sc
    <2>5. Within(sc, t, scope)
        BY <2>2, <2>4 DEF Within
    <2> QED BY <2>2, <2>3, <2>5
<1> QED BY <1>1, <1>2

LEMMA ToolConfined ==
    ASSUME NEW u, NEW token \in SUBSET Tenants, NEW t, NEW perms \in SUBSET Permissions, NEW rows, NEW h, NEW s,
           Entitled(db, u) \subseteq h,
           t \in Tenants /\ (\A p \in perms : <<p, t>> \in h) => Confined(rows, h, s)
    PROVE  Confined(Tool(u, token, t, perms, rows), h, s)
<1>1. CASE AuthorizeTenant(u, token, t, perms)
    <2>1. t \in Tenants /\ \A p \in perms : HasPermission(db, u, p, t)
        BY <1>1 DEF AuthorizeTenant
    <2>2. \A p \in perms : <<p, t>> \in h
        BY <2>1, PermissionEntitles
    <2> QED BY <1>1, <2>1, <2>2 DEF Tool
<1>2. CASE ~AuthorizeTenant(u, token, t, perms)
    BY <1>2, NothingConfined DEF Tool
<1> QED BY <1>1, <1>2

LEMMA ToolAnswersConfined ==
    ASSUME IInv, req.pc = "mcp", NEW r \in Asked, NEW t
    PROVE  \A rows \in ToolAnswers(req.user, req.admin, req.token, t, r) : Confined(rows, held, scope)
<1> DEFINE u == req.user
           token == req.token
           sc == AllowedRealms(u, req.admin, t)
<1>1. token \in SUBSET Tenants
    BY DEF IInv, McpInv
<1>2. Entitled(db, u) \subseteq held
    BY DEF IInv, EntitledInv
<1>3. ASSUME t \in Tenants
      PROVE  sc \in RealmScopes /\ (sc.all => sc.realms = {}) /\ Within(sc, t, scope)
    BY <1>3, ToolScope
<1>4. /\ {"keycloak:read"} \in SUBSET Permissions
      /\ {"alerts:read"} \in SUBSET Permissions
      /\ {"amfa:read"} \in SUBSET Permissions
      /\ {"tenants:read"} \in SUBSET Permissions
      /\ {"tenants:read", "keycloak:read"} \in SUBSET Permissions
    BY DEF Permissions
<1> HIDE DEF u, token, sc
<1>5. ASSUME t \in Tenants, <<"keycloak:read", t>> \in held
      PROVE  /\ Confined(listEvents(t, r, sc), held, scope)
             /\ Confined(getEvent(t, r, sc), held, scope)
             /\ Confined(getEventStats(t, r, sc), held, scope)
             /\ Confined(listRealms(t, r, sc), held, scope)
    BY <1>3, <1>5, ToolsConfined
<1>6. ASSUME t \in Tenants, <<"alerts:read", t>> \in held
      PROVE  /\ Confined(listAlerts(t, r, sc), held, scope)
             /\ Confined(getAlert(t, r, sc), held, scope)
             /\ Confined(getAlertStats(t, r, sc), held, scope)
    BY <1>3, <1>6, ToolsConfined
<1>7. ASSUME t \in Tenants, <<"amfa:read", t>> \in held
      PROVE  Confined(getAmfaStats(t, r, sc), held, scope)
    BY <1>3, <1>7, ToolsConfined
<1>8. ASSUME t \in Tenants, <<"tenants:read", t>> \in held
      PROVE  Confined(mcpTenantHealth(t, r, sc), held, scope)
    BY <1>3, <1>8, ToolsConfined
<1>9. /\ Confined(Tool(u, token, t, {"keycloak:read"}, listEvents(t, r, sc)), held, scope)
      /\ Confined(Tool(u, token, t, {"keycloak:read"}, getEvent(t, r, sc)), held, scope)
      /\ Confined(Tool(u, token, t, {"keycloak:read"}, getEventStats(t, r, sc)), held, scope)
    BY <1>1, <1>2, <1>4, <1>5, ToolConfined
<1>10. /\ Confined(Tool(u, token, t, {"alerts:read"}, listAlerts(t, r, sc)), held, scope)
       /\ Confined(Tool(u, token, t, {"alerts:read"}, getAlert(t, r, sc)), held, scope)
       /\ Confined(Tool(u, token, t, {"alerts:read"}, getAlertStats(t, r, sc)), held, scope)
    BY <1>1, <1>2, <1>4, <1>6, ToolConfined
<1>11. Confined(Tool(u, token, t, {"amfa:read"}, getAmfaStats(t, r, sc)), held, scope)
    BY <1>1, <1>2, <1>4, <1>7, ToolConfined
<1>12. Confined(Tool(u, token, t, {"tenants:read", "keycloak:read"}, listRealms(t, r, sc)), held, scope)
    BY <1>1, <1>2, <1>4, <1>5, ToolConfined
<1>13. Confined(Tool(u, token, t, {"tenants:read"}, mcpTenantHealth(t, r, sc)), held, scope)
    BY <1>1, <1>2, <1>4, <1>8, ToolConfined
<1> QED BY <1>9, <1>10, <1>11, <1>12, <1>13 DEF ToolAnswers, u, token, sc

\* The list of tenants of the MCP server.
LEMMA VisibleConfined ==
    ASSUME NEW u, NEW admin, NEW token, NEW h, NEW s, Entitled(db, u) \subseteq h
    PROVE  Confined(VisibleTenants(u, admin, token), h, s)
<1> DEFINE S == FilterTenantsByUserRoles(db, u, EnabledTenants(db))
<1>1. EnabledTenants(db) \in SUBSET Tenants
    BY DEF EnabledTenants
<1>2. \A t \in S \intersect token : <<"role", t>> \in h
    BY <1>1, ListedNamed
<1> HIDE DEF S
<1>3. Confined(Listed(S \intersect token), h, s)
    BY <1>2, ListedConfined
<1> QED BY <1>3, NothingConfined DEF VisibleTenants, S

LEMMA McpStep ==
    ASSUME IInv, NEW arg, NEW r \in Asked, wrapTool(arg, r)
    PROVE  IInv'
<1> DEFINE tools == {ToolAnswers(req.user, req.admin, req.token, t, r) : t \in TenantArg(req.token, arg)}
           listed == VisibleTenants(req.user, req.admin, req.token)
<1>1. PICK rows \in (UNION tools) \union {listed, {}} : req' = [pc |-> "served", rows |-> rows]
    BY DEF wrapTool
<1>2. req.pc = "mcp" /\ UNCHANGED <<rbacVars, held, scope>>
    BY DEF wrapTool
<1>3. \A A \in tools : \A x \in A : Confined(x, held, scope)
    BY <1>2, ToolAnswersConfined
<1>4. Entitled(db, req.user) \subseteq held
    BY <1>2 DEF IInv, EntitledInv
<1>5. Confined(listed, held, scope) /\ Confined({}, held, scope)
    BY <1>4, VisibleConfined, NothingConfined
<1> HIDE DEF tools, listed
<1>6. Confined(rows, held, scope)
    <2>1. rows \in UNION tools \/ rows = listed \/ rows = {}
        BY <1>1
    <2>2. rows \in UNION tools => \E A \in tools : rows \in A
        OBVIOUS
    <2> QED BY <1>3, <1>5, <2>1, <2>2
<1> QED BY <1>1, <1>2, <1>6, ServedStep

\* An administrator's step takes nothing from what was held.
LEMMA AdministerStep ==
    ASSUME IInv, Administer
    PROVE  IInv'
<1>1. DataInv'
    BY DataStep DEF Administer, IInv
<1>2. req' = req /\ req.pc # "served" /\ req.pc \in {"idle", "http", "mcp", "served"}
    BY DEF Administer, IInv, PhaseInv
<1>3. CASE req = NoRequest
    <2>1. held' = {} /\ scope' = {} /\ req'.pc = "idle" /\ req' = NoRequest
        BY <1>2, <1>3 DEF Administer, NoRequest
    <2> QED BY <1>1, <2>1 DEF IInv, PhaseInv, HttpInv, McpInv, EntitledInv, ServedInv
<1>4. CASE req # NoRequest
    <2>1. req.pc \in {"http", "mcp"}
        BY <1>2, <1>4 DEF IInv, PhaseInv
    <2>2. held' = held \union Entitled(db', req.user) /\ scope' = scope \union Scope(db', req.user)
        BY <1>4 DEF Administer
    <2>3. PhaseInv'
        BY <1>2, <2>1, <2>2, EntitledTyped DEF IInv, PhaseInv
    <2>4. EntitledInv'
        BY <1>2, <2>2 DEF EntitledInv
    <2>5. HttpInv'
        <3>1. held \subseteq held'
            BY <2>2
        <3> QED BY <1>2, <3>1, AdmittedGrows DEF IInv, HttpInv
    <2>6. McpInv'
        BY <1>2, <2>2 DEF IInv, McpInv
    <2>7. ServedInv'
        BY <1>2 DEF ServedInv
    <2> QED BY <1>1, <2>3, <2>4, <2>5, <2>6, <2>7 DEF IInv
<1> QED BY <1>3, <1>4

LEMMA NextInv == IInv /\ [Next]_vars => IInv'
<1> SUFFICES ASSUME IInv, [Next]_vars
             PROVE  IInv'
    OBVIOUS
<1>1. CASE Administer
    BY <1>1, AdministerStep
<1>2. ASSUME NEW u \in Users, NEW group \in Groups, NEW t \in Tenants, HttpAdmit(u, group, t)
      PROVE  IInv'
    BY <1>2, AdmitStep
<1>3. ASSUME NEW r \in Asked, HttpServe(r)
      PROVE  IInv'
    BY <1>3, HttpStep
<1>4. ASSUME NEW u \in Users, NEW token \in SUBSET Tenants, AuthMiddleware(u, token)
      PROVE  IInv'
    BY <1>4, AdmitStep
<1>5. ASSUME NEW arg, NEW r \in Asked, wrapTool(arg, r)
      PROVE  IInv'
    BY <1>5, McpStep
<1>6. CASE Answered
    <2>1. DataInv'
        BY <1>6 DEF Answered, IInv, DataInv, rbacVars
    <2>2. held' = {} /\ scope' = {} /\ req'.pc = "idle" /\ req' = NoRequest
        BY <1>6 DEF Answered, NoRequest
    <2> QED BY <2>1, <2>2 DEF IInv, PhaseInv, HttpInv, McpInv, EntitledInv, ServedInv
<1>7. CASE UNCHANGED vars
    BY <1>7 DEF vars, rbacVars, IInv, DataInv, PhaseInv, HttpInv, McpInv, EntitledInv, ServedInv
<1> QED BY <1>1, <1>2, <1>3, <1>4, <1>5, <1>6, <1>7 DEF Next

\* The inductive invariant holds in every reachable state.
THEOREM Invariance == Spec => []IInv
<1>1. Init => IInv
    BY InitInv
<1>2. IInv /\ [Next]_vars => IInv'
    BY NextInv
<1> QED BY <1>1, <1>2, PTL DEF Spec

\* Whatever administrators change between the check of a permission and the
\* reading of the rows, no handler of the HTTP API and no tool of the MCP server
\* answers with a row that its user was not entitled to while the request ran.
THEOREM AnswersConfined == Spec => []ReadsConfined
<1>1. IInv => ReadsConfined
    BY Confinement
<1> QED BY <1>1, Invariance, PTL
----------------------------------------------------------------------------
(* The list of tenants *)

\* Every tenant whose pages a user may open is in the list that the user is shown.
LEMMA AccessibleListed == AccessibleIsListed
<1> SUFFICES ASSUME NEW u \in Users, NEW t \in EnabledTenants(db), RequireTenantAccess(u, t)
             PROVE  t \in FilterTenantsByUserRoles(db, u, EnabledTenants(db))
    BY DEF AccessibleIsListed
<1>1. PICK g \in GetEffectiveUserRoles(db, u) : g.tenant \in {Global, t}
    BY DEF RequireTenantAccess, HasPermission, GetUserPermissions
<1> QED BY <1>1 DEF FilterTenantsByUserRoles

\* The check on one tenant and the list of tenants, which decide in two places,
\* agree in every state.
THEOREM ListsAgree == Spec => []AccessibleIsListed
  BY AccessibleListed, PTL
----------------------------------------------------------------------------
(* Roles that are created *)

\* A role whose creation is under way.
BeingMade(r) == \E c \in Callers : call[c].pc \in {"setNew", "unmake"} /\ call[c].role = r

Empty(d, r) == d.roles[r].state = "live" /\ d.roles[r].perms = {}

LEMMA RoleEffects ==
    ASSUME NEW d \in Database, NEW r \in Roles, NEW x \in Roles
    PROVE  /\ \A ps : ps # {} /\ Empty(SetRolePermissions(d, x, ps), r) => r # x /\ Empty(d, r)
           /\ \A a : Empty(UpdateRole(d, x, a), r) => Empty(d, r)
           /\ Empty(DeleteRole(d, x), r) => r # x /\ Empty(d, r)
<1>1. d.roles \in [Roles -> Role]
    BY DEF Database
<1>2. ASSUME NEW ps, ps # {}, Empty(SetRolePermissions(d, x, ps), r)
      PROVE  r # x /\ Empty(d, r)
    <2>1. SetRolePermissions(d, x, ps).roles = [d.roles EXCEPT ![x].perms = ps]
        BY DEF SetRolePermissions, Database
    <2> QED BY <1>1, <1>2, <2>1 DEF Empty, Role
<1>3. ASSUME NEW a, Empty(UpdateRole(d, x, a), r)
      PROVE  Empty(d, r)
    <2>1. \/ UpdateRole(d, x, a).roles = d.roles
          \/ UpdateRole(d, x, a).roles = [d.roles EXCEPT ![x].active = a]
        BY DEF UpdateRole, Database
    <2> QED BY <1>1, <1>3, <2>1 DEF Empty, Role
<1>4. ASSUME Empty(DeleteRole(d, x), r)
      PROVE  r # x /\ Empty(d, r)
    <2>1. DeleteRole(d, x).roles = [d.roles EXCEPT ![x].state = "deleted"]
        BY DEF DeleteRole, Database
    <2> QED BY <1>1, <1>4, <2>1 DEF Empty, Role
<1> QED BY <1>2, <1>3, <1>4

\* Only the request that creates a role has it in hand as a new one; a request
\* that ends its creation has filled the role or deleted it.
LEMMA RoleStep ==
    ASSUME {} \notin Grants, "delete" \notin Faults,
           DataInv, NoEmptyRole, RbacNext
    PROVE  NoEmptyRole'
<1>1. db \in Database /\ call \in [Callers -> Call] /\ db' \in Database /\ call' \in [Callers -> Call]
    BY DataStep DEF DataInv
<1>2. \A r \in Custom : r \in Roles
    BY DEF Roles
<1>3. SUFFICES ASSUME NEW r \in Custom, Empty(db', r)
               PROVE  \E c \in Callers : call'[c].pc \in {"setNew", "unmake"} /\ call'[c].role = r
    BY DEF NoEmptyRole, Empty
<1>4. ASSUME Empty(db, r)
      PROVE  BeingMade(r)
    BY <1>4 DEF NoEmptyRole, Empty, BeingMade
\* A step that neither makes r empty nor ends its creation.
<1>5. ASSUME Empty(db, r), NEW c \in Callers, call[c].pc \notin {"setNew", "unmake"},
             \E x : call' = [call EXCEPT ![c] = x]
      PROVE  \E b \in Callers : call'[b].pc \in {"setNew", "unmake"} /\ call'[b].role = r
    <2>1. PICK b \in Callers : call[b].pc \in {"setNew", "unmake"} /\ call[b].role = r
        BY <1>4, <1>5 DEF BeingMade
    <2>2. b # c
        BY <1>5, <2>1
    <2>3. call'[b] = call[b]
        BY <1>1, <1>5, <2>2
    <2> QED BY <2>1, <2>3
<1>6. ASSUME Empty(db, r), call' = call
      PROVE  \E b \in Callers : call'[b].pc \in {"setNew", "unmake"} /\ call'[b].role = r
    BY <1>4, <1>6 DEF BeingMade
<1>7. ASSUME NEW c \in Callers, NEW x \in Custom, NEW ps \in Grants, NEW a \in BOOLEAN, createRole(c, x, ps, a)
      PROVE  \E b \in Callers : call'[b].pc \in {"setNew", "unmake"} /\ call'[b].role = r
    <2>1. call[c] = Idle /\ call' = [call EXCEPT ![c] = [pc |-> "setNew", role |-> x, perms |-> ps]]
        BY <1>7 DEF createRole, Begin
    <2>2. CASE x = r
        BY <1>1, <2>1, <2>2
    <2>3. CASE x # r
        <3>1. Empty(db, r)
            <4>1. db'.roles = [db.roles EXCEPT ![x] = [state |-> "live", active |-> a, perms |-> {}]]
                BY <1>1, <1>7 DEF createRole, Database
            <4>2. db'.roles[r] = db.roles[r]
                BY <1>1, <1>2, <2>3, <4>1 DEF Database
            <4> QED BY <1>3, <4>2 DEF Empty
        <3>2. call[c].pc = "idle"
            BY <2>1 DEF Idle
        <3>3. \E y : call' = [call EXCEPT ![c] = y]
            BY <2>1
        <3> QED BY <1>5, <3>1, <3>2, <3>3
    <2> QED BY <2>2, <2>3
<1>8. ASSUME NEW c \in Callers, CreateRoleWithPermissions(c)
      PROVE  \E b \in Callers : call'[b].pc \in {"setNew", "unmake"} /\ call'[b].role = r
    <2>1. call[c] \in [pc : {"setNew", "unmake"}, role : Roles, perms : Grants]
        BY <1>1, <1>8, CallFacts DEF CreateRoleWithPermissions
    <2>2. CASE Return(c) /\ db' = SetRolePermissions(db, call[c].role, call[c].perms)
        <3>1. call[c].role \in Roles /\ call[c].perms # {}
            BY <2>1
        <3>2. call[c].role # r /\ Empty(db, r)
            BY <1>1, <1>2, <1>3, <2>2, <3>1, RoleEffects
        <3>3. PICK b \in Callers : call[b].pc \in {"setNew", "unmake"} /\ call[b].role = r
            BY <1>4, <3>2 DEF BeingMade
        <3>4. b # c /\ call'[b] = call[b]
            BY <1>1, <2>2, <3>2, <3>3 DEF Return
        <3> QED BY <3>3, <3>4
    <2>3. CASE Goto(c, "unmake") /\ UNCHANGED db
        <3>1. PICK b \in Callers : call[b].pc \in {"setNew", "unmake"} /\ call[b].role = r
            BY <1>3, <1>4, <2>3 DEF BeingMade, Empty
        <3>2. call'[b].pc \in {"setNew", "unmake"} /\ call'[b].role = r
            <4>1. CASE b = c
                <5>1. call'[c] = [call[c] EXCEPT !.pc = "unmake"]
                    BY <1>1, <2>3 DEF Goto
                <5> QED BY <2>1, <3>1, <4>1, <5>1
            <4>2. CASE b # c
                BY <1>1, <2>3, <3>1, <4>2 DEF Goto
            <4> QED BY <4>1, <4>2
        <3> QED BY <3>2
    <2> QED BY <1>8, <2>2, <2>3 DEF CreateRoleWithPermissions
<1>9. ASSUME NEW c \in Callers, UndoCreate(c)
      PROVE  \E b \in Callers : call'[b].pc \in {"setNew", "unmake"} /\ call'[b].role = r
    <2>1. call[c].role \in Roles
        BY <1>1, <1>9, CallFacts DEF UndoCreate
    <2>2. db' = DeleteRole(db, call[c].role) /\ call' = [call EXCEPT ![c] = Idle]
        BY <1>9 DEF UndoCreate, Return
    <2>3. call[c].role # r /\ Empty(db, r)
        BY <1>1, <1>2, <1>3, <2>1, <2>2, RoleEffects
    <2>4. PICK b \in Callers : call[b].pc \in {"setNew", "unmake"} /\ call[b].role = r
        BY <1>4, <2>3 DEF BeingMade
    <2>5. b # c /\ call'[b] = call[b]
        BY <1>1, <2>2, <2>3, <2>4
    <2> QED BY <2>4, <2>5
<1>10. ASSUME NEW c \in Callers, UpdateRolePermissions(c)
       PROVE  \E b \in Callers : call'[b].pc \in {"setNew", "unmake"} /\ call'[b].role = r
    <2>1. call[c].pc = "setOld" /\ call[c].role \in Roles /\ call[c].perms # {}
        BY <1>1, <1>10, CallFacts DEF UpdateRolePermissions
    <2>2. db' = db \/ db' = SetRolePermissions(db, call[c].role, call[c].perms)
        BY <1>10 DEF UpdateRolePermissions
    <2>3. Empty(db, r)
        BY <1>1, <1>2, <1>3, <2>1, <2>2, RoleEffects
    <2>4. \E x : call' = [call EXCEPT ![c] = x]
        BY <1>10 DEF UpdateRolePermissions, Goto, Return
    <2> QED BY <1>5, <2>1, <2>3, <2>4
<1>11. ASSUME NEW c \in Callers, UpdateRoleRow(c)
       PROVE  \E b \in Callers : call'[b].pc \in {"setNew", "unmake"} /\ call'[b].role = r
    <2>1. call[c].pc = "write" /\ call[c].role \in Roles /\ call[c].active \in BOOLEAN
        BY <1>1, <1>11, CallFacts DEF UpdateRoleRow
    <2>2. db' = db \/ db' = UpdateRole(db, call[c].role, call[c].active)
        BY <1>11 DEF UpdateRoleRow
    <2>3. Empty(db, r)
        BY <1>1, <1>2, <1>3, <2>1, <2>2, RoleEffects
    <2>4. \E x : call' = [call EXCEPT ![c] = x]
        BY <1>11 DEF UpdateRoleRow, Return
    <2> QED BY <1>5, <2>1, <2>3, <2>4
<1>12. ASSUME NEW c \in Callers, NEW x \in Custom, deleteRole(c, x)
       PROVE  \E b \in Callers : call'[b].pc \in {"setNew", "unmake"} /\ call'[b].role = r
    <2>1. call' = call /\ db' = DeleteRole(db, x) /\ x \in Roles
        BY <1>12 DEF deleteRole, AtOnce, Roles
    <2>2. Empty(db, r)
        BY <1>1, <1>2, <1>3, <2>1, RoleEffects
    <2> QED BY <1>6, <2>1, <2>2
\* The remaining requests leave the roles alone.
<1>13. ASSUME db'.roles = db.roles,
              \/ call' = call
              \/ \E c \in Callers : call[c].pc \notin {"setNew", "unmake"} /\ \E x : call' = [call EXCEPT ![c] = x]
       PROVE  \E b \in Callers : call'[b].pc \in {"setNew", "unmake"} /\ call'[b].role = r
    <2>1. Empty(db, r)
        BY <1>3, <1>13 DEF Empty
    <2> QED BY <1>5, <1>6, <1>13, <2>1
<1>14. ASSUME NEW c \in Callers, NEW x, NEW l, NEW ps, NEW f, updateRole(c, x, l, ps, f)
       PROVE  \E b \in Callers : call'[b].pc \in {"setNew", "unmake"} /\ call'[b].role = r
    <2>1. \A y : Begin(c, y) => call[c].pc = "idle" /\ call' = [call EXCEPT ![c] = y]
        BY DEF Begin, Idle
    <2>2. db' = db /\ \E y : Begin(c, y)
        BY <1>14 DEF updateRole
    <2> QED BY <1>13, <2>1, <2>2
<1>15. ASSUME NEW c \in Callers,
              \/ \E u \in Users, x \in Roles, t \in Tenants \union {Global} : assignRoleToUser(c, u, x, t)
              \/ AssignRoleToUser(c)
       PROVE  \E b \in Callers : call'[b].pc \in {"setNew", "unmake"} /\ call'[b].role = r
    <2>1. call[c].pc \in {"idle", "assign"} /\ \E y : call' = [call EXCEPT ![c] = y]
        BY <1>15 DEF assignRoleToUser, AssignRoleToUser, Begin, Return, Idle
    <2>2. db'.roles = db.roles
        BY <1>1, <1>15 DEF assignRoleToUser, AssignRoleToUser, InsertUserRole, Database
    <2> QED BY <1>13, <2>1, <2>2
<1>16. ASSUME NEW c \in Callers,
              \/ \E g \in db.granted : removeRoleFromUser(c, g)
              \/ \E p \in TenantPolicy : createUserPolicy(c, p) \/ deletePolicy(c, p)
              \/ \E t \in Tenants : updateTenant(c, t) \/ deleteTenant(c, t) \/ createTenant(c, t)
       PROVE  \E b \in Callers : call'[b].pc \in {"setNew", "unmake"} /\ call'[b].role = r
    <2>1. call' = call
        BY <1>16 DEF removeRoleFromUser, createUserPolicy, deletePolicy, updateTenant, deleteTenant, createTenant, AtOnce
    <2>2. db'.roles = db.roles
        BY <1>1, <1>16 DEF removeRoleFromUser, createUserPolicy, deletePolicy, updateTenant, deleteTenant, createTenant,
            RemoveRoleFromUser, CreatePolicy, DeletePolicy, DeleteTenant, Database
    <2> QED BY <1>13, <2>1, <2>2
<1>17. ASSUME NEW g \in db.granted, Expire(g)
       PROVE  \E b \in Callers : call'[b].pc \in {"setNew", "unmake"} /\ call'[b].role = r
    <2>1. call' = call /\ db'.roles = db.roles
        BY <1>1, <1>17 DEF Expire, Database
    <2> QED BY <1>13, <2>1
<1>18. db.policies \subseteq TenantPolicy
    BY <1>1 DEF Database
<1> QED BY <1>7, <1>8, <1>9, <1>10, <1>11, <1>12, <1>14, <1>15, <1>16, <1>17, <1>18 DEF RbacNext

\* When administrators give every new role a permission and the deletion of a
\* role does not fail, a failed creation leaves no role without permissions.
THEOREM NoRoleLeftEmpty ==
    ASSUME {} \notin Grants, "delete" \notin Faults
    PROVE  Spec => []NoEmptyRole
<1>1. Init => NoEmptyRole
    <2>1. \A r \in Custom : r \notin SystemRoles => r \in Roles
        BY DEF Roles
    <2> QED BY <2>1 DEF Init, RbacInit, NoEmptyRole, Roles, SystemRoles, SystemPermissions, Permissions
<1>2. IInv /\ NoEmptyRole /\ [Next]_vars => NoEmptyRole'
    <2>1. ASSUME DataInv, NoEmptyRole, Administer
          PROVE  NoEmptyRole'
        BY <2>1, RoleStep DEF Administer
    <2>2. ASSUME NoEmptyRole, UNCHANGED rbacVars
          PROVE  NoEmptyRole'
        BY <2>2 DEF NoEmptyRole, rbacVars
    <2>3. [Next]_vars => Administer \/ UNCHANGED rbacVars
        BY DEF Next, vars, HttpAdmit, HttpServe, AuthMiddleware, wrapTool, Answered
    <2> QED BY <2>1, <2>2, <2>3 DEF IInv
<1> QED BY <1>1, <1>2, Invariance, PTL DEF Spec
=============================================================================
