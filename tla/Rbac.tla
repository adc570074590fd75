-------------------------------- MODULE Rbac --------------------------------
(***************************************************************************)
(* Roles, role assignments and tenant policies: internal/rbac, its         *)
(* Postgres repositories, and the administrator's handlers of              *)
(* internal/http/chi that change them.                                     *)
(*                                                                         *)
(* `db` is the stored state every check reads; a question about a user is  *)
(* an operator of it.  A handler that reads a role and writes later is     *)
(* several steps; one transaction, or one statement, is one step.          *)
(***************************************************************************)
EXTENDS Naturals, FiniteSets

CONSTANTS Users, Tenants, Realms,
          Custom,      \* ids of the roles that administrators create
          Grants,      \* permission lists that an administrator gives a role
          Callers,     \* administrator requests in progress
          Faults,      \* writes that may fail: {} or a set of {"perms", "delete"}
          MaxOps       \* bound: administrator requests made

ASSUME OpsAssumption == MaxOps \in Nat

VARIABLES db,          \* roles, assignments, policies and tenants
          call,        \* administrator requests in progress
          ops          \* how many were made

rbacVars == <<db, call, ops>>

Global == "global"                \* the NULL tenant of an assignment
Permissions == {"tenants:read", "keycloak:read", "alerts:read", "amfa:read", "metrics:read", "platform_users:read"}
ASSUME GrantsAssumption == Grants \subseteq SUBSET Permissions

\* The roles that are created at boot; every one can read what tenants have.
SystemRoles == {"admin", "viewer"}
SystemPermissions(r) == IF r = "admin" THEN Permissions ELSE Permissions \ {"platform_users:read"}
Roles == SystemRoles \union Custom
Role == [state : {"new", "live", "deleted"}, active : BOOLEAN, perms : SUBSET Permissions]
UserRole == [user : Users, role : Roles, tenant : Tenants \union {Global}, expired : BOOLEAN]
\* A policy row that holds no list of realms has `all`.
TenantPolicy == [user : Users, tenant : Tenants, all : BOOLEAN, realms : SUBSET Realms]
----------------------------------------------------------------------------
(* The questions that the checks ask *)

\* UserRole.Grants: the role is there, is active, and the assignment is not over.
Granting(d, g) ==
    /\ d.roles[g.role].state = "live" /\ d.roles[g.role].active
    /\ ~g.expired

\* The assignments of a user, and those that are for a tenant.
GetUserRoles(d, u) == {g \in d.granted : g.user = u}
GetUserRolesForTenant(d, u, t) == {g \in GetUserRoles(d, u) : g.tenant \in {Global, t}}

GetEffectiveUserRoles(d, u) == {g \in GetUserRoles(d, u) : Granting(d, g)}

ListRoles(d, includeInactive) == {r \in Roles : d.roles[r].state = "live" /\ (includeInactive \/ d.roles[r].active)}
GetRoleWithPermissions(d, r) == IF d.roles[r].state = "live" THEN {r} ELSE {}

\* GetUserPermissions for a tenant: global assignments count for every tenant.
GetUserPermissions(d, u, t) ==
    UNION {d.roles[g.role].perms : g \in {h \in GetEffectiveUserRoles(d, u) : h.tenant \in {Global, t}}}

\* GetUserPermissions for no tenant: an assignment for any tenant counts.
GetAnyPermissions(d, u) == UNION {d.roles[g.role].perms : g \in GetEffectiveUserRoles(d, u)}

HasPermission(d, u, p, t) == p \in GetUserPermissions(d, u, t)

HasGlobalPermission(d, u, p) ==
    \E g \in GetEffectiveUserRoles(d, u) : g.tenant = Global /\ p \in d.roles[g.role].perms

\* IsAdmin: by the role's name, and only an assignment for every tenant.
IsAdmin(d, u) == \E g \in GetEffectiveUserRoles(d, u) : g.role = "admin" /\ g.tenant = Global

GetUserPolicies(d, u) == {p \in d.policies : p.user = u}

\* ResolveRealmScope: without a row for the tenant, or with one that holds no
\* list, every realm; otherwise the realms that the rows name together.
ResolveRealmScope(policies, t) ==
    LET rows == {p \in policies : p.tenant = t} IN
    IF rows = {} \/ \E p \in rows : p.all
    THEN [all |-> TRUE, realms |-> {}]
    ELSE [all |-> FALSE, realms |-> UNION {p.realms : p \in rows}]

\* Mutant: an assignment for every tenant names none.
FilterByNamedTenants(d, u, tenants) ==
    LET mine == {g.tenant : g \in GetEffectiveUserRoles(d, u)} IN
    IF IsAdmin(d, u) THEN tenants ELSE tenants \intersect mine

\* FilterTenantsByUserRoles: everything for a global role, else what the roles name.
FilterTenantsByUserRoles(d, u, tenants) ==
    LET mine == {g.tenant : g \in GetEffectiveUserRoles(d, u)} IN
    IF IsAdmin(d, u) \/ Global \in mine THEN tenants ELSE tenants \intersect mine

EnabledTenants(d) == {t \in Tenants : d.tenants[t] = "enabled"}
----------------------------------------------------------------------------
(* The repositories' writes *)

\* SetRolePermissions locks the row and finds only a live role.
SetRolePermissions(d, r, ps) == [d EXCEPT !.roles[r].perms = ps]

\* UpdateRole writes the row as the caller has it; a deleted one is not found.
UpdateRole(d, r, active) == IF d.roles[r].state = "live" THEN [d EXCEPT !.roles[r].active = active] ELSE d

\* DeleteRole: the assignments and the role, in one transaction.
DeleteRole(d, r) ==
    [d EXCEPT !.roles[r].state = "deleted", !.granted = {g \in @ : g.role # r}]

\* AssignRoleToUser's insert.
InsertUserRole(d, g) == [d EXCEPT !.granted = @ \union {g}]

RemoveRoleFromUser(d, u, r, t) == [d EXCEPT !.granted = {g \in @ : ~(g.user = u /\ g.role = r /\ g.tenant = t)}]

CreatePolicy(d, p) == [d EXCEPT !.policies = @ \union {p}]
DeletePolicy(d, p) == [d EXCEPT !.policies = @ \ {p}]

\* DeleteTenant takes the tenant's assignments and policies with it.
DeleteTenant(d, t) ==
    [d EXCEPT !.tenants[t] = "absent",
              !.granted = {g \in @ : g.tenant # t},
              !.policies = {p \in @ : p.tenant # t}]
----------------------------------------------------------------------------
(* The administrator's requests *)

Idle == [pc |-> "idle"]
Begin(c, r) == call[c] = Idle /\ ops < MaxOps /\ ops' = ops + 1 /\ call' = [call EXCEPT ![c] = r]
AtOnce(c) == call[c] = Idle /\ ops < MaxOps /\ ops' = ops + 1 /\ UNCHANGED call
Goto(c, pc) == call' = [call EXCEPT ![c].pc = pc] /\ UNCHANGED ops
Return(c) == call' = [call EXCEPT ![c] = Idle] /\ UNCHANGED ops

\* createRole: the row is there, without permissions, before they are set.
createRole(c, r, ps, active) ==
    /\ db.roles[r].state = "new"
    /\ Begin(c, [pc |-> "setNew", role |-> r, perms |-> ps])
    /\ db' = [db EXCEPT !.roles[r] = [state |-> "live", active |-> active, perms |-> {}]]

\* CreateRoleWithPermissions removes the role again when they cannot be saved.
CreateRoleWithPermissions(c) ==
    /\ call[c].pc = "setNew"
    /\ LET r == call[c].role IN
       \/ /\ db.roles[r].state = "live"
          /\ db' = SetRolePermissions(db, r, call[c].perms)
          /\ Return(c)
       \/ /\ "perms" \in Faults \/ db.roles[r].state # "live"
          /\ Goto(c, "unmake") /\ UNCHANGED db

\* Mutant: the role stays.
KeepCreated(c) == call[c].pc = "unmake" /\ UNCHANGED db /\ Return(c)

UndoCreate(c) ==
    /\ call[c].pc = "unmake"
    /\ \/ db' = DeleteRole(db, call[c].role)
       \/ "delete" \in Faults /\ UNCHANGED db
    /\ Return(c)

\* updateRole reads the role.  The request may have a permission list, and may
\* have other fields: a name alone ("keep") writes the flag that was read.
updateRole(c, r, listed, ps, field) ==
    /\ r \notin SystemRoles /\ db.roles[r].state = "live"
    /\ Begin(c, [pc |-> IF listed THEN "setOld" ELSE "write", role |-> r, perms |-> ps, field |-> field,
                 active |-> IF field = "keep" THEN db.roles[r].active ELSE field = "on"])
    /\ UNCHANGED db

UpdateRolePermissions(c) ==
    /\ call[c].pc = "setOld"
    /\ LET r == call[c].role IN
       \/ /\ db.roles[r].state = "live"
          /\ db' = SetRolePermissions(db, r, call[c].perms)
          /\ Goto(c, "write")
       \/ /\ "perms" \in Faults \/ db.roles[r].state # "live"
          /\ Return(c) /\ UNCHANGED db

UpdateRoleRow(c) ==
    /\ call[c].pc = "write"
    /\ db' = IF call[c].field = "none" THEN db ELSE UpdateRole(db, call[c].role, call[c].active)
    /\ Return(c)

\* deleteRole refuses a system role, and deletes by id.
deleteRole(c, r) ==
    /\ r \notin SystemRoles /\ db.roles[r].state = "live"
    /\ db' = DeleteRole(db, r)
    /\ AtOnce(c)

\* assignRoleToUser: the role is read, the admin role refused for one tenant.
assignRoleToUser(c, u, r, t) ==
    /\ db.roles[r].state = "live"
    /\ ~(r = "admin" /\ t # Global)
    /\ Begin(c, [pc |-> "assign", grant |-> [user |-> u, role |-> r, tenant |-> t, expired |-> FALSE]])
    /\ UNCHANGED db

\* AssignRoleToUser inserts the assignment; the role may be deleted by now.
AssignRoleToUser(c) ==
    /\ call[c].pc = "assign"
    /\ db' = InsertUserRole(db, call[c].grant)
    /\ Return(c)

removeRoleFromUser(c, g) ==
    /\ g \in db.granted
    /\ db' = RemoveRoleFromUser(db, g.user, g.role, g.tenant)
    /\ AtOnce(c)

\* createUserPolicy: validateAllowedRealms has refused a blank realm.
createUserPolicy(c, p) == db' = CreatePolicy(db, p) /\ AtOnce(c)
deletePolicy(c, p) == p \in db.policies /\ db' = DeletePolicy(db, p) /\ AtOnce(c)

\* A tenant is switched on or off, deleted, or created again under its id.
updateTenant(c, t) ==
    /\ db.tenants[t] # "absent"
    /\ db' = [db EXCEPT !.tenants[t] = IF @ = "enabled" THEN "disabled" ELSE "enabled"]
    /\ AtOnce(c)
deleteTenant(c, t) == db.tenants[t] # "absent" /\ db' = DeleteTenant(db, t) /\ AtOnce(c)
createTenant(c, t) ==
    /\ db.tenants[t] = "absent"
    /\ db' = [db EXCEPT !.tenants[t] = "enabled"]
    /\ AtOnce(c)

\* The time of an assignment runs out.
Expire(g) ==
    /\ g \in db.granted /\ ~g.expired
    /\ ops < MaxOps /\ ops' = ops + 1
    /\ db' = [db EXCEPT !.granted = (@ \ {g}) \union {[g EXCEPT !.expired = TRUE]}]
    /\ UNCHANGED call

\* A user may be a viewer of a tenant already.
RbacInit ==
    /\ \E before \in {{}} \union {{g} : g \in [user : Users, role : {"viewer"}, tenant : Tenants, expired : {FALSE}]} :
       db = [roles |-> [r \in Roles |-> [state |-> IF r \in SystemRoles THEN "live" ELSE "new",
                                         active |-> TRUE,
                                         perms |-> IF r \in SystemRoles THEN SystemPermissions(r) ELSE {}]],
             granted |-> before, policies |-> {}, tenants |-> [t \in Tenants |-> "enabled"]]
    /\ call = [c \in Callers |-> Idle]
    /\ ops = 0

RbacNext ==
    \/ \E c \in Callers :
        \/ \E r \in Custom, ps \in Grants, a \in BOOLEAN : createRole(c, r, ps, a)
        \/ CreateRoleWithPermissions(c) \/ UndoCreate(c)
        \/ \E r \in Custom, ps \in Grants, f \in {"none", "keep", "on", "off"} : updateRole(c, r, TRUE, ps, f)
        \/ \E r \in Custom, f \in {"keep", "on", "off"} : updateRole(c, r, FALSE, {}, f)
        \/ UpdateRolePermissions(c) \/ UpdateRoleRow(c)
        \/ \E r \in Custom : deleteRole(c, r)
        \/ \E u \in Users, r \in Roles, t \in Tenants \union {Global} : assignRoleToUser(c, u, r, t)
        \/ AssignRoleToUser(c)
        \/ \E g \in db.granted : removeRoleFromUser(c, g)
        \/ \E p \in {q \in TenantPolicy : q.all => q.realms = {}} : createUserPolicy(c, p)
        \/ \E p \in db.policies : deletePolicy(c, p)
        \/ \E t \in Tenants : updateTenant(c, t) \/ deleteTenant(c, t) \/ createTenant(c, t)
    \/ \E g \in db.granted : Expire(g)
=============================================================================
