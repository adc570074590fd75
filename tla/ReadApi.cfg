SPECIFICATION Spec
CONSTANTS
    Users = {u1}
    Tenants = {t1, t2}
    Realms = {r1, r2}
    Custom = {c1}
    Grants <- MCGrants
    Callers = {a1, a2}
    Faults = {"perms", "lookup"}
    MaxOps = 3
CHECK_DEADLOCK FALSE
SYMMETRY Symmetry
INVARIANT ReadsConfined
INVARIANT AccessibleIsListed
INVARIANT NoEmptyRole
