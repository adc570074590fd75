SPECIFICATION Spec
CONSTANTS
    Tenants = {t1, t2}
    Callers = {c1, c2}
    MaxVer = 3
    Faults = {}
    Work = {"get", "create", "update", "delete", "load"}
CHECK_DEADLOCK FALSE
SYMMETRY Symmetry
INVARIANT OneDefault
