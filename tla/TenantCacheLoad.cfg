SPECIFICATION Spec
CONSTANTS
    Tenants = {t1}
    Callers = {c1, c2}
    MaxVer = 3
    Faults = {}
    Work = {"update", "load"}
CHECK_DEADLOCK FALSE
SYMMETRY Symmetry
INVARIANT EveryWriteInOrder
