SPECIFICATION Spec
CONSTANTS
    Tenants = {t1, t2}
    Callers = {c1, c2}
    MaxVer = 3
    Faults = {"default", "write"}
    Work = {"get", "create", "update", "delete", "sync", "unmark", "load", "health"}
CHECK_DEADLOCK FALSE
CONSTRAINT OneOrChanges
SYMMETRY Symmetry
INVARIANT CacheFollowsDatabase
INVARIANT EditsBuildOnLatest
INVARIANT HealthAgrees
PROPERTY ConfigDefinedReadOnly
