SPECIFICATION Spec
CONSTANTS
    Tenants = {t1}
    MaxRev = 3
    QueueSize = 2
CHECK_DEADLOCK FALSE
INVARIANT DeletedTenantStops
