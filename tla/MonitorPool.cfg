SPECIFICATION FairSpec
CONSTANTS
    Tenants = {t1}
    MaxRev = 2
    QueueSize = 1
CHECK_DEADLOCK FALSE
INVARIANT OneMonitorPerTenant
INVARIANT DisabledTenantStops
PROPERTY ChangesAreHandled
PROPERTY StopReturns
