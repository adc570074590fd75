SPECIFICATION FairSpec
CONSTANTS
  Tenants = {t1, t2}
  Mirrors = {t1}
  Ids = {e1, e2}
  PageSize = 2
  Overlap = 2
  Backfill = 2
  MaxLag = 1
  SameTime = TRUE
  MaxTime = 4
  MaxRestarts = 2
  MaxFaults = 1
CHECK_DEADLOCK FALSE
INVARIANT NoLoginSkipped
PROPERTY RefinesLoginStore
PROPERTY HalvesMerge
