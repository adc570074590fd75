SPECIFICATION Spec
CONSTANTS
  Tenants = {t1}
  Mirrors = {t1}
  Ids = {e1, e2, e3}
  PageSize = 1
  Overlap = 2
  Backfill = 2
  MaxLag = 0
  SameTime = TRUE
  MaxTime = 4
  MaxRestarts = 0
  MaxFaults = 0
INVARIANT NoLoginSkipped
CHECK_DEADLOCK FALSE
