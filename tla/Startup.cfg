SPECIFICATION StartupSpec
CONSTANTS
  s1 = s1
  s2 = s2
  Servers = {s1, s2}
  Tenants = {"t", "u"}
  RoleOrder <- MCRoleOrder
  Installations <- MCInstallations
  DrainLimit = 1
  MaxClock = 2
  MaxRows = 2
  MaxFaults = 1
  MaxCrashes = 1
  MaxAdmin = 2
SYMMETRY MCSymmetry
CHECK_DEADLOCK FALSE
INVARIANT ServesSafely
INVARIANT NothingInherited
PROPERTY MigratedOnce
PROPERTY NewerRowsSurvive
