SPECIFICATION Spec
CONSTANTS
    Accounts = {u1}
    Names = {n1, n2}
    Subjects = {s1, s2}
    Instances = {i1}
    Callers = {c1, c2}
    Link = TRUE
    Faults = {"revoke"}
    Ops = {"simple", "sso", "logout", "restart", "create", "update", "delete", "password", "token"}
    MaxAge = 1
    MaxTime = 2
    MaxIssued = 2
    MaxCuts = 2
CHECK_DEADLOCK FALSE
SYMMETRY Symmetry
INVARIANT EndedStaysEnded
INVARIANT CurrentSessionsKept
INVARIANT TokensEndWithStatus
