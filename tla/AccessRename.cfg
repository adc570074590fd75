SPECIFICATION Spec
CONSTANTS
    Accounts = {u1, u2}
    Names = {n1, n2}
    Subjects = {}
    Instances = {i1}
    Callers = {c1}
    Link = FALSE
    Faults = {}
    Ops = {"simple", "logout", "create", "update"}
    MaxAge = 1
    MaxTime = 0
    MaxIssued = 2
    MaxCuts = 2
CHECK_DEADLOCK FALSE
SYMMETRY Symmetry
INVARIANT NewerSessionsLeftAlone
