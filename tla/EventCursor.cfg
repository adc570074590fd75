SPECIFICATION Spec
CONSTANTS
    Events = {e1, e2, e3}
    LateWindow = 1
    Margin = 1
    Overlap = 1
    SweepInterval = 1
    Lookback = 1
    Day = 3
    PageSize = 1
    PollPages = 1
    SweepPages = 1
    DatePages = 2
    MaxRetries = 1
    Skew = 1
    Ahead = 1
    Horizon = 2
CHECK_DEADLOCK FALSE
SYMMETRY Symmetry
VIEW View
INVARIANT CursorNotAhead
INVARIANT NoEventLost
INVARIANT ProcessedOnce
