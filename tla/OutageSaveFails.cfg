SPECIFICATION OutageSpec
CONSTANTS
    MaxOcc = 2
    MaxIssues = 2
    Faults = {"save"}
    Ops = {}
INVARIANT OutageRecorded
