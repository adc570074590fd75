SPECIFICATION FairSpec
CONSTANTS
    MaxOcc = 2
    MaxIssues = 2
    Faults = {"restart"}
    Ops = {"ack", "ignore", "reopen", "resolve", "delete", "silence"}
INVARIANT AnnouncedOrRetried
INVARIANT NewOutageNewOccurrence
PROPERTY EventuallyAnnounced
