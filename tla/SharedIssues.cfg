SPECIFICATION FairIssuesSpec
CONSTANTS
  Alerts = {"expiring", "expired", "fetch"}
  Replaces <- MCReplaces
  Meets <- MCMeets
  Channels = {"gitlab", "slack"}
  Worlds <- MCWorlds
  MaxOcc = 2
  MaxIssues = 4
  MaxFaults = 1
  MaxWorlds = 2
  MaxPeople = 1
INVARIANT HeldIssueOpen
INVARIANT AnnouncedOnce
INVARIANT NoIssueLeft
CHECK_DEADLOCK FALSE
PROPERTY EveryChannelTold
