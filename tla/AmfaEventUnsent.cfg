SPECIFICATION FairSpec
CONSTANTS
  Events = {"e1", "e2", "e3"}
  EventTime <- MCTimes
  LateEventWindow = 4
  Lookback = 2
  PageCap = 3
  MaxTime = 5
  MaxFaults = 1
  MaxCrashes = 0
  MaxSilences = 0
CHECK_DEADLOCK FALSE
PROPERTY OpenIsAnnounced
