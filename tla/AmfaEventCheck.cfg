SPECIFICATION FairSpec
CONSTANTS
  Events = {"e1", "e2", "e3"}
  EventTime <- MCTimes
  LateEventWindow = 4
  Lookback = 2
  PageCap = 3
  MaxTime = 5
  MaxFaults = 1
  MaxCrashes = 1
  MaxSilences = 2
INVARIANT NoEventLost
PROPERTY AlertedOnce
PROPERTY DueHandled
CHECK_DEADLOCK FALSE
