SPECIFICATION FairSpec
CONSTANTS
  Scenes <- MCScenes
  ResolveAfter = 2
  Hour = 1
CHECK_DEADLOCK FALSE
PROPERTY ResolvedOnlyWhenFixed
PROPERTY OperatorChoiceKept
PROPERTY AlertsFollowProblems
