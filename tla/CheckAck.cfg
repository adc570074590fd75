SPECIFICATION Spec
CONSTANTS
  Scenes <- MCScenes
  ResolveAfter = 2
  Hour = 1
PROPERTY OperatorChoiceAlwaysKept
CHECK_DEADLOCK FALSE
