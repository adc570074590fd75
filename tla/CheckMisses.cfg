SPECIFICATION Spec
CONSTANTS
  Scenes <- RowScenes
  ResolveAfter = 2
  Hour = 1
PROPERTY MissesInARow
CHECK_DEADLOCK FALSE
