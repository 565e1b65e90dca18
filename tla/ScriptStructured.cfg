SPECIFICATION Spec
CONSTANTS
  Scripts <- Structured
  MaxOpen = 2
  Retry = FALSE
PROPERTY FollowsStructure
CHECK_DEADLOCK FALSE
