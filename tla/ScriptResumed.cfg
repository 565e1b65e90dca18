SPECIFICATION Spec
CONSTANTS
  Scripts <- FailingScripts
  MaxOpen = 2
  Retry = TRUE
INVARIANT
  NoUndefinedBehaviour
CHECK_DEADLOCK FALSE
