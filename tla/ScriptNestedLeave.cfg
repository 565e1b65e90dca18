SPECIFICATION Spec
CONSTANTS
  Scripts <- NestedLeaves
  MaxOpen = 2
  Retry = FALSE
INVARIANT
  LeaveLeavesItsBlocks
CHECK_DEADLOCK FALSE
