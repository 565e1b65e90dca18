SPECIFICATION FairSpec
CONSTANTS
  Scripts <- Arbitrary
  MaxOpen = 2
  Retry = TRUE
INVARIANTS
  TypeOK
  DefinedIfSound
PROPERTIES
  RunOnlyReads
  CheckEnds
  LoopFreeRunEnds
CHECK_DEADLOCK FALSE
