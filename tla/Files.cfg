SPECIFICATION FilesSpec
CONSTANTS
  Radix = 3
  Capacities = {8, 11, 29}
  Sizes = {0, 2, 3, 7, 24}
  MaxBlocks = 3
  MaxClears = 1
INVARIANTS
  YieldsWanted
  StatisticAgrees
  EntriesOnce
  LinesOfFile
  ContentsKept
  LengthsKept
  FilesKept
  FunctionsKeep
CHECK_DEADLOCK FALSE
