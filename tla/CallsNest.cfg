SPECIFICATION FairSpec
CONSTANTS
  main = main
  sub = sub
  file = file
  Objects <- AllScripts
  Names = {"main", "sub", "file"}
  NameOf <- AllNames
  Main = main
  Values = {0, 1}
  Programs <- Calling
  MaxDepth = 3
  MaxStarts = 2
INVARIANTS
  TypeOK
  EngineFollows
  RunsTested
  TestIsSilent
PROPERTIES
  CallsNest
  TestAndRunReturns
CHECK_DEADLOCK FALSE
