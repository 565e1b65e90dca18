SPECIFICATION Spec
CONSTANTS
  main = main
  sub = sub
  file = file
  Objects <- AllScripts
  Names = {"main", "sub", "file"}
  NameOf <- AllNames
  Main = main
  Values = {0, 1}
  Programs <- GlobalExits
  MaxDepth = 3
  MaxStarts = 1
INVARIANTS
  GlobalExitStopsAll
CHECK_DEADLOCK FALSE
