SPECIFICATION Spec
VIEW view
CONSTANTS
  NL = "nl"
  Letters = {"a", "b"}
  Files <- Texts
  FirstFiles <- LineKinds
  MaxFile = 3
  Inserted <- InsertedTexts
  Words <- SearchedWords
  NewWords <- Replacing
  Moves <- Steps
  Counts = {1, 9}
  Searches <- SearchForms
  MaxText = 6
  MaxStatements = 2
INVARIANTS
  TypeOK
PROPERTIES
  DeleteCuts
  InsertPuts
  CopyTakes
  ReplaceKeepsToRange
  SearchFindsNext
  SearchFindsLast
CHECK_DEADLOCK FALSE
