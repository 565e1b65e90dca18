SPECIFICATION Spec
CONSTANTS
  CR = "r"
  LF = "n"
  NUL = "z"
  Letters = {"a", "0"}
  MaxLength = 4
  Files <- Texts
  LaterFiles <- Reopened
  BlockSizes = {1, 2, 3}
  MaxAhead = 2
INVARIANTS
  TypeOK
  BlockFollowsFile
PROPERTIES
  DeliversLines
