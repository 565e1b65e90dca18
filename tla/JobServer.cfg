SPECIFICATION FairSpec
CONSTANTS
  a = a
  b = b
  none = none
  name = name
  short = short
  long = long
  put = put
  pair = pair
  pairLong = pairLong
  pairPut = pairPut
  huge = huge
  Clients = {a, b}
  Texts <- MCTexts
  Empty = none
  TooLong = {huge}
  Name <- MCName
  Value <- MCValue
  Left <- MCLeft
  Requests <- MCRequests
  None = None
  Backlog = 2
  MaxLinks = 3
INVARIANTS
  TypeOK
  JobsComeFromLink
  InOrder
PROPERTIES
  RequestReturns
CHECK_DEADLOCK FALSE
