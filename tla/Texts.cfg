SPECIFICATION TextsSpec
CONSTANTS
  StorageSize = 200
INVARIANTS
  TextsAgree
  JsonRoundTrip
  ArgumentsAssigned
  ScriptsParsed
  CodedAgree
  ReportsAgree
CHECK_DEADLOCK FALSE
