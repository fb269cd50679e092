SPECIFICATION Spec
CONSTANTS
  Boundary <- MCBoundary
  Fields = {"name"}
  FileFields = {"file"}
  FileMax = 5
  Requests <- MCRequests
  ReadMax = 99
  InputMax = 5
  LineMax = 8
  HexOf <- MCHexOf
  PutMax = 9
  Fails = FALSE
INVARIANTS
  NamesKnown
CHECK_DEADLOCK FALSE
