SPECIFICATION FairSpec
CONSTANTS
  Boundary <- MCBoundary
  Fields = {"name"}
  FileFields = {"file"}
  FileMax = 5
  Requests <- MCRequests
  ReadMax = 99
  InputMax = 5
  LineMax = 8
  HexOf <- MCHexOf
  PutMax = 9
  Fails = TRUE
INVARIANTS
  FilterExact
  HandlerHasBody
  WholeFormExact
  PartsBounded
  FilesSettled
PROPERTIES
  BodyEnds
CHECK_DEADLOCK FALSE
