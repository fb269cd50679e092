SPECIFICATION Spec
CONSTANTS
  c1 = c1
  Conns = {c1}
  Handlers = {"action", "file", "cgi"}
  Faults = {"reset", "accept"}
  Sends = {"frag", "get", "close", "post", "data"}
  BlockMax = 2
  Budget = 5
  OutMax = 2
  RoomMax = 1
  DocMax = 2
  PostLen = 2
  WEBS_TIMEOUT = 2
  PARSE_TIMEOUT = 1
INVARIANTS
  TypeOK
  TimerMatches
  HeaderBoundary
  NoLateBytes
  NothingParked
PROPERTIES
  ReuseDelivers
CHECK_DEADLOCK FALSE
