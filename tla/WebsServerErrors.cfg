SPECIFICATION Spec
CONSTANTS
  c1 = c1
  Conns = {c1}
  Handlers = {"error", "action", "file"}
  Faults = {"shut", "reset", "accept", "put", "upload"}
  Sends = {"frag", "get", "close", "post", "data", "bad", "huge"}
  BlockMax = 1
  Budget = 5
  OutMax = 2
  RoomMax = 12
  DocMax = 1
  PostLen = 2
  WEBS_TIMEOUT = 2
  PARSE_TIMEOUT = 1
INVARIANTS
  ClosedIsFreed
  NothingParked
CHECK_DEADLOCK FALSE
