SPECIFICATION FairSpec
CONSTANTS
  c1 = c1
  c2 = c2
  Conns = {c1, c2}
  Handlers = {"file"}
  Faults = {"reset", "put", "upload"}
  Sends = {"post", "data"}
  BlockMax = 0
  Budget = 4
  OutMax = 1
  RoomMax = 1
  DocMax = 1
  PostLen = 1
  WEBS_TIMEOUT = 1
  PARSE_TIMEOUT = 1
PROPERTIES
  NeverBlocks
  QuietClosed
CHECK_DEADLOCK FALSE
