SPECIFICATION FairSpec
CONSTANTS
  c1 = c1
  Conns = {c1}
  Handlers = {"error"}
  Faults = {}
  Sends = {"get"}
  BlockMax = 0
  Budget = 3
  OutMax = 2
  RoomMax = 1
  DocMax = 0
  PostLen = 1
  WEBS_TIMEOUT = 2
  PARSE_TIMEOUT = 1
PROPERTIES
  NeverBlocks
CHECK_DEADLOCK FALSE
