SPECIFICATION Spec
CONSTANTS
  c1 = c1
  Conns = {c1}
  Handlers = {"cgi"}
  Faults = {}
  Sends = {"get"}
  BlockMax = 1
  Budget = 2
  OutMax = 2
  RoomMax = 1
  DocMax = 0
  PostLen = 1
  WEBS_TIMEOUT = 2
  PARSE_TIMEOUT = 1
INVARIANTS
  JobHasConnection
CHECK_DEADLOCK FALSE
