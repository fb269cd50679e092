SPECIFICATION FairSpec
CONSTANTS
  Null = Null
  Objects = {o1, o2}
  Pruner = Pruner
  H_INCR = 2
  PARSE_TIMEOUT = 1
  WEBS_TIMEOUT = 2
  WEBS_SESSION_PRUNE = 2
  MAXINT = 9
  TimeMax = 4
INVARIANTS
  TypeOK
  ListsSound
  HandlesMatch
  SleepsNoLonger
PROPERTIES
  ScanReturns
  Alarms
CHECK_DEADLOCK FALSE
