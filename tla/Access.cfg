SPECIFICATION FairSpec
CONSTANTS
  Clients = {c1}
  Requests <- MCRequests
  Routes <- MCRoutes
  Users <- MCUsers
  Roles <- MCRoles
  DepthMax = 4
  RouteMax = 2
  SessionMax = 1
  Life = 2
  PruneTime = 1
  Fails = TRUE
INVARIANTS
  CountAccounts
  ServedRight
  RefusedRight
  SessionsBounded
PROPERTIES
  Answered
  Abandoned
CHECK_DEADLOCK FALSE
