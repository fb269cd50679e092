SPECIFICATION Spec
CONSTANTS
  Functions <- MCFunctions
  LoopMax = 8
  Programs <- MCPrograms
  Pages <- MCPages
  Texts <- MCTexts
  BufferInit = 4
  GrowInit = 3
  Items <- MCItems
  Sizes = {0, 1, 5, 9}
  Htmls <- MCHtmls
  Days <- MCDays
  Moments <- MCMoments
  Urls <- MCUrls
  Paths <- MCPaths
  Pairs <- MCPairs
  StringCopies <- MCStringCopies
  Splits <- MCSplits
  Numbers <- MCNumbers
  CommandLines <- MCCommandLines
  Requests <- MCRequests
  FormPairs <- MCFormPairs
  Redirects <- MCRedirects
  Cookies <- MCCookies
  Blocks <- MCBlocks
  EndpointLists <- MCEndpointLists
  CgiRequests <- MCCgiRequests
  WEBS_MAX_LISTEN = 2
  IpAddr <- MCIpAddr
  ArgpSize = 2
  LimitUri = 30
  LimitHeaders = 4
  LimitPost = 20
  LimitPut = 30
  Realm <- MCRealm
  Accounts <- MCAccounts
  Nonces <- MCNonces
  Answers <- MCAnswers
  WEBS_SHIFT = 0
  LIMIT_BUFFER = 3
  MemoryMax = 7
  Labels = 8
  InitSizes = {0, 1, 2, 8}
  MaxSizes <- MCMaxSizes
  Rooms = {0, 1, 2}
  Lengths = {0, 1, 2, 3}
  H_INCR = 2
  Null = Null
  WEBS_SMALL_HASH = 2
  HashNames <- MCHashNames
  HashValues <- MCHashValues
  HashSizes <- MCHashSizes
  TablesMax = 2
  ROUTE_INCR = 2
  DepthMax = 5
  BuiltIn = {"file", "action"}
  Files <- MCFiles
  MoreFiles <- MCMoreFiles
  Uris = {"/a", "/"}
  UserNames = {"joshua", "julie"}
  RoleNames = {"admin", "user"}
  RoleLists <- MCRoleLists
  AbilityLists <- MCAbilityLists
  CallMax = 3
VIEW LibraryView
PROPERTIES
  ScriptsRight
  TextsRight
  RequestsRight
  DatesRight
  RingSequence
  TablesSound
CHECK_DEADLOCK FALSE
