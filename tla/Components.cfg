SPECIFICATION ComponentsSpec
CONSTANTS
  Identifiers = {"a", "b", "f"}
  Functions = {"main", "f", "g"}
  MAX_SCOPE_DEPTH = 5
  Menus <- AllMenus
  MaxFunctions = 2
  ReturnError <- check_return_types
  SymNames = {"a", "b", "c", "under", "ifj"}
  SymHash <- SymHashes
  SymBuiltin = {"ifj"}
  SymUnderscore = "under"
  SymNull = "NULL"
  SymAllUsed = "all used"
  SymInitialSize = 2
  SymMaxSize = 8
  Blocks = {b1, b2, b3, b4}
  Foreign = literal
  FirstCapacity = 1
  MaxCapacity = 4
  QueueData = {x, y, star}
  Star = star
  MAX_QUEUE = 4
  QUEUE_SIZE = 3
  DLLCells = {c1, c2, c3}
  DLLData = {x, y}
  DLLNull = null
  DLLFailed = failed
  ListCells = {c1, c2, c3}
  ListData = {x, y}
  ListNull = null
  ListFailed = failed
  HtItems = {c1, c2, c3}
  HtKeys = {"a", "b", "c", "d"}
  HtValues = {x, y}
  HtHash <- HtHashes
  HT_SIZE = 2
  HtNull = null
  BstNodes = {c1, c2, c3, c4, c5}
  BstKeys = {1, 2, 3, 4}
  BstValues = {x, y}
  BstNull = null
  BstCrash = crash
  CluFiles <- Files
  CluArguments <- ClusterCounts
  TcpKinds = {"reply_ok", "reply_nok", "msg", "err", "bye"}
  MaxTcpMessages = 2
  MaxTcpCommands = 2
  Procs = {bus, l1, l2}
  MaxLines = 4
INVARIANTS
  IInv
  Numbered
  OrdinaryNamesInScope
  ChainsRight
  EveryBlockOnRecord
  TcpFollowsServer
PROPERTIES
  ImplementsScopes
  ScopesAreLexical
  FunctionsReturn
  ImplementsDictionary
  QueueIsFifo
  DLLIsCursorList
  SListIsCursorList
  HashTableIsDictionary
  TreeIsDictionary
  IterativeAgreesWithRecursive
  ClusteringIsSingleLinkage
CHECK_DEADLOCK FALSE
