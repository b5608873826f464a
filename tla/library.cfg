SPECIFICATION LibrarySpec
CONSTANTS
  AppThread = {a, b}
  Thread1 = a
  Thread2 = b
  Requests <- MCRequests
  CallLimit = 2
  RegistrarRequestMaxTrials = 1
  FaultLimit = 1
  Peer = {1, 2}
  StaticPeer = {1}
  ReachablePeer = {1}
  MaxSimultaneousRequests = 2
  RegistrarConnectMaxTrials = 1
  MaxInterrupts = 1
  MaxOutstanding = 1
  FD = {3}
  Timer = {t1, t2}
  MaxCallback = 2
  MaxForeign = 2
  ReregistrationTimer = t1
  MaxRegister = 3
  Entries = 3
  SlotSize = 2
  PE = {1, 2}
  Assoc = {1, 2, 3}
  MaxNetwork <- MCMaxNetwork
  MaxCookie = 1
  MaxIncoming = 3
  Policy = {"RoundRobin", "WeightedRoundRobin", "LeastUsedDegradation", "WeightedRandom", "WeightedRandomDPF"}
  Element = {1, 2}
  SeqModulus = 8
  SeqNumberStart = 3
  MaxLoad = 3
  Weights = {0, 2}
  Loads = {0, 2}
  Degradations = {1}
  Distances = {0, 1}
  MaxItems = 2
  MaxIncrements = {0, 2}
  MaxChanges = 3
  Identity <- MCIdentity
  OwnID = 1
  PeerID = {2, 3}
  PeerAddress = {1}
  Connection = {0, 1}
  ChecksumRange = 4
  Time = {1}
  MaxElements = 2
  Key = {1, 2, 3, 4, 5}
  NodeValues = {0, 2}
  BufferSize = 256
  TableBufferSize = 136
  LengthModulus = 256
  MaxElementsPerHTRequest = 3
  MaxAddresses = 3
  MaxOffers = 2
  Session = {1, 2}
  SessionLoads = {1, 2}
  FullLoad = 199
  MaxLoadChanges = 1
  PoolUser = {1}
  HashValue = {0, 2}
  Buckets = 2
  MaxEntries = 2
  MaxRate = 1
  RateTime = 1
  MaxTime = 4
  MaxRequests = 3
CHECK_DEADLOCK FALSE
INVARIANTS
  OwnResponse
  ResponseSupervised
  AssociationsKept
  EventOfPolledCallback
  ReregistrationKept
  SessionIdentifiers
  NotificationsTellAll
  CookieFirst
  FailureMarked
  SelectionSorted
  TurnsTaken
  ResolutionComplete
  HandlespaceVerify
  PeerListVerify
  RedBlackTreeVerify
  SearchesExact
  MessagesArrive
  LoadAccounted
  LoadChangesTold
  RateEnforced
PROPERTIES
  CallsReturn
  ReachableRegistrarFound
  DueTimerHandled
  SessionResumes
  FinishedSessionRemoved
  ServerStops
