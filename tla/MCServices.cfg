SPECIFICATION Spec
CONSTANTS
  b1 = b1
  b2 = b2
  MaxRequests = 3
  MaxCanvases = 2
  MaxStreams = 3
  MaxInitiated = 2
  MaxRecreated = 1
  MaxCandidates = 1
  MaxSessions = 2
  MaxConnections = 2
  MaxJoined = 2
  MaxRecorders = 2
  MaxChunks = 2
  e1 = e1
  t1 = t1
  t2 = t2
  None = None
  MaxEvents = 4
  MaxTokens = 1
  MaxParallel = 2
  MaxRestarts = 1
  MaxIssued = 3
  MaxLosses = 1
  MaxKept = 1
  MaxLogged = 4
  MaxStarts = 3
  MaxStatuses = 2
  MaxReboots = 1
  MaxTime = 5
  MaxSockets = 2
  MaxServed = 2
  MaxFailures = 1
  MaxAppended = 3
  MaxElsewhere = 1
  MaxSubscriptions = 3
  MaxPut = 3
  MaxGranted = 3
INVARIANTS
  TypeOK
  ResourcesAreKnown
  ViewIsInFrame
  DeliveryIsComplete
  PeersAgree
  ListIsTrue
  FailedIsRetried
  ChunksAreDownloaded
  StoreIsReplay
  FailsForReason
  SessionListIsTrue
  StartIsAnnounced
  UsageIsTrue
  AccessIsTrue
  SocketsAreServed
PROPERTIES
  Connects
  Follows
  Settles
  SignedOutForReason
CHECK_DEADLOCK FALSE
