SPECIFICATION FairSpec
CONSTANTS
  Clients = {c1}
  None = None
  Connections <- MCConnections
  Sessions <- MCConnections
  Requests <- MCRequests
  WillBeforeReconnect = FALSE
  MaxConnections = 2
  MaxRequests = 3
  FewRequests = 2
  MaxRetries = 1
  MaxRestarts = 1
  MaxRedeliveries = 1
  MaxLosses = 1
CONSTRAINT InBounds
INVARIANTS
  TypeOK
PROPERTIES
  GoneStationLeavesList
  OnlineStationIsListed
CHECK_DEADLOCK FALSE
