SPECIFICATION Spec
CONSTANTS
  Clients = {c1}
  None = None
  Connections <- MCConnections
  Sessions <- MCConnections
  Requests <- MCRequests
  WillBeforeReconnect = TRUE
  MaxConnections = 1
  MaxRequests = 2
  MaxRetries = 0
  MaxRestarts = 0
  MaxRedeliveries = 0
  MaxLosses = 0
INVARIANTS
  DisconnectedIsNotListed
CHECK_DEADLOCK FALSE
