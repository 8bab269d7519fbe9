SPECIFICATION Spec
CONSTANTS
  Clients = {c1}
  None = None
  Connections <- MCConnections
  Sessions <- MCConnections
  Requests <- MCRequests
  WillBeforeReconnect = FALSE
  MaxConnections = 2
  MaxRequests = 3
  MaxRetries = 1
  MaxRestarts = 0
  MaxRedeliveries = 1
  MaxLosses = 0
INVARIANTS
  OneStationPerClient
  ArmedOnlyInSilence
  RegistryMapsAgree
  ListedIsRegistered
CHECK_DEADLOCK FALSE
