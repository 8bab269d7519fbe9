SPECIFICATION Spec
CONSTANTS
  Filters = {f1, f2}
  Messages = {m1}
  MaxRefs = 1
  MaxClients = 1
  MaxRequests = 1
  MaxOutstanding = 3
  MaxMessages = 0
PROPERTY ConnectedStatusWaitsForSubscribe
CHECK_DEADLOCK FALSE
