SPECIFICATION StationsSpec
CONSTANTS
  Babies = {b1}
  MaxSessions = 1
  MaxDrops = 1
  MaxConnections = 1
INVARIANTS
  ListIsConnectable
CHECK_DEADLOCK FALSE
