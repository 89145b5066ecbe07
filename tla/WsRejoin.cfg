SPECIFICATION FairSpec
CONSTANTS
  MaxRetry = 1
  MaxPingFailures = 1
  ConnectAttempts = 1
  Connections = 3
  Joins = 2
  Troubles = 0
  Triggers = 1
  Leaves = TRUE
INVARIANTS
  OwnHalves
PROPERTIES
  OldListenersEnd
CHECK_DEADLOCK FALSE
