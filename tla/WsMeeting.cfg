SPECIFICATION FairSpec
CONSTANTS
  MaxRetry = 2
  MaxPingFailures = 2
  ConnectAttempts = 2
  Connections = 6
  Joins = 1
  Troubles = 3
  Triggers = 0
  Leaves = FALSE
INVARIANTS
  TypeOK
  NotDeaf
  ReconnectingIsActive
PROPERTIES
  Settles
CHECK_DEADLOCK FALSE
