SPECIFICATION FairSpec
CONSTANTS
  Clients = {a, b, c}
  Kickers = {}
  Sweepers = {}
  Proposals = {p}
  SweepUntil = 0
  KickMaxAttempts = 2
  Redelivery = FALSE
  CausalDelivery = FALSE
  RequestLoss = FALSE
  ResponseLoss = FALSE
INVARIANTS
  NoCommitLost
PROPERTIES
  ImplementsFairLog
  CachedCommitProcessed
CHECK_DEADLOCK FALSE
