SPECIFICATION FairSpec
CONSTANTS
  Clients = {a, b}
  Kickers = {}
  Sweepers = {}
  Proposals = {p, q}
  SweepUntil = 0
  KickMaxAttempts = 2
  Redelivery = FALSE
  CausalDelivery = TRUE
  RequestLoss = FALSE
  ResponseLoss = FALSE
PROPERTIES
  ProposalResolved
  ImplementsFairLog
CHECK_DEADLOCK FALSE
