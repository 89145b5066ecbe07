SPECIFICATION Spec
SYMMETRY Interchangeable
CONSTANTS
  Clients = {a, b}
  Kickers = {}
  Sweepers = {}
  Proposals = {p, q}
  SweepUntil = 0
  KickMaxAttempts = 2
  Redelivery = TRUE
  CausalDelivery = TRUE
  RequestLoss = FALSE
  ResponseLoss = FALSE
INVARIANTS
  NoProposalLost
  CommitDecrypts
CHECK_DEADLOCK FALSE
