SPECIFICATION Spec
CONSTANTS
  Clients = {a, b}
  Kickers = {a}
  Sweepers = {b}
  Proposals = {p}
  SweepUntil = 1
  KickMaxAttempts = 2
  Redelivery = FALSE
  CausalDelivery = FALSE
  RequestLoss = TRUE
  ResponseLoss = TRUE
INVARIANTS
  TypeOK
  HistoryPrefix
  CommitStillCurrent
  IInv
  SerializedDrain
PROPERTIES
  ImplementsLog
CHECK_DEADLOCK FALSE
