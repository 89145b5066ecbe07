SPECIFICATION Spec
SYMMETRY Symmetry
CONSTANTS
  Hosts = {h1, h2}
  MaxRequests = 2
  MaxRare = 1
  Prompt = TRUE
INVARIANTS TypeOK OneLeaf AdmittedGetsIn NoLostWakeup
PROPERTIES PendingKept StaleRejectIgnored
CHECK_DEADLOCK FALSE
