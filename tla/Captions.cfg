SPECIFICATION FairSpec
CONSTANTS
  Hosts = {h1, h2}
  Admins = {h1}
  MaxEpoch = 3
  MaxAgents = 1
  MaxToggles = 2
  MaxErrors = 1
  MaxTeardown = 2
  Delays = FALSE
INVARIANTS
  TypeOK
PROPERTIES
  OneLeaf
  Dismissed
CHECK_DEADLOCK FALSE
