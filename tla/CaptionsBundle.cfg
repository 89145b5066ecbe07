SPECIFICATION RetrySpec
CONSTANTS
  Hosts = {h1}
  Admins = {h1}
  MaxEpoch = 3
  MaxAgents = 1
  MaxToggles = 1
  MaxErrors = 1
  MaxTeardown = 2
  Delays = FALSE
PROPERTIES
  BundleRetried
CHECK_DEADLOCK FALSE
