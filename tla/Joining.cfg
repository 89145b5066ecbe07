SPECIFICATION FairSpec
CONSTANTS
  Clients = {c1, c2}
  Proposers = {c2}
  Threshold = 1
  MaxRetries = 0
  CheckTries = 1
  Checked = {c2}
  MaxEpoch = 3
  MaxJoins = 3
  MaxFaults = 1
INVARIANTS
  TypeOK
  JoinedOnLog
  WelcomeWakes
PROPERTIES
  VerdictSound
  LaggardFound
  JoinEnds
CHECK_DEADLOCK FALSE
