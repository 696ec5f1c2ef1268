CONSTANTS
  Replica = {r1, r2}
  Call = {c1, c2}
  Deployment <- MCDeployment
  CacheTTL = 1
  TokenTTL = 1
  MaxDelay = 1
  MaxTroubles = 1
SPECIFICATION ConsoleSpec
SYMMETRY Symmetry
CHECK_DEADLOCK FALSE
INVARIANTS AdminOrPending
PROPERTIES AccessBounded
