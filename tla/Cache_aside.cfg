SPECIFICATION ReadSpec
CONSTANTS
  Reader = {r1}
  Producer = {w1}
  Filler = {f1}
  TTL = 0
  MaxStock = 2
  MaxFaults = 2
  Timeout = 4
  PerAttemptTimeout = 2
  MaxAttempts = 3
  BackoffBase = 2
INVARIANTS CacheHoldsCommitted
PROPERTIES StaleHeals ReadAnswered
