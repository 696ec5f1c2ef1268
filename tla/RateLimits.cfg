SPECIFICATION Spec
CONSTANTS
  Call = {c1, c2, c3}
  Rate = 2
  Cost = 7
  Second = 2
  Burst = 9
  Skew = {0, 1}
  MaxDelay = 2
  MaxPasses = 3
  MaxFaults = 1
INVARIANT BudgetShared
PROPERTY RetryAfterHolds
SYMMETRY Symmetry
CHECK_DEADLOCK FALSE
