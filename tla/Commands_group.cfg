SPECIFICATION FairSpec
CONSTANTS
  Member = {c1, c2}
  Log <- MCLog
  Invalid = {"b"}
  MaxBatch = 2
  MaxRetries = 1
  Faults = {"handler", "insert", "undo", "dlt", "commit", "rebalance", "crash", "cancel", "prune"}
  MaxFaults = 3
INVARIANTS SucceedsAtMostOnce
PROPERTIES OffsetMovesForward CommittedGetsHandled
CHECK_DEADLOCK FALSE
