SPECIFICATION FairSpec
CONSTANTS
  Client = {c1, c2}
  MaxUpdates = 3
  MaxWriteFailures = 1
INVARIANTS NotifiedOnce
PROPERTIES EveryoneNotified NotifiersEnd
CHECK_DEADLOCK FALSE
