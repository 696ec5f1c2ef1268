SPECIFICATION FairSpec
CONSTANTS
  Msg = {m1, m2}
  MayCancel = TRUE
  MaxFaults = 3
INVARIANTS AtMostOnce ConfirmedInOrder
PROPERTIES SendsComplete FactoryExits
CHECK_DEADLOCK FALSE
