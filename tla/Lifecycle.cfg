SPECIFICATION Spec
CONSTANTS
  MayCancel = TRUE
  MaxFaults = 1
  Request = {r1}
  Input <- MCInput
  MaxInt32 = 9
INVARIANTS
  CredentialsInEffect
  UsersGoneBeforeClose
PROPERTY
  ShutdownEnds
CHECK_DEADLOCK FALSE
