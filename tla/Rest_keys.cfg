SPECIFICATION ApiSpec
CONSTANTS
  Request = {q1, q2, q3}
  Key = {k1, k2}
  NoKey = none
  Body <- MCBody
  TooBig <- MCTooBig
  Call <- MCCall
  Sku = {1, 2, 3}
  Existing = {2, 3}
  RequestId = {"i1", "i2"}
  MaxPageLimit = 1
  MaxFaults = 1
  MaxErrors = 1
SYMMETRY Symmetry
INVARIANTS ReplayIsFaithful OneAnswerPerKey SuccessIsRecorded ListingComplete
CHECK_DEADLOCK FALSE
