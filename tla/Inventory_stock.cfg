SPECIFICATION Spec
CONSTANTS
  Proc = {p1, p2, p3}
  Sku = {s1}
  ReqId = {r1, r2}
  Qty = {0, 1, 2}
  Time = {1, 2}
  MaxInt = 3
  FillLimit = 3
  Creators = {}
  InitialProducts = {s1}
  MaxCalls = 3
  MaxFaults = 1
SYMMETRY Symmetry
INVARIANTS TypeOK LocksProtectReads NoLostUpdate ReservationsSound FillOrder CommittedFillsPublished
PROPERTIES RowsMoveForward ImplementsLedger
