SPECIFICATION Spec
CONSTANTS
  Proc = {p1, p2}
  Sku = {s1}
  ReqId = {r1, r2}
  Qty = {1}
  Time = {1}
  MaxInt = 3
  FillLimit = 3
  Creators = {p1, p2}
  InitialProducts = {}
  MaxCalls = 3
  MaxFaults = 0
PROPERTY ExistingProductUntouched
