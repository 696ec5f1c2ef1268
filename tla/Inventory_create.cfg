SPECIFICATION FairSpec
CONSTANTS
  Proc = {p1, p2, p3}
  Sku = {s1, s2}
  ReqId = {r1, r2}
  Qty = {2}
  Time = {1}
  MaxInt = 3
  FillLimit = 1
  Creators = {p1}
  InitialProducts = {s1}
  MaxCalls = 3
  MaxFaults = 0
INVARIANTS StockConserved NoStrandedStock
PROPERTY CallsReturn
