SPECIFICATION Spec
CONSTANTS
  Tank = {1, 2}
  s1 = s1
  s2 = s2
  Shift = {s1}
  Sold <- MCSold
  Adj = {}
  Osr = {}
  Litres = {1}
  Req = {r1}
  MaxRows = 2
  NoRef = NoRef
SYMMETRY Symmetry
CHECK_DEADLOCK FALSE
INVARIANTS SkippedSalesCanBePosted
