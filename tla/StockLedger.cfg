SPECIFICATION Spec
CONSTANTS
  Tank = {1, 2}
  s1 = s1
  s2 = s2
  Shift = {s1, s2}
  Sold <- MCSold
  Adj = {a1}
  Osr = {o1}
  Litres = {1}
  Req = {r1, r2}
  MaxRows = 2
  NoRef = NoRef
SYMMETRY Symmetry
INVARIANTS BalancesRun NoDeadlock
CHECK_DEADLOCK FALSE
