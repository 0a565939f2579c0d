SPECIFICATION Spec
CONSTANTS
  d1 = d1
  d2 = d2
  r1 = r1
  r2 = r2
  Day = {d1, d2}
  Volume = {1}
  Kinds = {"opening", "delivery", "sales", "adjustment", "transfer"}
  Litres = {1}
  Tolerance = 100
  Req = {r1, r2}
  MaxRows = 2
  NoDip = NoDip
  NoDay = NoDay
SYMMETRY Symmetry
INVARIANT WriteOffsBelongToSeals
CHECK_DEADLOCK FALSE
