SPECIFICATION Spec
CONSTANTS
  d1 = d1
  d2 = d2
  r1 = r1
  r2 = r2
  Day = {d1, d2}
  Volume = {1}
  Kinds = {"opening", "delivery", "sales", "adjustment"}
  Litres = {1}
  Tolerance = 100
  Req = {r1, r2}
  MaxRows = 2
  NoDip = NoDip
  NoDay = NoDay
CHECK_DEADLOCK FALSE
INVARIANT SealLandsOnPhysical
