SPECIFICATION Spec
CONSTANTS
  Day = {d1, d2}
  Date = {t1}
  Shift = {s1, s2}
  Req = {r1, r2}
  NoDay = NoDay
  NoDate = NoDate
SYMMETRY Symmetry
INVARIANT ClosedDayHasNoOpenShift
PROPERTY ImplementsDayBook
