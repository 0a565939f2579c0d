SPECIFICATION Spec
CONSTANTS
  Nozzle = {n1}
  t1 = t1
  Tank = {t1}
  TankOf <- MCTankOf
  Reading = {m1, m2}
  Value = {0, 1}
  Req = {r1, r2}
  NoNozzle = NoNozzle
  NoValue = NoValue
  NoLine = NoLine
SYMMETRY Symmetry
CHECK_DEADLOCK FALSE
INVARIANT PostedFromLines
