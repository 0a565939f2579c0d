SPECIFICATION Spec
CONSTANTS
  Amount = {0, 1, 2}
  Threshold = 1
  Req = {r1, r2, r3}
  NoCash = NoCash
  NoReceipt = NoReceipt
SYMMETRY Symmetry
INVARIANT ApprovedVarianceResolved
CHECK_DEADLOCK FALSE
