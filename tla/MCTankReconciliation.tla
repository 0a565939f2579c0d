----------------------- MODULE MCTankReconciliation -----------------------
EXTENDS TankReconciliation, TLC

CONSTANTS r1, r2, d1, d2

Symmetry == Permutations({r1, r2}) \cup Permutations({d1, d2})
===========================================================================
