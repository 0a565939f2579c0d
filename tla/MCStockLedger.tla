--------------------------- MODULE MCStockLedger ---------------------------
(* Model values and bounds for StockLedger. *)
EXTENDS StockLedger, TLC

CONSTANTS s1, s2

MCSold == [s \in Shift |-> Tank]
Symmetry == Permutations(Req) \cup Permutations(Shift)
=============================================================================
