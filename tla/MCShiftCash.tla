---------------------------- MODULE MCShiftCash ----------------------------
(* ShiftCash with interchangeable requests, for TLC. *)
EXTENDS ShiftCash, TLC

Symmetry == Permutations(Req)

=============================================================================
