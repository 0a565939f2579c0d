--------------------------- MODULE MCOperatingDay ---------------------------
(* Small instances of OperatingDay. *)
EXTENDS OperatingDay, TLC

Symmetry == Permutations(Shift) \cup Permutations(Req) \cup Permutations(Day)

=============================================================================
