-------------------------- MODULE MCShiftReadings --------------------------
(* ShiftReadings with one tank behind all nozzles, for TLC. *)
EXTENDS ShiftReadings, TLC

CONSTANT t1

MCTankOf == [n \in Nozzle |-> t1]
Symmetry == Permutations(Reading) \cup Permutations(Req)

=============================================================================
