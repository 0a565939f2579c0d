------------------------------ MODULE MCOutbox ------------------------------
(* The events of the run of Outbox. *)
EXTENDS Outbox

ThreeEvents == 1..3
=============================================================================
