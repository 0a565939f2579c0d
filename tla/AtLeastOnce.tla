---------------------------- MODULE AtLeastOnce ----------------------------
(***************************************************************************)
(* What the outbox promises the producers and handlers of events ("the     *)
(* outbox is the durable record; the bus is best-effort"; "delivery is     *)
(* therefore at-least-once"): an event is delivered only once it has been  *)
(* recorded, is settled only after every handler has accepted it, and      *)
(* stays settled.  That a delivery may be repeated is part of the promise, *)
(* also after the event is settled.                                        *)
(***************************************************************************)
CONSTANT Event

VARIABLES
  recorded,    \* events written by committed transactions
  delivered,   \* events all handlers have accepted at least once
  settled      \* events that no publisher will claim again

abstractVars == <<recorded, delivered, settled>>

AbstractInit == recorded = {} /\ delivered = {} /\ settled = {}

Record(e) ==
  /\ e \notin recorded
  /\ recorded' = recorded \cup {e}
  /\ UNCHANGED <<delivered, settled>>

Deliver(e) ==
  /\ e \in recorded \ settled
  /\ delivered' = delivered \cup {e}
  /\ UNCHANGED <<recorded, settled>>

Settle(S) ==
  /\ S \subseteq delivered
  /\ settled' = settled \cup S
  /\ UNCHANGED <<recorded, delivered>>

AbstractNext ==
  \/ \E e \in Event : Record(e) \/ Deliver(e)
  \/ \E S \in SUBSET Event : Settle(S)

AbstractSpec == AbstractInit /\ [][AbstractNext]_abstractVars
=============================================================================
