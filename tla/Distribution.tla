---------------------------- MODULE Distribution ----------------------------
(***************************************************************************)
(* Head-office operations on the stations: central price rollouts,         *)
(* procurement plans and stock transfers between tanks.                    *)
(*                                                                         *)
(* A transition of a rollout or a plan is one statement, or runs under the *)
(* lock of its row, and is one step.  The receipt of a transfer is a       *)
(* transaction of several statements: it locks the order, reads the        *)
(* products of the two tanks, takes the advisory locks of both tanks in    *)
(* the order of their keys, reads the stock of the source and posts.  The  *)
(* locks are held to the end of the transaction.                           *)
(***************************************************************************)
EXTENDS Integers, FiniteSets, Functions

CONSTANTS
  Forecourts,       \* stations, with their regions
  Zones,
  ZoneOf,
  Rollouts,         \* ids of central_price_rollouts
  Plans,            \* ids of central_procurement_plans
  Tanks,            \* tanks, numbered in the order of their lock keys
  Fuels,
  Transfers,        \* ids of stock_transfer_orders
  Quantities,
  OpeningStock,     \* litres in each tank to begin with
  Carriers,         \* concurrent transactions that receive
  NoOrder

ASSUME DistributionAssumption == Tanks \subseteq Nat /\ Quantities \subseteq Nat \ {0}

VARIABLES
  rollout,          \* central_price_rollouts
  priceChange,      \* price_changes written by rollouts: station and rollout
  plan,             \* central_procurement_plans with their lines
  tankFuel,         \* tanks.product_id
  stock,            \* the sum of stock_movements, by tank
  transfer,         \* stock_transfer_orders
  carrier,          \* each receiving transaction: where it is, and what it has read
  tankLock          \* the holder of each tank's advisory lock

rolloutTables == <<rollout, priceChange, plan>>
transferTables == <<tankFuel, stock, transfer, carrier, tankLock>>
distributionTables == <<rolloutTables, transferTables>>

Resting == [at |-> "none"]
FuelOfAll == CHOOSE f \in Fuels : TRUE

DistributionInit ==
  /\ rollout = [o \in Rollouts |-> NoOrder]
  /\ priceChange = {}
  /\ plan = [p \in Plans |-> NoOrder]
  /\ tankFuel = [t \in Tanks |-> FuelOfAll]
  /\ stock = [t \in Tanks |-> OpeningStock]
  /\ transfer = [x \in Transfers |-> NoOrder]
  /\ carrier = [r \in Carriers |-> Resting]
  /\ tankLock = [t \in Tanks |-> NoOrder]

----------------------------------------------------------------------------
\* Price rollouts.
CreatePriceRollout(o, scope) == rollout[o] = NoOrder /\ rollout' = [rollout EXCEPT ![o] = [scope |-> scope, status |-> "draft", applied |-> 0]]

handleCreatePriceRollout(o, scope) == CreatePriceRollout(o, scope) /\ UNCHANGED <<priceChange, plan, transferTables>>

ApprovePriceRollout(o) ==
  /\ rollout[o] # NoOrder /\ rollout[o].status \in {"draft", "pending_approval"}
  /\ rollout' = [rollout EXCEPT ![o].status = "approved"]
  /\ UNCHANGED priceChange

\* The stations of a scope; a rollout for a company or a group reaches none.
InScope(s, scope) ==
  \/ scope[1] = "tenant"
  \/ scope[1] = "region" /\ ZoneOf[s] = scope[2]
  \/ scope[1] = "station" /\ s = scope[2]

ActivatePriceRollout(o) ==
  /\ rollout[o] # NoOrder /\ rollout[o].status \in {"approved", "scheduled"}
  /\ LET hit == {s \in Forecourts : InScope(s, rollout[o].scope)} IN
     /\ priceChange' = priceChange \cup {<<s, o>> : s \in hit}
     /\ rollout' = [rollout EXCEPT ![o].status = "active", ![o].applied = Cardinality(hit)]

rolloutTransition(o) == (ApprovePriceRollout(o) \/ ActivatePriceRollout(o)) /\ UNCHANGED <<plan, transferTables>>

\* Procurement plans: the lines are released with the plan.
CreatePlan(p, n) == plan[p] = NoOrder /\ plan' = [plan EXCEPT ![p] = [status |-> "draft", lines |-> n, released |-> 0]]

handleCreateProcurementPlan(p, n) == CreatePlan(p, n) /\ UNCHANGED <<rollout, priceChange, transferTables>>

ReleasePlan(p) ==
  /\ plan[p] # NoOrder /\ plan[p].status \in {"draft", "reviewed", "approved"}
  /\ plan' = [plan EXCEPT ![p].status = "released", ![p].released = plan[p].lines]

handleReleaseProcurementPlan(p) == ReleasePlan(p) /\ UNCHANGED <<rollout, priceChange, transferTables>>

----------------------------------------------------------------------------
\* Transfers; chk_sto_distinct refuses one from a tank to itself.
CreateTransfer(x, from, to, f, n) ==
  /\ transfer[x] = NoOrder /\ from # to
  /\ transfer' = [transfer EXCEPT ![x] = [from |-> from, to |-> to, fuel |-> f, litres |-> n, status |-> "draft"]]

handleCreateTransfer(x, from, to, f, n) ==
  CreateTransfer(x, from, to, f, n) /\ UNCHANGED <<rolloutTables, tankFuel, stock, carrier, tankLock>>

ApproveTransfer(x) ==
  /\ transfer[x] # NoOrder /\ transfer[x].status = "draft"
  /\ transfer' = [transfer EXCEPT ![x].status = "approved"]
  /\ UNCHANGED <<stock, carrier, tankLock>>

RowLocked(x) == \E r \in Carriers : carrier[r] # Resting /\ carrier[r].order = x

lockedTransfer(r, x) ==
  /\ carrier[r] = Resting /\ transfer[x] # NoOrder /\ ~RowLocked(x)
  /\ transfer[x].status \in {"approved", "dispatched"}
  /\ {tankFuel[transfer[x].from], tankFuel[transfer[x].to]} = {transfer[x].fuel}
  /\ carrier' = [carrier EXCEPT ![r] = [at |-> "first", order |-> x, available |-> 0]]
  /\ UNCHANGED <<stock, transfer, tankLock>>

OrderOf(r) == transfer[carrier[r].order]

\* Mutant: the source is locked first, then the destination.
LockSequenceAsWritten(r) == <<OrderOf(r).from, OrderOf(r).to>>

\* The tanks of an order in the order of their lock keys.
LockSequence(r) == IF OrderOf(r).from < OrderOf(r).to THEN <<OrderOf(r).from, OrderOf(r).to>> ELSE <<OrderOf(r).to, OrderOf(r).from>>

\* pg_advisory_xact_lock is granted when nobody else holds it.
Granted(r, t) == tankLock[t] \in {NoOrder, r}

LockTank(r, i, from, to) ==
  /\ carrier[r].at = from
  /\ LET t == LockSequence(r)[i] IN Granted(r, t) /\ tankLock' = [tankLock EXCEPT ![t] = r]
  /\ carrier' = [carrier EXCEPT ![r].at = to]
  /\ UNCHANGED <<stock, transfer>>

ReadStock(r) ==
  /\ carrier[r].at = "locked"
  /\ carrier' = [carrier EXCEPT ![r].at = "read", ![r].available = stock[OrderOf(r).from]]
  /\ UNCHANGED <<stock, transfer, tankLock>>

EndTx(r) ==
  /\ carrier' = [carrier EXCEPT ![r] = Resting]
  /\ tankLock' = [t \in Tanks |-> IF tankLock[t] = r THEN NoOrder ELSE tankLock[t]]

\* Mutant: the transfer is posted whatever the source tank was read to hold.
PostTransferUnchecked(r) ==
  /\ carrier[r].at = "read"
  /\ stock' = [stock EXCEPT ![OrderOf(r).from] = @ - OrderOf(r).litres, ![OrderOf(r).to] = @ + OrderOf(r).litres]
  /\ transfer' = [transfer EXCEPT ![carrier[r].order].status = "received"]
  /\ EndTx(r)

\* The two movements and the order, together.
PostTransfer(r) ==
  /\ carrier[r].at = "read" /\ carrier[r].available >= OrderOf(r).litres
  /\ stock' = [stock EXCEPT ![OrderOf(r).from] = @ - OrderOf(r).litres, ![OrderOf(r).to] = @ + OrderOf(r).litres]
  /\ transfer' = [transfer EXCEPT ![carrier[r].order].status = "received"]
  /\ EndTx(r)

InsufficientStock(r) ==
  /\ carrier[r].at = "read" /\ carrier[r].available < OrderOf(r).litres
  /\ EndTx(r) /\ UNCHANGED <<stock, transfer>>

ReceiveTransfer(r) ==
  \/ \E x \in Transfers : lockedTransfer(r, x)
  \/ LockTank(r, 1, "first", "second") \/ LockTank(r, 2, "second", "locked")
  \/ ReadStock(r) \/ PostTransfer(r) \/ InsufficientStock(r)

transferTransition ==
  /\ (\E x \in Transfers : ApproveTransfer(x)) \/ (\E r \in Carriers : ReceiveTransfer(r))
  /\ UNCHANGED <<rolloutTables, tankFuel>>

\* A tank without nozzles is given another product (handleUpdateTank).
ChangeFuel(t, f) == tankFuel' = [tankFuel EXCEPT ![t] = f] /\ UNCHANGED <<rolloutTables, stock, transfer, carrier, tankLock>>

----------------------------------------------------------------------------
RolloutScopes == {<<"tenant", NoOrder>>, <<"company", NoOrder>>} \cup ({"region"} \X Zones) \cup ({"station"} \X Forecourts)

RolloutNext ==
  \/ \E o \in Rollouts, s \in RolloutScopes : handleCreatePriceRollout(o, s)
  \/ \E o \in Rollouts : rolloutTransition(o)
  \/ \E p \in Plans, n \in 1..2 : handleCreateProcurementPlan(p, n)
  \/ \E p \in Plans : handleReleaseProcurementPlan(p)

TransferNext ==
  \/ \E x \in Transfers, from, to \in Tanks, f \in Fuels, n \in Quantities : handleCreateTransfer(x, from, to, f, n)
  \/ transferTransition
  \/ \E t \in Tanks, f \in Fuels : ChangeFuel(t, f)

DistributionNext == RolloutNext \/ TransferNext

----------------------------------------------------------------------------
\* Transfers never take more out of a tank than it holds, and never add or lose a
\* litre between the tanks, whatever transfers are received at the same time
\* (ReceiveTransfer: "Guards against overdrawing the source tank").
TransfersConserve ==
  /\ \A t \in Tanks : stock[t] >= 0
  /\ FoldFunction(LAMBDA a, b : a + b, 0, stock) = OpeningStock * Cardinality(Tanks)

Waits(r) ==
  CASE carrier[r].at = "first" -> {tankLock[LockSequence(r)[1]]} \ {NoOrder, r}
    [] carrier[r].at = "second" -> {tankLock[LockSequence(r)[2]]} \ {NoOrder, r}
    [] OTHER -> {}

\* Two receipts never wait for each other: opposing transfers take the locks of the
\* tanks in the same order (ReceiveTransfer: "two opposing transfers can't deadlock").
NoTransferDeadlock == \A r, s \in Carriers : ~(s \in Waits(r) /\ r \in Waits(s))
=============================================================================
