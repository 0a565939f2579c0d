---------------------------- MODULE StockLedger ----------------------------
(***************************************************************************)
(* The stock ledger of a station's tanks (stock_movements) and everything  *)
(* that posts to it: the opening balance, set directly or by approving an  *)
(* opening-stock request; deliveries; adjustments with their lifecycle;    *)
(* and the sales that approving a shift draws down.  What reconciliation   *)
(* posts is in TankReconciliation.                                         *)
(*                                                                         *)
(* Every post is PostMovement: a transaction-scoped advisory lock on the   *)
(* tank, the checks, one INSERT whose balance_after is the tank's sum plus *)
(* the movement.  A request keeps its rows to itself until its commit, and *)
(* the tanks it posted to locked.  ReverseMovement is left out: nothing in *)
(* the program calls it, so every row keeps the status 'posted'.           *)
(***************************************************************************)
EXTENDS Integers, Sequences, Functions

CONSTANTS
  Tank,       \* tanks; sales are posted in the order of their ids
  Shift,      \* shifts that may be approved
  Sold,       \* the tanks each shift's close lines sold from
  Adj,        \* ids of stock_adjustments
  Osr,        \* ids of opening_stock_requests
  Litres,     \* quantities
  Req,        \* concurrent requests
  MaxRows,    \* bound on the rows of a tank
  NoRef       \* a movement that belongs to none of these

ASSUME LedgerAssumption ==
  /\ Tank \subseteq Nat
  /\ Sold \in [Shift -> SUBSET Tank]
  /\ Litres \subseteq Nat \ {0}
  /\ MaxRows \in Nat
  /\ NoRef \notin Shift \cup Adj \cup Osr
  /\ Shift \cap Adj = {} /\ Shift \cap Osr = {} /\ Adj \cap Osr = {}

VARIABLES
  ledger,     \* the committed rows of each tank, in seq order
  approved,   \* shifts whose approval has committed
  adj,        \* stock_adjustments
  osr,        \* opening_stock_requests
  req,        \* each request: where it is and what it posts
  pending     \* the rows each request has inserted and not committed

vars == <<ledger, approved, adj, osr, req, pending>>

Ref == Shift \cup Adj \cup Osr \cup {NoRef}
Row == [type : {"opening", "delivery", "sales", "adjustment"}, ref : Ref, litres : Int, balance : Int]

NoRows == [t \in Tank |-> <<>>]

Idle == [at |-> "idle"]

(* check: about to look for the opening of the next tank (sales only);     *)
(* post: about to call PostMovement for it, or to commit.                  *)
Request == {Idle} \cup
  [at : {"check", "post"}, type : {"opening", "delivery", "sales", "adjustment"}, ref : Ref,
   litres : Int, todo : SUBSET Tank]

Start(r, type, ref, litres, todo, at) ==
  /\ req[r] = Idle
  /\ req' = [req EXCEPT ![r] = [at |-> at, type |-> type, ref |-> ref, litres |-> litres,
                                todo |-> todo]]
  /\ UNCHANGED <<ledger, approved, adj, osr, pending>>

Continue(r, at, todo) ==
  req' = [req EXCEPT ![r] = [at |-> at, type |-> @.type, ref |-> @.ref, litres |-> @.litres,
                             todo |-> todo]]

Holds(r, t)   == pending[r][t] # <<>>
InFlight(ref) == \E r \in Req : req[r] # Idle /\ req[r].ref = ref

RequiresOpening(type) == type \in {"delivery", "sales"}
HasOpening(t)         == \E i \in DOMAIN ledger[t] : ledger[t][i].type = "opening"
SumLitres(rows)       == FoldFunction(LAMBDA row, sum : sum + row.litres, 0, rows)

SalePosted(s, t) ==
  \E i \in DOMAIN ledger[t] : ledger[t][i].type = "sales" /\ ledger[t][i].ref = s
SalesPostedForShift(s) == \E t \in Tank : SalePosted(s, t)

Init ==
  /\ ledger = [t \in Tank |-> <<>>]
  /\ approved = {}
  /\ adj = [a \in Adj |-> [status |-> "none"]]
  /\ osr = [o \in Osr |-> [status |-> "none"]]
  /\ req = [r \in Req |-> Idle]
  /\ pending = [r \in Req |-> NoRows]

(* A refusal, an error or a lost client: the transaction rolls back. *)
Rollback(r) ==
  /\ req[r] # Idle
  /\ req' = [req EXCEPT ![r] = Idle]
  /\ pending' = [pending EXCEPT ![r] = NoRows]
  /\ UNCHANGED <<ledger, approved, adj, osr>>

-----------------------------------------------------------------------------
(* Stock adjustments.  Each decision locks the row FOR UPDATE, so it waits *)
(* while a request that posts it is in flight.  That the approver is not   *)
(* the requester is a refusal that changes nothing.                        *)
RequestAdjustment(a, t, x) ==
  /\ adj[a].status = "none"
  /\ adj' = [adj EXCEPT ![a] = [status |-> "requested", tank |-> t, litres |-> x]]
  /\ UNCHANGED <<ledger, approved, osr, req, pending>>

ApproveAdjustment(a) ==
  /\ adj[a].status = "requested"
  /\ adj' = [adj EXCEPT ![a].status = "approved"]
  /\ UNCHANGED <<ledger, approved, osr, req, pending>>

RejectAdjustment(a) ==
  /\ adj[a].status \in {"requested", "approved"}
  /\ ~InFlight(a)
  /\ adj' = [adj EXCEPT ![a].status = "rejected"]
  /\ UNCHANGED <<ledger, approved, osr, req, pending>>

PostAdjustment(r, a) ==
  /\ adj[a].status = "approved"
  /\ ~InFlight(a)
  /\ Len(ledger[adj[a].tank]) < MaxRows
  /\ Start(r, "adjustment", a, adj[a].litres, {adj[a].tank}, "post")

-----------------------------------------------------------------------------
(* Opening balances.  The first check runs before the tank is locked. *)
SetOpeningBalance(r, t, x) ==
  /\ ~HasOpening(t)
  /\ Start(r, "opening", NoRef, x, {t}, "post")

(* One live request per tank (uq_osr_one_live_per_tank). *)
RequestOpeningStock(o, t, x) ==
  /\ osr[o].status = "none"
  /\ ~HasOpening(t)
  /\ \A p \in Osr : osr[p].status \in {"draft", "approved"} => osr[p].tank # t
  /\ osr' = [osr EXCEPT ![o] = [status |-> "draft", tank |-> t, litres |-> x]]
  /\ UNCHANGED <<ledger, approved, adj, req, pending>>

ApproveOpeningStock(r, o) ==
  /\ osr[o].status = "draft"
  /\ ~InFlight(o)
  /\ ~HasOpening(osr[o].tank)
  /\ Start(r, "opening", o, osr[o].litres, {osr[o].tank}, "post")

RejectOpeningStock(o) ==
  /\ osr[o].status = "draft"
  /\ ~InFlight(o)
  /\ osr' = [osr EXCEPT ![o].status = "rejected"]
  /\ UNCHANGED <<ledger, approved, adj, req, pending>>

-----------------------------------------------------------------------------
ReceiveDelivery(r, t, x) ==
  /\ Len(ledger[t]) < MaxRows
  /\ Start(r, "delivery", NoRef, x, {t}, "post")

(* PostSalesForShift, called by the approval of a closed shift, which      *)
(* holds the shift row FOR UPDATE.                                         *)
PostSalesForShift(r, s, x) ==
  /\ s \notin approved
  /\ ~InFlight(s)
  /\ Start(r, "sales", s, -x, IF SalesPostedForShift(s) THEN {} ELSE Sold[s], "check")

(* Bug: the lines come in no particular order. *)
NextTankAny(r, t) == t \in req[r].todo

(* The lines are ordered by tank id. *)
NextTank(r, t) == t \in req[r].todo /\ \A u \in req[r].todo : t <= u

(* A tank without an opening is skipped. *)
CheckOpening(r, t) ==
  /\ req[r].at = "check"
  /\ NextTank(r, t)
  /\ IF HasOpening(t) THEN Continue(r, "post", req[r].todo)
                      ELSE Continue(r, "check", req[r].todo \ {t})
  /\ UNCHANGED <<ledger, approved, adj, osr, pending>>

-----------------------------------------------------------------------------
(* Bug: posts to one tank are not serialised. *)
TankFreeAlways(r, t) == TRUE

(* pg_advisory_xact_lock on the tank. *)
TankFree(r, t) == \A q \in Req : q # r => ~Holds(q, t)

(* The check under the lock, and the unique indexes on openings            *)
(* (uq_stock_mvt_one_opening) and on a shift's sales.                      *)
Admits(type, ref, t) ==
  /\ RequiresOpening(type) => HasOpening(t)
  /\ type = "opening" => ~HasOpening(t)
  /\ type = "sales" => ~SalePosted(ref, t)

PostMovement(r, t) ==
  LET q   == req[r]
      row == [type |-> q.type, ref |-> q.ref, litres |-> q.litres,
              balance |-> SumLitres(ledger[t]) + q.litres]
  IN /\ q.at = "post"
     /\ NextTank(r, t)
     /\ TankFree(r, t)
     /\ Admits(q.type, q.ref, t)
     /\ Continue(r, IF q.type = "sales" THEN "check" ELSE "post", q.todo \ {t})
     /\ pending' = [pending EXCEPT ![r][t] = <<row>>]
     /\ UNCHANGED <<ledger, approved, adj, osr>>

(* The rows, the lifecycle row they belong to and, for sales, the approval *)
(* of the shift commit together.                                           *)
Commit(r) ==
  LET q == req[r] IN
  /\ q # Idle
  /\ q.todo = {}
  /\ ledger' = [t \in Tank |-> ledger[t] \o pending[r][t]]
  /\ approved' = approved \cup ({q.ref} \cap Shift)
  /\ adj' = [a \in Adj |-> IF a = q.ref THEN [adj[a] EXCEPT !.status = "posted"] ELSE adj[a]]
  /\ osr' = [o \in Osr |-> IF o = q.ref THEN [osr[o] EXCEPT !.status = "approved"] ELSE osr[o]]
  /\ req' = [req EXCEPT ![r] = Idle]
  /\ pending' = [pending EXCEPT ![r] = NoRows]

-----------------------------------------------------------------------------
Lifecycle ==
  \/ \E a \in Adj, t \in Tank, x \in Litres :
       RequestAdjustment(a, t, x) \/ RequestAdjustment(a, t, -x)
  \/ \E a \in Adj : ApproveAdjustment(a) \/ RejectAdjustment(a)
  \/ \E o \in Osr, t \in Tank, x \in Litres : RequestOpeningStock(o, t, x)
  \/ \E o \in Osr : RejectOpeningStock(o)

Begin(r) ==
  \/ \E a \in Adj : PostAdjustment(r, a)
  \/ \E o \in Osr : ApproveOpeningStock(r, o)
  \/ \E t \in Tank, x \in Litres : SetOpeningBalance(r, t, x) \/ ReceiveDelivery(r, t, x)
  \/ \E s \in Shift, x \in Litres : PostSalesForShift(r, s, x)

Next ==
  \/ Lifecycle
  \/ \E r \in Req :
       \/ Begin(r)
       \/ \E t \in Tank : CheckOpening(r, t) \/ PostMovement(r, t)
       \/ Commit(r) \/ Rollback(r)

Spec == Init /\ [][Next]_vars

-----------------------------------------------------------------------------
(* Type invariant. *)
Adjustments == [status : {"none"}]
  \cup [status : {"requested", "approved", "posted", "rejected"}, tank : Tank, litres : Int]
OpeningRequests == [status : {"none"}]
  \cup [status : {"draft", "approved", "rejected"}, tank : Tank, litres : Litres]

TypeOK ==
  /\ ledger \in [Tank -> Seq(Row)]
  /\ approved \subseteq Shift
  /\ adj \in [Adj -> Adjustments]
  /\ osr \in [Osr -> OpeningRequests]
  /\ req \in [Req -> Request]
  /\ pending \in [Req -> [Tank -> Seq(Row)]]

(* However posts to a tank overlap, the balance_after of every committed   *)
(* row is the sum of the litres up to it, so the ledger read in seq order  *)
(* shows the running balance (INV-003).                                    *)
BalancesRun ==
  \A t \in Tank : \A i \in DOMAIN ledger[t] :
    ledger[t][i].balance = SumLitres(SubSeq(ledger[t], 1, i))

(* A tank is opened at most once, whether directly or by approving a       *)
(* request, also when openers race past the first check (INV-010).         *)
OneOpening ==
  \A t \in Tank : \A i, j \in DOMAIN ledger[t] :
    ledger[t][i].type = "opening" /\ ledger[t][j].type = "opening" => i = j

(* No delivery and no sale precedes the opening of its tank. *)
FlowsFollowOpening ==
  \A t \in Tank : \A i \in DOMAIN ledger[t] :
    RequiresOpening(ledger[t][i].type) =>
      \E j \in 1..(i - 1) : ledger[t][j].type = "opening"

(* What was checked under the tank's lock is still true at the commit: no  *)
(* row that another request commits meanwhile makes an uncommitted row     *)
(* inadmissible, and no two requests hold rows of one tank.                *)
StillAdmitted ==
  \A r \in Req, t \in Tank : Holds(r, t) =>
    /\ Admits(pending[r][t][1].type, pending[r][t][1].ref, t)
    /\ \A q \in Req : q # r => ~Holds(q, t)

(* Ledger and lifecycle agree: an adjustment is posted, an opening-stock   *)
(* request approved, exactly when its movement is on the ledger ("commit   *)
(* together or not at all").                                               *)
OnLedger(ref) == \E t \in Tank : \E i \in DOMAIN ledger[t] : ledger[t][i].ref = ref
LifecycleMatchesLedger ==
  /\ \A a \in Adj : adj[a].status = "posted" <=> OnLedger(a)
  /\ \A o \in Osr : osr[o].status = "approved" <=> OnLedger(o)

(* r waits for a tank that q holds. *)
WaitsFor(r, q) ==
  /\ req[r].at = "post"
  /\ q # r
  /\ \E t \in Tank : NextTank(r, t) /\ Holds(q, t)

(* No set of requests waits only on itself: approvals that draw down the   *)
(* same tanks cannot deadlock, because the lines are ordered by tank.      *)
NoDeadlock ==
  \A S \in SUBSET Req : S # {} => \E r \in S : \A q \in S : ~WaitsFor(r, q)

-----------------------------------------------------------------------------
(* PostSalesForShift: "Those skipped sales are the documented backfill     *)
(* case: once the tank has an opening balance, re-run PostSalesForShift    *)
(* for the shift to post them".  For a re-run to post anything, the        *)
(* shift's sales must not count as posted already.                         *)
SkippedSalesCanBePosted ==
  \A s \in approved : \A t \in Sold[s] :
    HasOpening(t) /\ ~SalePosted(s, t) => ~SalesPostedForShift(s)

=============================================================================
