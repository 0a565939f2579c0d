----------------------------- MODULE Purchasing -----------------------------
(***************************************************************************)
(* From a purchase order to the payment of its supplier: orders and the    *)
(* goods received against them, supplier invoices matched with the order   *)
(* or the delivery, the discrepancies that block an invoice, the payables  *)
(* imported from approved invoices and the payments allocated to them.     *)
(*                                                                         *)
(* Litres and prices are whole litres and cents.  The stock movement of a  *)
(* receipt belongs to StockLedger.  Resolving a discrepancy counts the     *)
(* ones still open before the invoice row is written: ResolveBegin and     *)
(* ResolveDiscrepancy.                                                     *)
(***************************************************************************)
EXTENDS Ledger

CONSTANTS
  Suppliers, Orders, OrderLines, Loads, Bills, Payments, Buyers,
  Litres,       \* quantities ordered, received or invoiced
  Prices,       \* unit prices
  Given,        \* amounts an invoice line may state itself
  NotThere

VARIABLES
  supplier,     \* suppliers.status
  order,        \* purchase_orders with their lines
  load,         \* deliveries received against an order
  bill,         \* supplier_invoices with their lines and procurement_discrepancies
  payable,      \* payables, by the invoice they were imported from
  paid          \* supplier_payments with their allocations

purchasingTables == <<supplier, order, load, bill, payable, paid>>

Away(a, b) == IF a > b THEN a - b ELSE b - a
OpenOrder == {"draft", "submitted", "confirmed", "partially_received"}

----------------------------------------------------------------------------
\* Suppliers.

CreateSupplier(s) ==
  /\ supplier[s] = NotThere
  /\ supplier' = [supplier EXCEPT ![s] = "active"]

handleCreateSupplier(s) ==
  /\ CreateSupplier(s)
  /\ UNCHANGED <<ledger, order, load, bill, payable, paid>>

\* The open orders are not looked at here.
UpdateSupplier(s, status) ==
  /\ supplier[s] # NotThere
  /\ supplier' = [supplier EXCEPT ![s] = status]

handleUpdateSupplier(s, status) ==
  /\ UpdateSupplier(s, status)
  /\ UNCHANGED <<ledger, order, load, bill, payable, paid>>

DeactivateSupplier(s) ==
  /\ \A o \in Orders : order[o] # NotThere /\ order[o].supplier = s => order[o].status \notin OpenOrder
  /\ UpdateSupplier(s, "deactivated")

handleDeactivateSupplier(s) ==
  /\ DeactivateSupplier(s)
  /\ UNCHANGED <<ledger, order, load, bill, payable, paid>>

----------------------------------------------------------------------------
\* Purchase orders.  lines maps a line to what was ordered at which price.

insertPurchaseOrderLines(lines) ==
  [l \in DOMAIN lines |-> [ordered |-> lines[l][1], price |-> lines[l][2], received |-> 0]]

CreatePurchaseOrder(o, s, lines) ==
  /\ order[o] = NotThere /\ supplier[s] = "active"
  /\ order' = [order EXCEPT ![o] =
       [supplier |-> s, status |-> "draft", lines |-> insertPurchaseOrderLines(lines)]]

handleCreatePurchaseOrder(o, s, lines) ==
  /\ CreatePurchaseOrder(o, s, lines)
  /\ UNCHANGED <<ledger, supplier, load, bill, payable, paid>>

UpdatePurchaseOrderDraft(o, lines) ==
  /\ order[o] # NotThere /\ order[o].status = "draft"
  /\ order' = [order EXCEPT ![o].lines = insertPurchaseOrderLines(lines)]

handleUpdatePurchaseOrder(o, lines) ==
  /\ UpdatePurchaseOrderDraft(o, lines)
  /\ UNCHANGED <<ledger, supplier, load, bill, payable, paid>>

ValidPurchaseOrderTransition(from, to) ==
  \/ from = "draft"     /\ to \in {"submitted", "cancelled"}
  \/ from = "submitted" /\ to \in {"confirmed", "cancelled"}
  \/ from = "confirmed" /\ to = "cancelled"
  \/ from = "received"  /\ to = "closed"

\* The status the transition was found valid for is read through the pool.
TransitionBegin(r, o, to) ==
  /\ order[o] # NotThere /\ ValidPurchaseOrderTransition(order[o].status, to)
  /\ Begin(r, [at |-> "order", order |-> o, from |-> order[o].status, to |-> to])
  /\ UNCHANGED <<chart, period, entry, purchasingTables>>

TransitionPurchaseOrder(r) ==
  /\ req[r].at = "order"
  /\ order[req[r].order].status = req[r].from
  /\ order' = [order EXCEPT ![req[r].order].status = req[r].to]
  /\ End(r)
  /\ UNCHANGED <<chart, period, entry, supplier, load, bill, payable, paid>>

----------------------------------------------------------------------------
\* Goods receipts.  receivingTolerancePct is half a percent.

Beyond(litres, ordered) == 200 * (litres - ordered) > ordered
MatchStatus(litres, ordered) ==
  CASE 200 * (ordered - litres) > ordered -> "short"
    [] Beyond(litres, ordered) -> "over"
    [] OTHER -> "matched"

advancePurchaseOrderStatus(lines) ==
  CASE \A l \in DOMAIN lines : 200 * (lines[l].ordered - lines[l].received) <= lines[l].ordered -> "received"
    [] \E l \in DOMAIN lines : lines[l].received > 0 -> "partially_received"
    [] OTHER -> "confirmed"

\* Mutant: each delivery alone is held against what was ordered.
ReceiveGoodsReceiptAlone(x, o, l, litres) ==
  /\ load[x] = NotThere /\ order[o] # NotThere /\ l \in DOMAIN order[o].lines
  /\ order[o].status \in {"confirmed", "partially_received"}
  /\ LET line  == order[o].lines[l]
         lines == [order[o].lines EXCEPT ![l].received = @ + litres]
     IN /\ ~Beyond(litres, line.ordered)
        /\ order' = [order EXCEPT ![o].lines = lines, ![o].status = advancePurchaseOrderStatus(lines)]
        /\ load' = [load EXCEPT ![x] = [order |-> o, line |-> l, litres |-> litres,
                                        match |-> MatchStatus(line.received + litres, line.ordered)]]

\* The order and the line are locked, and the line is read after the lock.
ReceiveGoodsReceipt(x, o, l, litres) ==
  /\ load[x] = NotThere /\ order[o] # NotThere /\ l \in DOMAIN order[o].lines
  /\ order[o].status \in {"confirmed", "partially_received"}
  /\ LET line  == order[o].lines[l]
         lines == [order[o].lines EXCEPT ![l].received = @ + litres]
     IN /\ ~Beyond(line.received + litres, line.ordered)
        /\ order' = [order EXCEPT ![o].lines = lines, ![o].status = advancePurchaseOrderStatus(lines)]
        /\ load' = [load EXCEPT ![x] = [order |-> o, line |-> l, litres |-> litres,
                                        match |-> MatchStatus(line.received + litres, line.ordered)]]

handleReceivePurchaseOrderReceipt(x, o, l, litres) ==
  /\ ReceiveGoodsReceipt(x, o, l, litres)
  /\ UNCHANGED <<ledger, supplier, bill, payable, paid>>

----------------------------------------------------------------------------
\* Supplier invoices.  A line names its quantity, its price, the amount it
\* states (or NotThere) and the delivery it bills (or NotThere).

\* The delivery named need not belong to the order.
Reference(o, l, x) == IF x = NotThere THEN order[o].lines[l].ordered ELSE load[x].litres

\* Over half a percent, and over one litre or one cent.
OutOfTolerance(found, reference) == Away(found, reference) > 1 /\ 200 * Away(found, reference) > reference

raiseInvoiceDiscrepancies(o, lines) ==
  {<<l, "quantity">> : l \in {m \in DOMAIN lines : OutOfTolerance(lines[m].litres, Reference(o, m, lines[m].load))}}
    \cup {<<l, "price">> : l \in {m \in DOMAIN lines : OutOfTolerance(lines[m].price, order[o].lines[m].price)}}

refreshInvoiceMatchStatus(openLeft) == IF openLeft = {} THEN "matched" ELSE "discrepancy"

LineAmount(line) == IF line.amount = NotThere THEN line.litres * line.price ELSE line.amount

RecordSupplierInvoice(u, b, o, lines, d) ==
  /\ bill[b] = NotThere /\ order[o] # NotThere /\ DOMAIN lines \subseteq DOMAIN order[o].lines
  /\ order[o].status \notin {"draft", "cancelled"}
  /\ \A l \in DOMAIN lines : lines[l].load # NotThere => load[lines[l].load] # NotThere
  /\ LET raised == raiseInvoiceDiscrepancies(o, lines) IN
     bill' = [bill EXCEPT ![b] =
       [order |-> o, date |-> d, recorder |-> u, approver |-> NotThere,
        status |-> refreshInvoiceMatchStatus(raised), open |-> raised,
        total |-> SumFunction([l \in DOMAIN lines |-> LineAmount(lines[l])])]]

handleRecordSupplierInvoice(u, b, o, lines, d) ==
  /\ RecordSupplierInvoice(u, b, o, lines, d)
  /\ UNCHANGED <<ledger, supplier, order, load, payable, paid>>

ApproveSupplierInvoice(u, b) ==
  /\ bill[b] # NotThere /\ bill[b].open = {} /\ bill[b].status = "matched"
  /\ bill[b].recorder # u
  /\ bill' = [bill EXCEPT ![b].status = "approved", ![b].approver = u]

handleApproveSupplierInvoice(u, b) ==
  /\ ApproveSupplierInvoice(u, b)
  /\ UNCHANGED <<ledger, supplier, order, load, payable, paid>>

\* The discrepancy is written and the rest counted; its row stays locked.
ResolveBegin(r, b, k) ==
  /\ bill[b] # NotThere /\ k \in bill[b].open
  /\ \A q \in Requests : req[q].at = "resolve" => <<req[q].bill, req[q].disc>> # <<b, k>>
  /\ Begin(r, [at |-> "resolve", bill |-> b, disc |-> k, left |-> bill[b].open \ {k}])
  /\ UNCHANGED <<chart, period, entry, purchasingTables>>

ResolveDiscrepancy(r) ==
  /\ req[r].at = "resolve"
  /\ bill' = [bill EXCEPT ![req[r].bill].open = @ \ {req[r].disc},
                          ![req[r].bill].status = IF @ = "approved" THEN @ ELSE refreshInvoiceMatchStatus(req[r].left)]

handleResolveProcurementDiscrepancy(r) ==
  /\ ResolveDiscrepancy(r)
  /\ End(r)
  /\ UNCHANGED <<chart, period, entry, supplier, order, load, payable, paid>>

----------------------------------------------------------------------------
\* Payables.

\* Mutant: an invoice imported before is imported again.
ImportApprovedInvoicesAgain == {b \in Bills : bill[b] # NotThere /\ bill[b].status = "approved"}

\* The approved invoices that have no payable yet, each with its entry; they are
\* imported together or not at all.  Bill dates share the request's period.
ImportApprovedInvoices == {b \in Bills : bill[b] # NotThere /\ bill[b].status = "approved" /\ payable[b] = NotThere}

PayableEntry(b) ==
  [src |-> <<"payable", b>>, date |-> bill[b].date, lines |-> Move("inventory", "accounts_payable", bill[b].total),
   status |-> "posted", reverses |-> 0, reversedBy |-> 0]

\* The entries appear in some order.
handleImportPayables(r, d) ==
  LET new == ImportApprovedInvoices IN
  /\ new # {} /\ Resolved(r, d)
  /\ \A b \in new : bill[b].date = d /\ Balanced(PayableEntry(b).lines)
  /\ resolveSystemAccount("inventory") /\ resolveSystemAccount("accounts_payable")
  /\ Len(entry) + Cardinality(new) <= MaxEntries
  /\ \E f \in [1..Cardinality(new) -> new] :
       /\ \A b \in new : \E i \in DOMAIN f : f[i] = b
       /\ entry' = entry \o [i \in DOMAIN f |-> PayableEntry(f[i])]
  /\ payable' = [b \in Bills |->
       IF b \in new THEN [outstanding |-> bill[b].total, amount |-> bill[b].total, status |-> "open"] ELSE payable[b]]
  /\ End(r)
  /\ UNCHANGED <<chart, period, supplier, order, load, bill, paid>>

\* alloc maps a payable to an amount; whose payable it is is not compared.
ApplyPayment(alloc) ==
  /\ \A b \in DOMAIN alloc : payable[b] # NotThere /\ payable[b].outstanding >= alloc[b]
  /\ payable' = [b \in Bills |->
       IF b \notin DOMAIN alloc THEN payable[b]
       ELSE [payable[b] EXCEPT !.outstanding = @ - alloc[b],
                               !.status = IF payable[b].outstanding = alloc[b] THEN "paid" ELSE "partially_paid"]]

CreatePayment(p, s, alloc) ==
  /\ paid[p] = NotThere
  /\ paid' = [paid EXCEPT ![p] = [supplier |-> s, alloc |-> alloc]]

handleRecordSupplierPayment(r, p, s, alloc, key, d) ==
  /\ supplier[s] # NotThere
  /\ CreatePayment(p, s, alloc) /\ ApplyPayment(alloc)
  /\ Post(r, <<"supplier_payment", p>>, d, Move("accounts_payable", key, SumFunction(alloc)))
  /\ UNCHANGED <<supplier, order, load, bill>>

\* AgingTotals and the outstanding column of Aging.
Aging(B) == SumFunction([b \in {c \in B : payable[c] # NotThere /\ payable[c].status # "paid"} |-> payable[b].outstanding])

----------------------------------------------------------------------------
PurchasingInit ==
  /\ supplier = [s \in Suppliers |-> NotThere]
  /\ order = [o \in Orders |-> NotThere]
  /\ load = [x \in Loads |-> NotThere]
  /\ bill = [b \in Bills |-> NotThere]
  /\ payable = [b \in Bills |-> NotThere]
  /\ paid = [p \in Payments |-> NotThere]

\* An order whose one line arrived in one delivery, as the invoices find it.
ReceivedInit ==
  LET s == CHOOSE t \in Suppliers : TRUE  o == CHOOSE k \in Orders : TRUE  l == CHOOSE m \in OrderLines : TRUE
      x == CHOOSE y \in Loads : TRUE  n == CHOOSE m \in Litres : TRUE  p == CHOOSE m \in Prices : TRUE
  IN
    /\ supplier = [t \in Suppliers |-> IF t = s THEN "active" ELSE NotThere]
    /\ order = [k \in Orders |-> IF k # o THEN NotThere ELSE
         [supplier |-> s, status |-> "received", lines |-> [m \in {l} |-> [ordered |-> n, price |-> p, received |-> n]]]]
    /\ load = [y \in Loads |-> IF y # x THEN NotThere ELSE [order |-> o, line |-> l, litres |-> n, match |-> "matched"]]
    /\ bill = [b \in Bills |-> NotThere]
    /\ payable = [b \in Bills |-> NotThere]
    /\ paid = [p1 \in Payments |-> NotThere]

SomeOf(S, T) == UNION {[U -> T] : U \in SUBSET S \ {{}}}
BillLine ==
  [litres : Litres, price : Prices, amount : Given \cup {NotThere}, load : {x \in Loads : load[x] # NotThere} \cup {NotThere}]

OrderNext ==
  \/ \E s \in Suppliers : handleCreateSupplier(s) \/ handleDeactivateSupplier(s)
  \/ \E s \in Suppliers, status \in {"active", "inactive", "deactivated"} : handleUpdateSupplier(s, status)
  \/ \E o \in Orders, s \in Suppliers, lines \in SomeOf(OrderLines, Litres \X Prices) :
       handleCreatePurchaseOrder(o, s, lines) \/ handleUpdatePurchaseOrder(o, lines)
  \/ \E r \in Requests, o \in Orders, to \in {"submitted", "confirmed", "cancelled", "closed"} : TransitionBegin(r, o, to)
  \/ \E r \in Requests : TransitionPurchaseOrder(r)
  \/ \E x \in Loads, o \in Orders, l \in OrderLines, n \in Litres : handleReceivePurchaseOrderReceipt(x, o, l, n)

BillNext ==
  \/ \E u \in Buyers, b \in Bills, o \in Orders, lines \in SomeOf(OrderLines, BillLine) :
       handleRecordSupplierInvoice(u, b, o, lines, 1)
  \/ \E u \in Buyers, b \in Bills : handleApproveSupplierInvoice(u, b)
  \/ \E r \in Requests, b \in Bills : \E k \in OrderLines \X {"quantity", "price"} : ResolveBegin(r, b, k)
  \/ \E r \in Requests : handleResolveProcurementDiscrepancy(r)

PayableNext ==
  \/ \E r \in Requests, d \in Dates : handleImportPayables(r, d)
  \/ \E r \in Requests, p \in Payments, s \in Suppliers, alloc \in SomeOf(Bills, Litres), d \in Dates :
       handleRecordSupplierPayment(r, p, s, alloc, "bank", d)

(* An order is never over-received beyond the tolerance, a cancelled order  *)
(* has received nothing, and what its lines say was received is what its    *)
(* deliveries carried, however receipts and transitions interleave.         *)
ReceiptsFollowOrder ==
  \A o \in Orders : order[o] # NotThere =>
    \A l \in DOMAIN order[o].lines :
      LET line == order[o].lines[l]
          mine == {x \in Loads : load[x] # NotThere /\ load[x].order = o /\ load[x].line = l}
      IN /\ line.received = SumFunction([x \in mine |-> load[x].litres])
         /\ ~Beyond(line.received, line.ordered)
         /\ order[o].status \in {"draft", "submitted", "cancelled"} => mine = {}

(* A resolved discrepancy no longer blocks its invoice: unless one is being *)
(* resolved, an invoice held back for discrepancies has one that is open.   *)
(* TLC refutes it: two resolutions at once each count the other's as open.  *)
BlockedHasOpenDiscrepancy ==
  \A b \in Bills :
    bill[b] # NotThere /\ bill[b].status = "discrepancy" /\ (\A r \in Requests : req[r].at = "resolve" => req[r].bill # b)
      => bill[b].open # {}

(* An invoice becomes payable once, approved by somebody who did not record *)
(* it and with no discrepancy open, and accounts payable holds what the     *)
(* payables still owe as long as nobody reverses their entries by hand.     *)
PayablesMatchLedger ==
  LET mine == {i \in DOMAIN entry : entry[i].src[1] \in {"payable", "supplier_payment"}} IN
  /\ \A b \in Bills : payable[b] # NotThere =>
       /\ bill[b].status = "approved" /\ bill[b].open = {} /\ bill[b].approver \notin {NotThere, bill[b].recorder}
       /\ Cardinality({i \in mine : entry[i].src = <<"payable", b>>}) = 1
  /\ (\A i \in mine : entry[i].status = "posted") => -Net("accounts_payable", mine) = Aging(Bills)

=============================================================================
