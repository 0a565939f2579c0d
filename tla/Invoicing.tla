------------------------------ MODULE Invoicing ------------------------------
(***************************************************************************)
(* Customers, the invoices issued to them and the payments allocated to    *)
(* those invoices.  Issuing debits accounts receivable, a payment credits  *)
(* it, and reversing a payment restores the invoices and reverses the      *)
(* payment's journal entry in one transaction.                             *)
(***************************************************************************)
EXTENDS Ledger

CONSTANTS
  Customers, Invoices, Receipts,
  CreditLimits, \* credit limits a customer may be given
  Standings,    \* statuses a customer is moved to
  Sums,         \* amounts of an invoice line or of an allocation
  Missing

VARIABLES
  customer,     \* customers
  invoice,      \* customer_invoices with their lines
  receipt       \* customer_payments with their allocations

invoicingTables == <<customer, invoice, receipt>>

InvoiceAccount == {"sales_revenue", "operating_expense"}

----------------------------------------------------------------------------
\* Customers.

\* Mutant: nobody locks the customer row.
CustomerUnlocked(c) == c \in Customers

\* An authorization holds the customer row FOR UPDATE until it commits (module
\* Credit).  Whatever updates the row, locks it, or inserts a row that refers to
\* the customer (the foreign key takes a share of the lock) waits until then.
CustomerFree(c) == \A r \in Requests : req[r].at = "authorize" => req[r].customer # c

CreateCustomer(c, limit) ==
  /\ customer[c] = Missing
  /\ customer' = [customer EXCEPT ![c] = [status |-> "active", limit |-> limit]]

handleCreateCustomer(c, limit) ==
  /\ CreateCustomer(c, limit)
  /\ UNCHANGED <<ledger, invoice, receipt>>

UpdateCustomer(c, limit) ==
  /\ customer[c] # Missing /\ CustomerFree(c)
  /\ customer' = [customer EXCEPT ![c].limit = limit]

handleUpdateCustomer(c, limit) ==
  /\ UpdateCustomer(c, limit)
  /\ UNCHANGED <<ledger, invoice, receipt>>

SetCustomerStatus(c, status) ==
  /\ customer[c] # Missing /\ CustomerFree(c)
  /\ customer' = [customer EXCEPT ![c].status = status]

handleSetCustomerStatus(c, status) ==
  /\ SetCustomerStatus(c, status)
  /\ UNCHANGED <<ledger, invoice, receipt>>

----------------------------------------------------------------------------
\* Invoices.  lines maps a revenue account to the amount booked on it.

FinalizeInvoiceAmount(lines) == SumFunction(lines)

CreateInvoice(i, c, lines, d) ==
  /\ customer[c] # Missing /\ invoice[i] = Missing /\ CustomerFree(c)
  /\ invoice' = [invoice EXCEPT ![i] =
       [customer |-> c, status |-> "draft", lines |-> lines, date |-> d,
        amount |-> FinalizeInvoiceAmount(lines), outstanding |-> FinalizeInvoiceAmount(lines)]]

handleCreateCustomerInvoice(i, c, lines, d) ==
  /\ CreateInvoice(i, c, lines, d)
  /\ UNCHANGED <<ledger, customer, receipt>>

IssueInvoice(i) ==
  /\ invoice[i] # Missing /\ invoice[i].status = "draft"
  /\ invoice' = [invoice EXCEPT ![i].status = "issued"]

RevenueBreakdown(i) ==
  [c \in {"accounts_receivable"} \cup DOMAIN invoice[i].lines |->
     IF c = "accounts_receivable" THEN invoice[i].amount ELSE -invoice[i].lines[c]]

handleIssueCustomerInvoice(r, i) ==
  /\ IssueInvoice(i)
  /\ Post(r, <<"customer_invoice", i>>, invoice[i].date, RevenueBreakdown(i))
  /\ UNCHANGED <<customer, receipt>>

Collectable(i) == invoice[i] # Missing /\ invoice[i].status \in {"issued", "partially_paid"}

\* What InvoiceAging reports for a customer.
InvoiceAging(c) ==
  SumFunction([i \in {j \in Invoices : Collectable(j) /\ invoice[j].customer = c} |-> invoice[i].outstanding])

----------------------------------------------------------------------------
\* Payments.  alloc maps an invoice to the amount allocated to it.

ApplyInvoicePayment(c, alloc) ==
  /\ \A i \in DOMAIN alloc :
       Collectable(i) /\ invoice[i].customer = c /\ invoice[i].outstanding >= alloc[i]
  /\ invoice' = [i \in Invoices |->
       IF i \notin DOMAIN alloc THEN invoice[i]
       ELSE [invoice[i] EXCEPT !.outstanding = @ - alloc[i],
                               !.status = IF invoice[i].outstanding = alloc[i] THEN "paid" ELSE "partially_paid"]]

\* CreateCustomerPayment and AddCustomerAllocation: the amount is the allocations'.
AddCustomerAllocation(p, c, alloc) ==
  receipt' = [receipt EXCEPT ![p] =
    [customer |-> c, alloc |-> alloc, status |-> "posted", entry |-> Len(entry) + 1]]

handlePostCustomerPayment(r, p, c, alloc, key, d) ==
  /\ customer[c] # Missing /\ receipt[p] = Missing /\ CustomerFree(c)
  /\ ApplyInvoicePayment(c, alloc)
  /\ AddCustomerAllocation(p, c, alloc)
  /\ Post(r, <<"customer_payment", p>>, d, Move(key, "accounts_receivable", SumFunction(alloc)))
  /\ UNCHANGED customer

\* Mutant: the invoice is open again for all of its amount.
RestoredInFull(i, a) == [invoice[i] EXCEPT !.outstanding = invoice[i].amount, !.status = "issued"]

\* LEAST(outstanding + a, amount)
Restored(i, a) ==
  LET due == IF invoice[i].outstanding + a <= invoice[i].amount
             THEN invoice[i].outstanding + a ELSE invoice[i].amount
  IN [invoice[i] EXCEPT !.outstanding = due,
                        !.status = IF due = invoice[i].amount THEN "issued" ELSE "partially_paid"]

ReverseCustomerPayment(p) ==
  /\ receipt[p] # Missing /\ receipt[p].status = "posted"
  /\ receipt' = [receipt EXCEPT ![p].status = "voided"]
  /\ LET alloc == receipt[p].alloc IN
     invoice' = [i \in Invoices |-> IF i \in DOMAIN alloc THEN Restored(i, alloc[i]) ELSE invoice[i]]

\* Nothing is changed if the entry has been reversed by hand.
handleReverseCustomerPayment(r, p) ==
  /\ ReverseCustomerPayment(p)
  /\ ReverseEntry(r, receipt[p].entry)
  /\ UNCHANGED customer

----------------------------------------------------------------------------
InvoicingInit ==
  /\ customer = [c \in Customers |-> Missing]
  /\ invoice = [i \in Invoices |-> Missing]
  /\ receipt = [p \in Receipts |-> Missing]

\* The non-empty partial functions from S to T.
Assignments(S, T) == UNION {[U -> T] : U \in SUBSET S \ {{}}}

NewCustomerNext == \E c \in Customers, limit \in CreditLimits : handleCreateCustomer(c, limit)

CustomerNext ==
  \/ \E c \in Customers, limit \in CreditLimits : handleUpdateCustomer(c, limit)
  \/ \E c \in Customers, s \in Standings : handleSetCustomerStatus(c, s)

InvoiceNext ==
  \/ \E i \in Invoices, c \in Customers, lines \in Assignments(InvoiceAccount, Sums) :
       handleCreateCustomerInvoice(i, c, lines, 1)
  \/ \E r \in Requests, i \in Invoices : handleIssueCustomerInvoice(r, i)
  \/ \E r \in Requests, p \in Receipts, c \in Customers, alloc \in Assignments(Invoices, Sums) :
       handlePostCustomerPayment(r, p, c, alloc, "bank", 1)
  \/ \E r \in Requests, p \in Receipts : handleReverseCustomerPayment(r, p)

(* What an invoice still owes is its amount less the allocations of the     *)
(* payments in force, never less than nothing, and its status says which.   *)
OutstandingIsUnallocated ==
  \A i \in Invoices :
    invoice[i] # Missing =>
      LET live == {p \in Receipts : receipt[p] # Missing /\ receipt[p].status = "posted" /\ i \in DOMAIN receipt[p].alloc}
          left == invoice[i].amount - SumFunction([p \in live |-> receipt[p].alloc[i]])
      IN /\ invoice[i].outstanding = left /\ left >= 0
         /\ invoice[i].status = CASE left = 0 -> "paid"
                                  [] left = invoice[i].amount /\ EntryExistsForSource(<<"customer_invoice", i>>) -> "issued"
                                  [] left = invoice[i].amount -> "draft"
                                  [] OTHER -> "partially_paid"

(* Whatever order invoices are issued, paid in parts and payments reversed  *)
(* in, the allocations, the outstanding amounts and the ledger agree: what  *)
(* an invoice owes is what is unallocated, and as long as nobody reverses   *)
(* one of their entries by hand accounts receivable holds exactly what the  *)
(* ageing report says the customers owe.                                    *)
ReceivableMatchesInvoices ==
  LET doc     == {i \in DOMAIN entry : entry[i].src[1] \in {"customer_invoice", "customer_payment"}}
      back    == {j \in DOMAIN entry : entry[j].reverses \in doc}
      voided  == {receipt[p].entry : p \in {q \in Receipts : receipt[q] # Missing /\ receipt[q].status = "voided"}}
  IN /\ OutstandingIsUnallocated
     /\ {entry[j].reverses : j \in back} \subseteq voided
          => Net("accounts_receivable", doc \cup back) = SumFunction([c \in Customers |-> InvoiceAging(c)])

=============================================================================
