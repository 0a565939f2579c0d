------------------------------- MODULE Finance -------------------------------
(***************************************************************************)
(* The finance components over the one ledger and its accounting periods.  *)
(* A period closes only when the checklist over all the documents is       *)
(* clear, whatever period the documents belong to.                         *)
(*                                                                         *)
(* A behaviour exercises the components of one area (focus): the areas     *)
(* share the ledger and no other table.                                    *)
(***************************************************************************)
EXTENDS Expenses, Banking, Credit, Purchasing, Revenue

CONSTANTS
  MaxAdjustments, \* bound on the adjustments posted
  NewAccounts,  \* accounts a user may add, as code and type
  Adjustable    \* codes the adjustments and the changes of status touch

VARIABLE focus

tables == <<expensesTables, bankingTables, invoicingTables, creditTables, purchasingTables, revenueTables, focus>>
financeVars == <<ledger, tables>>

Areas == {"ledger", "expenses", "petty cash", "cash", "statements", "invoicing", "authorizations", "charges", "alerts",
          "orders", "bills", "sales", "revenue"}

----------------------------------------------------------------------------
\* The close checklist: how many documents of each kind block a close.
periodCloseChecks ==
  [unposted_cash_reconciliations |-> Cardinality({d \in Days : recon[d] # Nothing /\ recon[d].status # "posted"}),
   open_deposits |-> Cardinality({x \in Deposits : deposit[x] # Nothing /\ deposit[x].status \notin {"posted", "voided"}}),
   unmatched_bank_lines |-> Cardinality({l \in StatementLines : bankLine[l] # Nothing /\ bankLine[l].status = "unmatched"}),
   expenses_awaiting_posting |->
     Cardinality({x \in ExpenseIds : expense[x] # NoRow /\ expense[x].status \in {"draft", "submitted", "approved"}}),
   unissued_customer_invoices |-> Cardinality({i \in Invoices : invoice[i] # Missing /\ invoice[i].status = "draft"})]

periodCloseChecklist == SumFunction(periodCloseChecks)

handlePeriodTransition(d, from, to) ==
  /\ to \in {"closed", "locked"} => periodCloseChecklist = 0
  /\ transition(d, from, to)

Edges == {<<"open", "closing">>, <<"closing", "closed">>, <<"closed", "open">>, <<"closed", "locked">>}

\* Period 2 is only used where the books are looked at by date, and stays open.
PeriodNext ==
  /\ focus \notin {"authorizations", "alerts", "orders", "sales"}
  /\ \/ \E d \in IF focus = "ledger" THEN Dates ELSE {1} : handleCreatePeriod(d)
     \/ \E e \in Edges : handlePeriodTransition(1, e[1], e[2])
  /\ UNCHANGED tables

\* The steps of any posting or reversing transaction; entries are reversed by
\* hand in the areas whose properties are about it.
PostingNext ==
  /\ \/ focus # "ledger" /\ \E r \in Requests, d \in Dates : Resolve(r, d, FALSE)
     \/ focus \in {"ledger", "invoicing"} /\ \E r \in Requests, i \in DOMAIN entry : handleReverseJournalEntry(r, i)
     \/ \E r \in Requests : Rollback(r)
  /\ UNCHANGED tables

ChartNext ==
  /\ \/ handleSeedDefaultChart
     \/ \E a \in NewAccounts : handleCreateAccount(a[1], a[2])
     \/ \E r \in Requests, c \in Adjustable : UpdateAccountCheck(r, c)
     \/ \E r \in Requests : Deactivate(r)
     \/ \E c \in Adjustable : Activate(c)
     \/ \E r \in Requests, d \in Dates : Resolve(r, d, TRUE)
     \/ \E r \in Requests, c, k \in Adjustable : c # k /\ Len(entry) < MaxAdjustments /\ handlePostAdjustment(r, Move(c, k, 1))
  /\ UNCHANGED tables

----------------------------------------------------------------------------
FinanceInit ==
  /\ focus \in Areas
  /\ LedgerInit
  /\ chart \in CASE focus = "ledger"  -> {Unseeded}
                 [] focus = "charges" -> {Unseeded, Seeded}
                 [] OTHER             -> {Seeded}
  /\ ExpensesInit /\ BankingInit /\ InvoicingInit /\ CreditInit /\ RevenueInit
  /\ IF focus = "bills" THEN ReceivedInit ELSE PurchasingInit

In(area) == focus = area /\ UNCHANGED focus

ExpenseArea ==
  /\ UNCHANGED <<bankingTables, invoicingTables, creditTables, purchasingTables, revenueTables>>
  /\ \/ In("expenses") /\ ExpensesNext
     \/ In("petty cash") /\ PettyNext

CashArea ==
  /\ UNCHANGED <<expensesTables, invoicingTables, creditTables, purchasingTables, revenueTables>>
  /\ \/ In("cash") /\ (CashNext \/ DepositNext)
     \/ In("statements") /\ (DepositNext \/ StatementNext)

InvoiceArea ==
  /\ UNCHANGED <<expensesTables, bankingTables, purchasingTables, revenueTables>>
  /\ In("invoicing") /\ (NewCustomerNext \/ InvoiceNext) /\ UNCHANGED creditTables

CreditArea ==
  /\ UNCHANGED <<expensesTables, bankingTables, purchasingTables, revenueTables>>
  /\ \/ In("authorizations") /\ (AuthorizeNext \/ LapseNext \/ CardNext)
     \/ In("charges") /\ ChargeNext
     \/ focus \in {"authorizations", "charges"} /\ CustomerNext /\ UNCHANGED <<creditTables, focus>>
     \/ In("alerts") /\ (AuthorizeNext \/ LapseNext \/ ProfileNext \/ AlertNext)
     \/ focus \in {"authorizations", "charges", "alerts"} /\ NewCustomerNext /\ UNCHANGED <<creditTables, focus>>

PurchaseArea ==
  /\ UNCHANGED <<expensesTables, bankingTables, invoicingTables, creditTables, revenueTables>>
  /\ \/ In("orders") /\ OrderNext
     \/ In("bills") /\ (BillNext \/ PayableNext)

RevenueArea ==
  /\ UNCHANGED <<expensesTables, bankingTables, invoicingTables, creditTables, purchasingTables>>
  /\ \/ In("sales") /\ (SaleNext \/ DayNext)
     \/ In("revenue") /\ (SaleNext \/ JournalNext)

FinanceNext ==
  \/ PeriodNext \/ PostingNext
  \/ focus = "ledger" /\ ChartNext
  \/ ExpenseArea \/ CashArea \/ InvoiceArea \/ CreditArea \/ PurchaseArea \/ RevenueArea

FinanceSpec == FinanceInit /\ [][FinanceNext]_financeVars

(* resolvePostingPeriod: "locked periods reject everything", so no entry is *)
(* ever added to one.  TLC refutes it: the period is read without a lock    *)
(* and may be closed and locked before the posting commits.                 *)
LockedPeriodIsFrozen ==
  [][\A i \in DOMAIN entry' \ DOMAIN entry : period[entry'[i].date] # "locked"]_entry

=============================================================================
