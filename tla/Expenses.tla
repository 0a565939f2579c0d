------------------------------ MODULE Expenses ------------------------------
(***************************************************************************)
(* Operating expenses (draft, submitted, approved by somebody else, posted *)
(* to the ledger) and petty-cash floats, whose every movement is journaled *)
(* in the transaction that makes it.                                       *)
(*                                                                         *)
(* Reconciling a float reads its balance without locking it and later      *)
(* overwrites it with the count: ReconcileBegin, handleReconcilePettyCash.        *)
(***************************************************************************)
EXTENDS Ledger

CONSTANTS
  ExpenseIds, Categories, Users, Floats,
  Money,        \* positive amounts
  MaxPetty,     \* bound on the entries petty cash is spent on top of
  MaxBalance,   \* bound on a float's balance, either way
  NoRow

VARIABLES
  category,     \* expense_categories
  expense,      \* expenses
  float         \* petty_cash_floats.balance, NoRow before the float exists

expensesTables == <<category, expense, float>>
expensesVars == <<ledger, expensesTables>>

Mode == {"cash", "bank", "payable", "petty_cash"}
ExpenseAccount == {"operating_expense", "freight_duty_levies"} \cap Codes

----------------------------------------------------------------------------
\* Categories.

CreateCategory(c, key) ==
  /\ category[c] = NoRow
  /\ category' = [category EXCEPT ![c] = [key |-> key, status |-> "active"]]

handleCreateExpenseCategory(c, key) ==
  /\ CreateCategory(c, key)
  /\ UNCHANGED <<ledger, expense, float>>

UpdateCategory(c, key) ==
  /\ category[c] # NoRow
  /\ category' = [category EXCEPT ![c].key = key]

handleUpdateExpenseCategory(c, key) ==
  /\ UpdateCategory(c, key)
  /\ UNCHANGED <<ledger, expense, float>>

SetCategoryStatus(c, s) ==
  /\ category[c] # NoRow
  /\ category' = [category EXCEPT ![c].status = s]

handleSetExpenseCategoryStatus(c, s) ==
  /\ SetCategoryStatus(c, s)
  /\ UNCHANGED <<ledger, expense, float>>

----------------------------------------------------------------------------
\* Expenses.

\* The account is fixed when the expense is created: its own, or its
\* category's (an archived category's too), or operating_expense.
resolveAccountKey(c) ==
  IF c \in Categories /\ category[c] # NoRow THEN category[c].key ELSE "operating_expense"

CreateExpense(u, x, c, amount, mode, d) ==
  /\ expense[x] = NoRow
  /\ c \in Categories => category[c] # NoRow
  /\ expense' = [expense EXCEPT ![x] =
       [status |-> "draft", creator |-> u, approver |-> NoRow, amount |-> amount,
        key |-> resolveAccountKey(c), mode |-> mode, date |-> d]]

handleCreateExpense(u, x, c, amount, mode, d) ==
  /\ CreateExpense(u, x, c, amount, mode, d)
  /\ UNCHANGED <<ledger, category, float>>

expenseTransition(x, row) ==
  /\ expense' = [expense EXCEPT ![x] = row]
  /\ UNCHANGED <<ledger, category, float>>

SubmitExpense(x) ==
  /\ expense[x] # NoRow /\ expense[x].status = "draft"
  /\ expenseTransition(x, [expense[x] EXCEPT !.status = "submitted"])

ApproveExpense(u, x) ==
  /\ expense[x] # NoRow /\ expense[x].status = "submitted"
  /\ expense[x].creator # u
  /\ expenseTransition(x, [expense[x] EXCEPT !.status = "approved", !.approver = u])

paymentModeAccount(mode) ==
  CASE mode = "bank"       -> "bank"
    [] mode = "payable"    -> "accounts_payable"
    [] mode = "petty_cash" -> "petty_cash"
    [] OTHER               -> "cash_on_hand"

\* Mutant: the update does not look at the status.
MarkExpensePostedAnyway(x) ==
  /\ expense[x] # NoRow /\ expense[x].status \in {"approved", "posted"}
  /\ expense' = [expense EXCEPT ![x].status = "posted"]

MarkExpensePosted(x) ==
  /\ expense[x] # NoRow /\ expense[x].status = "approved"
  /\ expense' = [expense EXCEPT ![x].status = "posted"]

\* The expense is read through the pool and its status only guards the last
\* update of the transaction.
handlePostExpense(r, x) ==
  /\ MarkExpensePosted(x)
  /\ Post(r, <<"expense", x>>, expense[x].date,
          Move(expense[x].key, paymentModeAccount(expense[x].mode), expense[x].amount))
  /\ UNCHANGED <<category, float>>

----------------------------------------------------------------------------
\* Petty cash.

CreateFloat(f) ==
  /\ float[f] = NoRow
  /\ float' = [float EXCEPT ![f] = 0]

handleCreatePettyCashFloat(f) ==
  /\ CreateFloat(f)
  /\ UNCHANGED <<ledger, category, expense>>

TxnType == {"topup", "reimbursement", "adjustment", "spend", "transfer"}
increases(t) == t \in {"topup", "reimbursement", "adjustment"}

\* A float is created active and no statement of the program changes its
\* status, so the check of the status after the lock never refuses.
RecordTransaction(f, t, amount, overdraw) ==
  LET after == float[f] + (IF increases(t) THEN amount ELSE -amount) IN
  /\ float[f] # NoRow
  /\ after >= 0 \/ overdraw
  /\ after \in -MaxBalance..MaxBalance
  /\ float' = [float EXCEPT ![f] = after]

PettyLines(t, amount) ==
  CASE t \in {"topup", "reimbursement"} -> Move("petty_cash", "bank", amount)
    [] t = "spend"      -> Move("operating_expense", "petty_cash", amount)
    [] t = "adjustment" -> Move("petty_cash", "cash_over_short", amount)
    [] t = "transfer"   -> Move("bank", "petty_cash", amount)

handlePettyCashTransaction(r, f, t, amount, overdraw, d) ==
  /\ RecordTransaction(f, t, amount, overdraw)
  /\ Post(r, <<"petty_cash", f>>, d, PettyLines(t, amount))
  /\ UNCHANGED <<category, expense>>

\* ReconcileFloat's read of the balance, which is not locked.
ReconcileBegin(r, f, d) ==
  /\ float[f] # NoRow
  /\ Begin(r, [at |-> "count", float |-> f, date |-> d, expected |-> float[f]])
  /\ UNCHANGED <<chart, period, entry, expensesTables>>

CountLines(expected, counted) ==
  IF counted < expected THEN Move("cash_over_short", "petty_cash", expected - counted)
                        ELSE Move("petty_cash", "cash_over_short", counted - expected)

ReconcileFloat(f, counted) == float' = [float EXCEPT ![f] = counted]

\* A count that agrees with the balance read posts nothing.
handleReconcilePettyCash(r, counted) ==
  /\ req[r].at = "count"
  /\ ReconcileFloat(req[r].float, counted)
  /\ IF counted = req[r].expected THEN UNCHANGED entry
     ELSE LET lines == CountLines(req[r].expected, counted) IN
          /\ resolvePostingPeriod(req[r].date, FALSE)
          /\ \A c \in DOMAIN lines : resolveSystemAccount(c)
          /\ PostEntry(<<"petty_cash_reconciliation", req[r].float>>, req[r].date, lines, 0)
  /\ End(r)
  /\ UNCHANGED <<chart, period, category, expense>>

----------------------------------------------------------------------------
ExpensesInit ==
  /\ category = [c \in Categories |-> NoRow]
  /\ expense = [x \in ExpenseIds |-> NoRow]
  /\ float = [f \in Floats |-> NoRow]

ExpensesNext ==
  \/ \E c \in Categories, key \in ExpenseAccount :
       handleCreateExpenseCategory(c, key) \/ handleUpdateExpenseCategory(c, key)
  \/ \E c \in Categories, s \in {"active", "archived"} : handleSetExpenseCategoryStatus(c, s)
  \/ \E u \in Users, x \in ExpenseIds, c \in Categories \cup {NoRow}, amount \in Money, mode \in Mode, d \in Dates :
       handleCreateExpense(u, x, c, amount, mode, d)
  \/ \E x \in ExpenseIds : SubmitExpense(x)
  \/ \E u \in Users, x \in ExpenseIds : ApproveExpense(u, x)
  \/ \E r \in Requests, x \in ExpenseIds : handlePostExpense(r, x)

PettyNext ==
  \/ \E f \in Floats : handleCreatePettyCashFloat(f)
  \/ \E r \in Requests, f \in Floats, t \in TxnType, amount \in Money, overdraw \in BOOLEAN :
       Len(entry) < MaxPetty /\ handlePettyCashTransaction(r, f, t, amount, overdraw, 1)
  \/ \E r \in Requests, f \in Floats : ReconcileBegin(r, f, 1)
  \/ \E r \in Requests, counted \in Money \cup {0} : handleReconcilePettyCash(r, counted)

(* An expense reaches the ledger exactly when it is posted and then by one  *)
(* entry, however many posting requests race; the one who approved it is    *)
(* not the one who created it.                                              *)
ExpensePostedOnce ==
  \A x \in ExpenseIds :
    LET mine == {i \in DOMAIN entry : entry[i].src = <<"expense", x>>} IN
    IF expense[x] = NoRow \/ expense[x].status # "posted" THEN mine = {}
    ELSE Cardinality(mine) = 1 /\ expense[x].approver \notin {NoRow, expense[x].creator}

(* handlePettyCashTransaction: "the float can never drift from the GL", so  *)
(* the floats hold what the petty-cash entries put there.  TLC refutes it:  *)
(* a reconciliation overwrites a balance it read without a lock.            *)
FloatMatchesLedger ==
  LET mine == {i \in DOMAIN entry : entry[i].src[1] \in {"petty_cash", "petty_cash_reconciliation"}}
      held == {f \in Floats : float[f] # NoRow}
  IN SumFunction([f \in held |-> float[f]]) = Net("petty_cash", mine)

=============================================================================
