------------------------------- MODULE Ledger -------------------------------
(***************************************************************************)
(* The general ledger every money-moving handler posts into: the chart of  *)
(* accounts, the accounting periods, the journal and its reversals, and    *)
(* the statements read from it.                                            *)
(*                                                                         *)
(* A posting transaction is two steps.  PostEntry reads the status of the  *)
(* period without locking it (Resolve); the entry and the document it      *)
(* belongs to become visible together when the transaction commits, and    *)
(* the document modules describe that step with Post.  A reversal reads    *)
(* the original without locking it (BeginReverse) and commits later.       *)
(*                                                                         *)
(* The lines of an entry are kept as the net debit of each account.  One   *)
(* period covers each date.                                                *)
(***************************************************************************)
EXTENDS Integers, Sequences, FiniteSets, Functions

CONSTANTS
  Dates,        \* dates; the period of a date is named by the date
  Codes,        \* account codes in use; a default account is named by its system key
  Requests,     \* concurrent transactions that post or reverse
  MaxEntries,   \* bound on the journal
  NoAccount

ASSUME LedgerAssumption ==
  /\ Dates \subseteq Nat /\ IsFiniteSet(Dates)
  /\ MaxEntries \in Nat

VARIABLES
  chart,        \* accounts, by code
  period,       \* accounting_periods.status, by date
  entry,        \* journal_entries with their journal_lines, by entry number
  req           \* each transaction: what it has read

ledger == <<chart, period, entry, req>>

\* defaultChart: the system accounts and their types.
DefaultType ==
  [cash_on_hand |-> "asset", petty_cash |-> "asset", bank_clearing |-> "asset", bank |-> "asset",
   accounts_receivable |-> "asset", inventory |-> "asset",
   accounts_payable |-> "liability", sales_clearing |-> "liability",
   customer_credits |-> "liability", output_vat |-> "liability",
   retained_earnings |-> "equity", sales_revenue |-> "income", discounts |-> "contra_income",
   cogs |-> "expense", fuel_purchases |-> "expense", freight_duty_levies |-> "expense",
   operating_expense |-> "expense", cash_over_short |-> "expense"]

SystemAccount(c) == [sys |-> TRUE, type |-> DefaultType[c], status |-> "active"]
Seeded == [c \in Codes |-> IF c \in DOMAIN DefaultType THEN SystemAccount(c) ELSE NoAccount]

Unseeded == [c \in Codes |-> NoAccount]

Idle == [at |-> "idle"]
Begin(r, rec) == req[r] = Idle /\ req' = [req EXCEPT ![r] = rec]
End(r)        == req' = [req EXCEPT ![r] = Idle]

----------------------------------------------------------------------------
\* Chart of accounts.

\* A default account whose code a tenant account already uses is left out.
SeedDefaultChart ==
  /\ chart' = [c \in Codes |-> IF chart[c] = NoAccount THEN Seeded[c] ELSE chart[c]]

handleSeedDefaultChart ==
  /\ SeedDefaultChart
  /\ UNCHANGED <<period, entry, req>>

CreateAccount(c, t) ==
  /\ chart[c] = NoAccount
  /\ chart' = [chart EXCEPT ![c] = [sys |-> FALSE, type |-> t, status |-> "active"]]

handleCreateAccount(c, t) ==
  /\ CreateAccount(c, t)
  /\ UNCHANGED <<period, entry, req>>

AccountHasPostings(c) == \E i \in DOMAIN entry : c \in DOMAIN entry[i].lines

\* The postings are counted through the pool, before the transaction.
UpdateAccountCheck(r, c) ==
  /\ chart[c] # NoAccount /\ ~AccountHasPostings(c)
  /\ Begin(r, [at |-> "deactivate", code |-> c])
  /\ UNCHANGED <<chart, period, entry>>

Deactivate(r) ==
  /\ req[r].at = "deactivate"
  /\ chart' = [chart EXCEPT ![req[r].code].status = "inactive"]
  /\ End(r)
  /\ UNCHANGED <<period, entry>>

Activate(c) ==
  /\ chart[c] # NoAccount
  /\ chart' = [chart EXCEPT ![c].status = "active"]
  /\ UNCHANGED <<period, entry, req>>

resolveSystemAccount(key) ==
  key \in Codes /\ chart[key] # NoAccount /\ chart[key].sys /\ chart[key].status = "active"

----------------------------------------------------------------------------
\* Periods.

CreatePeriod(d) ==
  /\ period[d] = "none"
  /\ period' = [period EXCEPT ![d] = "open"]

handleCreatePeriod(d) ==
  /\ CreatePeriod(d)
  /\ UNCHANGED <<chart, entry, req>>

transition(d, from, to) ==
  /\ period[d] = from
  /\ period' = [period EXCEPT ![d] = to]
  /\ UNCHANGED <<chart, entry, req>>

resolvePostingPeriod(d, allowClosed) ==
  period[d] \in {"open", "closing"} \cup (IF allowClosed THEN {"closed"} ELSE {})

----------------------------------------------------------------------------
\* The journal.

Move(dr, cr, amount) == [c \in {dr, cr} |-> IF c = dr THEN amount ELSE -amount]

Balanced(lines) == SumFunction(lines) = 0 /\ \E c \in DOMAIN lines : lines[c] > 0

\* PostEntry's first statement: the period of the date admits the posting.
Resolve(r, d, allowClosed) ==
  /\ resolvePostingPeriod(d, allowClosed)
  /\ Begin(r, [at |-> "post", date |-> d, adjusting |-> allowClosed])
  /\ UNCHANGED <<chart, period, entry>>

Resolved(r, d) == req[r].at = "post" /\ req[r].date = d /\ ~req[r].adjusting

\* The rest of PostEntry, at the commit of transaction r.
PostEntry(src, d, lines, reverses) ==
  /\ Len(entry) < MaxEntries
  /\ entry' = Append(entry, [src |-> src, date |-> d, lines |-> lines, status |-> "posted",
                             reverses |-> reverses, reversedBy |-> 0])

Post(r, src, d, lines) ==
  /\ Resolved(r, d)
  /\ \A c \in DOMAIN lines : resolveSystemAccount(c)
  /\ Balanced(lines)
  /\ PostEntry(src, d, lines, 0)
  /\ End(r)
  /\ UNCHANGED <<chart, period>>

EntryExistsForSource(src) == \E i \in DOMAIN entry : entry[i].src = src

\* An adjustment names accounts by id, so an inactive account is admitted.
handlePostAdjustment(r, lines) ==
  /\ req[r].at = "post" /\ req[r].adjusting
  /\ \A c \in DOMAIN lines : chart[c] # NoAccount
  /\ Balanced(lines)
  /\ PostEntry(<<"adjustment", 0>>, req[r].date, lines, 0)
  /\ End(r)
  /\ UNCHANGED <<chart, period>>

BeginReverse(r, i) ==
  /\ entry[i].status = "posted"
  /\ resolvePostingPeriod(entry[i].date, TRUE)
  /\ Begin(r, [at |-> "reverse", entry |-> i])
  /\ UNCHANGED <<chart, period, entry>>

\* Mutant: without the trigger, the status read before the transaction decides.
MayReverseAgain(i) == i \in DOMAIN entry

\* journal_entries_immutable: a posted entry may only become reversed, once.
MayReverse(i) == entry[i].status = "posted" /\ entry[i].reversedBy = 0

ReverseEntry(r, i) ==
  /\ req[r].at = "reverse" /\ req[r].entry = i
  /\ MayReverse(i)
  /\ Len(entry) < MaxEntries
  /\ entry' = Append([entry EXCEPT ![i].status = "reversed", ![i].reversedBy = Len(entry) + 1],
                     [src |-> <<"reversal", i>>, date |-> entry[i].date,
                      lines |-> [c \in DOMAIN entry[i].lines |-> -entry[i].lines[c]],
                      status |-> "posted", reverses |-> i, reversedBy |-> 0])
  /\ End(r)
  /\ UNCHANGED <<chart, period>>

\* The two ends of the transaction that reverses an entry by hand.
handleReverseJournalEntry(r, i) == BeginReverse(r, i) \/ ReverseEntry(r, i)

Rollback(r) == req[r] # Idle /\ End(r) /\ UNCHANGED <<chart, period, entry>>

----------------------------------------------------------------------------
\* Statements.

Dated(from, to) == {i \in DOMAIN entry : from <= entry[i].date /\ entry[i].date <= to}
Net(c, I) ==
  SumFunction([i \in {j \in I : c \in DOMAIN entry[j].lines} |-> entry[i].lines[c]])
OfType(T, I) ==
  SumFunction([i \in I |-> SumFunction(Restrict(entry[i].lines, {c \in DOMAIN entry[i].lines : chart[c].type \in T}))])

\* The date only restricts the join with journal_entries, not the lines summed.
TrialBalance(c, asOf) == Net(c, DOMAIN entry)

IncomeStatement(from, to) ==
  -OfType({"income", "contra_income"}, Dated(from, to)) - OfType({"expense"}, Dated(from, to))

\* Mutant: the result leaves the expenses out.
BalanceSheetNoExpense(asOf) ==
  LET I == Dated(0, asOf) IN
  [assets      |-> OfType({"asset", "contra_asset"}, I),
   liabilities |-> -OfType({"liability"}, I),
   retained    |-> -OfType({"equity"}, I),
   net_income  |-> -OfType({"income", "contra_income"}, I)]

BalanceSheet(asOf) ==
  LET I == Dated(0, asOf) IN
  [assets      |-> OfType({"asset", "contra_asset"}, I),
   liabilities |-> -OfType({"liability"}, I),
   retained    |-> -OfType({"equity"}, I),
   net_income  |-> -OfType({"income", "contra_income"}, I) - OfType({"expense"}, I)]

BalancedSheet(b) == b.assets = b.liabilities + b.retained + b.net_income

----------------------------------------------------------------------------
LedgerInit ==
  /\ period = [d \in Dates |-> "none"]
  /\ entry = <<>>
  /\ req = [r \in Requests |-> Idle]

(* The accounting equation: at every date the balance sheet reports itself  *)
(* balanced, the result it carries is the income statement's, and the       *)
(* columns of the trial balance add up to the same sum.                     *)
BooksBalance ==
  \A d \in Dates :
    /\ BalancedSheet(BalanceSheet(d))
    /\ BalanceSheet(d).net_income = IncomeStatement(0, d)
    /\ SumFunction([c \in Codes |-> TrialBalance(c, d)]) = 0

(* However requests race, an entry is reversed at most once, by the exact   *)
(* opposite of its lines, and the two rows name each other.                 *)
ReversedOnce ==
  \A i \in DOMAIN entry :
    LET back == {j \in DOMAIN entry : entry[j].reverses = i} IN
    /\ Cardinality(back) <= 1
    /\ (entry[i].status = "reversed") <=> (back # {})
    /\ \A j \in back :
         /\ entry[i].reversedBy = j
         /\ \A c \in DOMAIN entry[i].lines : entry[i].lines[c] + entry[j].lines[c] = 0

=============================================================================
