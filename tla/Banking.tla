------------------------------- MODULE Banking -------------------------------
(***************************************************************************)
(* Station cash on its way to the bank: the reconciliation of a day's      *)
(* counted cash, the deposits made from it (cash to bank clearing when     *)
(* prepared, clearing to bank when confirmed), and the bank statements the *)
(* deposits are matched with.                                              *)
(*                                                                         *)
(* A reconciliation is approved on figures read before its row is locked   *)
(* (ApproveBegin); the lock only re-reads who created it.                  *)
(***************************************************************************)
EXTENDS Ledger

CONSTANTS
  Days,         \* operating days
  Clerks,       \* users
  Takings,      \* amounts of cash, 0 included
  Deposits, StatementHashes, StatementLines,
  Nothing

VARIABLES
  takings,      \* SUM of the day's recorded cash payments
  recon,        \* cash_reconciliations, by operating day
  account,      \* the bank account exists
  deposit,      \* bank_deposits
  depositLine,  \* bank_deposit_lines, by the reconciliation deposited
  imported,     \* bank_statement_imports.import_hash
  bankLine      \* bank_statement_lines

bankingTables == <<takings, recon, account, deposit, depositLine, imported, bankLine>>

----------------------------------------------------------------------------
\* Cash reconciliation.

\* A cash payment is recorded for the station and the day; of the payment
\* only what the reconciliation sums is kept.
TakeCash(d, n) ==
  /\ takings[d] + n \in Takings
  /\ takings' = [takings EXCEPT ![d] = @ + n]
  /\ UNCHANGED <<ledger, recon, account, deposit, depositLine, imported, bankLine>>

CreateCashReconciliation(u, d) ==
  /\ recon[d] = Nothing
  /\ recon' = [recon EXCEPT ![d] =
       [status |-> "draft", creator |-> u, reviewer |-> Nothing, expected |-> takings[d], counted |-> 0]]

handleCreateCashReconciliation(u, d) ==
  /\ CreateCashReconciliation(u, d)
  /\ UNCHANGED <<ledger, takings, account, deposit, depositLine, imported, bankLine>>

SubmitCashReconciliation(d, counted) ==
  /\ recon[d] # Nothing /\ recon[d].status \in {"draft", "rejected"}
  /\ recon' = [recon EXCEPT ![d].status = "submitted", ![d].counted = counted]

handleSubmitCashReconciliation(d, counted) ==
  /\ SubmitCashReconciliation(d, counted)
  /\ UNCHANGED <<ledger, takings, account, deposit, depositLine, imported, bankLine>>

PostingFor(d) == [counted |-> recon[d].counted, expected |-> recon[d].expected]

ApproveBegin(r, d) ==
  /\ recon[d] # Nothing /\ recon[d].status = "submitted"
  /\ Begin(r, [at |-> "approve", day |-> d, seen |-> PostingFor(d)])
  /\ UNCHANGED <<chart, period, entry, bankingTables>>

\* Cash in, sales clearing out, and the difference over or short.  The business
\* date of every day modelled is in the period of date 1.
ApprovalLines(p) ==
  LET over == p.counted - p.expected
      all  == [cash_on_hand |-> p.counted, sales_clearing |-> -p.expected, cash_over_short |-> -over]
  IN [c \in {k \in DOMAIN all : all[k] # 0} |-> all[c]]

\* Mutant: the update does not look at the status.
MarkCashReconciliationPostedAnyway(u, d) ==
  recon' = [recon EXCEPT ![d].status = "posted", ![d].reviewer = u]

MarkCashReconciliationPosted(u, d) ==
  /\ recon[d].status = "submitted"
  /\ recon' = [recon EXCEPT ![d].status = "posted", ![d].reviewer = u]

handleApproveCashReconciliation(r, u) ==
  /\ req[r].at = "approve"
  /\ LET d == req[r].day
         lines == ApprovalLines(req[r].seen)
     IN /\ recon[d].creator # u
        /\ DOMAIN lines # {}
        /\ resolvePostingPeriod(1, FALSE)
        /\ \A c \in DOMAIN lines : resolveSystemAccount(c)
        /\ Balanced(lines)
        /\ PostEntry(<<"cash_reconciliation", d>>, 1, lines, 0)
        /\ MarkCashReconciliationPosted(u, d)
  /\ End(r)
  /\ UNCHANGED <<chart, period, takings, account, deposit, depositLine, imported, bankLine>>

----------------------------------------------------------------------------
\* Deposits.

CreateBankAccount ==
  /\ account' = TRUE

handleCreateBankAccount ==
  /\ CreateBankAccount
  /\ UNCHANGED <<ledger, takings, recon, deposit, depositLine, imported, bankLine>>

\* uq_bdl_recon: a reconciliation is deposited once, whatever its status.
AddDepositLine(x, D, amount) ==
  /\ \A d \in D : recon[d] # Nothing /\ depositLine[d] = Nothing
  /\ depositLine' = [d \in Days |-> IF d \in D THEN [deposit |-> x, amount |-> amount] ELSE depositLine[d]]

CreateDeposit(x) ==
  /\ account /\ deposit[x] = Nothing
  /\ deposit' = [deposit EXCEPT ![x] = [status |-> "draft", amount |-> 0]]

handleCreateBankDeposit(x, D, amount) ==
  /\ CreateDeposit(x) /\ AddDepositLine(x, D, amount)
  /\ UNCHANGED <<ledger, takings, recon, account, imported, bankLine>>

LinesTotal(x) ==
  SumFunction([d \in {e \in Days : depositLine[e] # Nothing /\ depositLine[e].deposit = x} |-> depositLine[d].amount])

PrepareDeposit(x) ==
  /\ deposit[x] # Nothing /\ deposit[x].status = "draft"
  /\ deposit' = [deposit EXCEPT ![x] = [status |-> "prepared", amount |-> LinesTotal(x)]]

handlePrepareBankDeposit(r, x, d) ==
  /\ PrepareDeposit(x)
  /\ Post(r, <<"bank_deposit", x>>, d, Move("bank_clearing", "cash_on_hand", LinesTotal(x)))
  /\ UNCHANGED <<takings, recon, account, depositLine, imported, bankLine>>

\* Mutant: a deposit confirmed is confirmed again.
ConfirmDepositAgain(x) ==
  /\ deposit[x] # Nothing /\ deposit[x].status \in {"prepared", "in_transit", "confirmed", "posted"}
  /\ deposit' = [deposit EXCEPT ![x].status = "posted"]

ConfirmDeposit(x) ==
  /\ deposit[x] # Nothing /\ deposit[x].status \in {"prepared", "in_transit", "confirmed"}
  /\ deposit' = [deposit EXCEPT ![x].status = "posted"]

handleConfirmBankDeposit(r, x, d) ==
  /\ ConfirmDeposit(x)
  /\ Post(r, <<"bank_deposit", x>>, d, Move("bank", "bank_clearing", deposit[x].amount))
  /\ UNCHANGED <<takings, recon, account, depositLine, imported, bankLine>>

----------------------------------------------------------------------------
\* Bank statements.

ImportStatement(h, L, amount) ==
  /\ account /\ h \notin imported
  /\ \A l \in L : bankLine[l] = Nothing
  /\ imported' = imported \cup {h}
  /\ bankLine' = [l \in StatementLines |->
       IF l \in L THEN [status |-> "unmatched", amount |-> amount, doc |-> Nothing] ELSE bankLine[l]]

handleImportBankStatement(h, L, amount) ==
  /\ ImportStatement(h, L, amount)
  /\ UNCHANGED <<ledger, takings, recon, account, deposit, depositLine>>

MarkLine(l, row) ==
  /\ bankLine[l] # Nothing
  /\ bankLine' = [bankLine EXCEPT ![l] = row]
  /\ UNCHANGED <<takings, recon, account, deposit, depositLine, imported>>

\* The document named is not looked up.
MatchLine(l, x) ==
  /\ bankLine[l] # Nothing /\ bankLine[l].status \in {"unmatched", "unknown"}
  /\ MarkLine(l, [bankLine[l] EXCEPT !.status = "matched", !.doc = x])

handleMatchBankStatementLine(l, x) ==
  /\ MatchLine(l, x)
  /\ UNCHANGED ledger

\* Taking a fee back leaves its entry in the journal.
UnmatchLine(l) ==
  /\ MarkLine(l, [bankLine[l] EXCEPT !.status = "unmatched", !.doc = Nothing])

handleUnmatchBankStatementLine(l) ==
  /\ UnmatchLine(l)
  /\ UNCHANGED ledger

\* From any status, so the same line can be booked as a fee again.
handleBankFeeStatementLine(r, l, d) ==
  /\ MarkLine(l, [bankLine[l] EXCEPT !.status = "bank_fee"])
  /\ Post(r, <<"bank_fee", l>>, d, Move("operating_expense", "bank", bankLine[l].amount))

----------------------------------------------------------------------------
BankingInit ==
  /\ takings = [d \in Days |-> 0]
  /\ recon = [d \in Days |-> Nothing]
  /\ account = FALSE
  /\ deposit = [x \in Deposits |-> Nothing]
  /\ depositLine = [d \in Days |-> Nothing]
  /\ imported = {}
  /\ bankLine = [l \in StatementLines |-> Nothing]

CashNext ==
  \/ \E d \in Days, n \in Takings \ {0} : TakeCash(d, n)
  \/ \E u \in Clerks, d \in Days : handleCreateCashReconciliation(u, d)
  \/ \E d \in Days, counted \in Takings : handleSubmitCashReconciliation(d, counted)
  \/ \E r \in Requests, d \in Days : ApproveBegin(r, d)
  \/ \E r \in Requests, u \in Clerks : handleApproveCashReconciliation(r, u)

DepositNext ==
  \/ handleCreateBankAccount
  \/ \E x \in Deposits, D \in SUBSET Days \ {{}}, amount \in Takings \ {0} : handleCreateBankDeposit(x, D, amount)
  \/ \E r \in Requests, x \in Deposits, d \in Dates : handlePrepareBankDeposit(r, x, d) \/ handleConfirmBankDeposit(r, x, d)

StatementNext ==
  \/ \E h \in StatementHashes, L \in SUBSET StatementLines \ {{}}, amount \in Takings \ {0} :
       handleImportBankStatement(h, L, amount)
  \/ \E l \in StatementLines, x \in Deposits : handleMatchBankStatementLine(l, x)
  \/ \E l \in StatementLines : handleUnmatchBankStatementLine(l)
  \/ \E r \in Requests, l \in StatementLines, d \in Dates : handleBankFeeStatementLine(r, l, d)

Live(i) == entry[i].status = "posted"
EntriesOf(src) == {i \in DOMAIN entry : entry[i].src = src}

(* A reconciliation is posted once, by somebody who did not create it, and  *)
(* the entry carries the count that was submitted.                          *)
CashPostedAsCounted ==
  \A d \in Days :
    LET mine == EntriesOf(<<"cash_reconciliation", d>>) IN
    IF recon[d] = Nothing \/ recon[d].status # "posted" THEN mine = {}
    ELSE /\ Cardinality(mine) = 1
         /\ \A i \in mine : entry[i].lines = ApprovalLines(PostingFor(d))
         /\ recon[d].reviewer \notin {Nothing, recon[d].creator}

(* Bank clearing holds exactly the deposits on their way: its balance is    *)
(* the total of the deposits prepared and not yet confirmed, as long as     *)
(* nobody reverses one of their entries by hand.                            *)
ClearingIsInTransit ==
  LET mine == {i \in DOMAIN entry : entry[i].src[1] = "bank_deposit"}
      sent == {x \in Deposits : deposit[x] # Nothing /\ deposit[x].status = "prepared"}
  IN (\A i \in mine : Live(i))
       => Net("bank_clearing", mine) = SumFunction([x \in sent |-> deposit[x].amount])

=============================================================================
