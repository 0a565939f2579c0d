------------------------------- MODULE Credit -------------------------------
(***************************************************************************)
(* A customer's credit: the receivable entries charged by credit tenders,  *)
(* the fuel authorizations that reserve credit before the sale, the holds, *)
(* limits and cards that refuse them, and the alerts raised over them.     *)
(*                                                                         *)
(* An authorization locks the customer row, and decides on what it reads   *)
(* under the lock (AuthorizeLock); the reservation and the expiries appear *)
(* when it commits (handleRequestAuthorization).  A charge first inserts   *)
(* its payment, whose foreign key takes a share of the customer row; it    *)
(* then locks the row and sums the account in one statement, on a snapshot *)
(* taken before it waits for the lock (ChargeSnapshot, ChargeCommit).  Two *)
(* charges that share the row wait for one another, and the database ends  *)
(* one of them (Rollback).                                                 *)
(***************************************************************************)
EXTENDS Invoicing

CONSTANTS
  Authorizations, Cards,
  Sales,        \* sales recognized
  SaleIds,      \* sale ids a request may name
  CardStatuses, \* statuses a card is moved to
  Warnings,     \* warning thresholds, in percent
  Keys,         \* idempotency keys of payment requests
  Tenders,      \* tender types but credit
  MaxAR,        \* bound on a customer's receivable entries
  MaxLimits,    \* bound on the fuel limits
  MaxAlerts     \* bound on the alerts of a customer

VARIABLES
  profile,      \* customer_credit_profiles
  card,         \* fuel_credentials
  fuelLimit,    \* fuel_limits, as a set of [customer, period, max]; "window" is a day, week or month
  auth,         \* fuel_authorizations
  ar,           \* ar_entries
  payment,      \* payments recorded with an idempotency key
  alert         \* customer_credit_alerts of type over_limit: their statuses, oldest first

creditTables == <<profile, card, fuelLimit, auth, ar, payment, alert>>

----------------------------------------------------------------------------
\* The credit position.

Balance(c) == SumFunction([i \in {j \in DOMAIN ar : ar[j].customer = c} |-> ar[i].amount])
Approved(c) == {a \in Authorizations : auth[a] # Missing /\ auth[a].customer = c /\ auth[a].status = "approved"}
Reserved(A) == SumFunction([a \in A |-> auth[a].amount])
ProfileHold(c) == profile[c] # Missing /\ profile[c].hold
Holding(c, flag) == flag \/ customer[c].status \in {"on_hold", "suspended"}

\* An expired reservation no longer counts, swept or not.
Exposure(c) == Balance(c) + Reserved({a \in Approved(c) : ~auth[a].lapsed})

\* What is past due is reported beside it and decides nothing.
CreditPosition(c) ==
  [available |-> customer[c].limit - Exposure(c), hold |-> Holding(c, ProfileHold(c)),
   over |-> Exposure(c) > customer[c].limit,
   warning |-> customer[c].limit > 0
                 /\ Exposure(c) * 100 >= customer[c].limit * IF profile[c] = Missing THEN 80 ELSE profile[c].warn]

\* An existing hold is left alone.
UpsertCreditProfile(c, warn) ==
  /\ customer[c] # Missing /\ (profile[c] = Missing => CustomerFree(c))
  /\ profile' = [profile EXCEPT ![c] = [hold |-> ProfileHold(c), warn |-> warn]]

handleUpsertCreditProfile(c, warn) ==
  /\ UpsertCreditProfile(c, warn)
  /\ UNCHANGED <<ledger, invoicingTables, card, fuelLimit, auth, ar, payment, alert>>

SetHold(c, h) ==
  /\ customer[c] # Missing /\ (profile[c] = Missing => CustomerFree(c))
  /\ profile' = [profile EXCEPT ![c] = [hold |-> h, warn |-> IF @ = Missing THEN 80 ELSE @.warn]]

handleSetCreditHold(c, h) ==
  /\ SetHold(c, h)
  /\ UNCHANGED <<ledger, invoicingTables, card, fuelLimit, auth, ar, payment, alert>>

----------------------------------------------------------------------------
\* Cards and limits.

IssueCredential(k, c) ==
  /\ customer[c] # Missing /\ card[k] = Missing /\ CustomerFree(c)
  /\ card' = [card EXCEPT ![k] = [customer |-> c, status |-> "active"]]

handleIssueCredential(k, c) ==
  /\ IssueCredential(k, c)
  /\ UNCHANGED <<ledger, invoicingTables, profile, fuelLimit, auth, ar, payment, alert>>

\* From any status to any status.
SetCredentialStatus(k, status) ==
  /\ card[k] # Missing
  /\ card' = [card EXCEPT ![k].status = status]

handleSetCredentialStatus(k, status) ==
  /\ SetCredentialStatus(k, status)
  /\ UNCHANGED <<ledger, invoicingTables, profile, fuelLimit, auth, ar, payment, alert>>

CreateLimit(c, p, max) ==
  /\ c # Missing => customer[c] # Missing /\ CustomerFree(c)
  /\ Cardinality(fuelLimit) < MaxLimits
  /\ fuelLimit' = fuelLimit \cup {[customer |-> c, period |-> p, max |-> max]}

handleCreateFuelLimit(c, p, max) ==
  /\ CreateLimit(c, p, max)
  /\ UNCHANGED <<ledger, invoicingTables, profile, card, auth, ar, payment, alert>>

----------------------------------------------------------------------------
\* Fuel authorizations.

Used(c) ==
  Reserved({a \in Authorizations : auth[a] # Missing /\ auth[a].customer = c /\ auth[a].thisPeriod
                                     /\ auth[a].status \in {"approved", "fulfilled"}})

Exceeds(l, c, amount) ==
  /\ l.customer \in {c, Missing}
  /\ l.max < IF l.period = "transaction" THEN amount ELSE amount + Used(c)

\* Every rule, in the order they are tried; the first one to fail is logged.
Denial(c, k, amount) ==
  LET pos == CreditPosition(c) IN
  CASE customer[c].status \in {"suspended", "closed"}  -> "account_status"
    [] pos.hold                                        -> "account_hold"
    [] k # Missing /\ card[k].status # "active"        -> "credential_status"
    [] amount > pos.available                          -> "insufficient_credit"
    [] \E l \in fuelLimit : Exceeds(l, c, amount)      -> "fuel_limit"
    [] OTHER                                           -> "none"

\* The customer's reservations past their hour, which are expired first.
Stale(c) == {a \in Approved(c) : auth[a].lapsed}
Expire(A) == [a \in Authorizations |-> IF a \in A THEN [auth[a] EXCEPT !.status = "expired"] ELSE auth[a]]

\* The credit payments recorded and not yet committed, which share the customer row.
SharedBy(c) == {r \in Requests : req[r].at = "charge" /\ req[r].customer = c}

\* The row is locked, and everything that is decided on is read after it.
AuthorizeLock(r, c, k, amount, override) ==
  /\ CustomerFree(c) /\ SharedBy(c) = {}
  /\ customer[c] # Missing /\ (k # Missing => card[k] # Missing)
  /\ override \/ Denial(c, k, amount) = "none"
  /\ Begin(r, [at |-> "authorize", customer |-> c, amount |-> amount, override |-> override, stale |-> Stale(c)])
  /\ UNCHANGED <<chart, period, entry, invoicingTables, creditTables>>

RequestAuthorization(q, a) ==
  /\ auth[a] = Missing
  /\ auth' = [Expire(q.stale) EXCEPT ![a] =
       [customer |-> q.customer, amount |-> q.amount, status |-> "approved", override |-> q.override,
        lapsed |-> FALSE, thisPeriod |-> TRUE, sale |-> Missing]]

handleRequestAuthorization(r, a) ==
  /\ req[r].at = "authorize"
  /\ RequestAuthorization(req[r], a)
  /\ End(r)
  /\ UNCHANGED <<chart, period, entry, invoicingTables, profile, card, fuelLimit, ar, payment, alert>>

\* A denial is committed (its log is never read back), and with it the expiries.
DenyAuthorization(c, k, amount) ==
  /\ CustomerFree(c) /\ SharedBy(c) = {}
  /\ customer[c] # Missing /\ (k # Missing => card[k] # Missing)
  /\ Denial(c, k, amount) # "none"
  /\ auth' = Expire(Stale(c))
  /\ UNCHANGED <<ledger, invoicingTables, profile, card, fuelLimit, ar, payment, alert>>

\* No authorization under way has expired a: its row is not locked.
AuthorizationFree(a) == \A r \in Requests : req[r].at = "authorize" => a \notin req[r].stale

\* uq_fuel_auth_consumed: a sale consumes one authorization.
FulfillAuthorization(a, s) ==
  /\ s \in Sales
  /\ auth[a] # Missing /\ auth[a].status = "approved" /\ auth[a].sale = Missing /\ AuthorizationFree(a)
  /\ \A b \in Authorizations : auth[b] # Missing => auth[b].sale # s
  /\ auth' = [auth EXCEPT ![a].status = "fulfilled", ![a].sale = s]

handleFulfillAuthorization(a, s) ==
  /\ FulfillAuthorization(a, s)
  /\ UNCHANGED <<ledger, invoicingTables, profile, card, fuelLimit, ar, payment, alert>>

SetAuthorizationStatus(a, to) ==
  /\ auth[a] # Missing /\ AuthorizationFree(a)
  /\ auth[a].status \in IF to = "cancelled" THEN {"requested", "approved"} ELSE {"approved", "fulfilled"}
  /\ auth' = [auth EXCEPT ![a].status = to, ![a].sale = IF to = "voided" THEN Missing ELSE @]

handleAuthorizationStatus(a, to) ==
  /\ SetAuthorizationStatus(a, to)
  /\ UNCHANGED <<ledger, invoicingTables, profile, card, fuelLimit, ar, payment, alert>>

\* An hour passes over a reservation, or its day, week or month ends.
Lapse(a) ==
  /\ auth[a] # Missing /\ (~auth[a].lapsed \/ auth[a].thisPeriod)
  /\ auth' = [auth EXCEPT ![a].lapsed = TRUE, ![a].thisPeriod = ~auth[a].lapsed]
  /\ UNCHANGED <<ledger, invoicingTables, profile, card, fuelLimit, ar, payment, alert>>

----------------------------------------------------------------------------
\* Charges and payments on the account.

\* Mutant: the key is not kept with the payment.
KeyNotKept(key) == \A r \in Requests : req[r].at = "charge" => req[r].key # key

\* payments.Record: uq_payments_tenant_idempotency_key makes a second request
\* with the key wait for the first one's outcome.
KeyFree(key) ==
  payment[key] = Missing /\ \A r \in Requests : req[r].at = "charge" => req[r].key # key

Record(key, tender, amount) ==
  /\ KeyFree(key)
  /\ payment' = [payment EXCEPT ![key] = [tender |-> tender, amount |-> amount, customer |-> Missing]]

handleRecordPayment(key, tender, amount) ==
  /\ Record(key, tender, amount)
  /\ UNCHANGED <<ledger, invoicingTables, profile, card, fuelLimit, auth, ar, alert>>

\* A request whose key has been used gets the first one's payment and changes nothing.
ReplayPayment(key) ==
  /\ payment[key] # Missing
  /\ UNCHANGED <<ledger, invoicingTables, creditTables>>

\* The payment is recorded and PostCharge's statement begins: it will sum what
\* is committed now.
ChargeSnapshot(r, key, c, amount, over) ==
  /\ KeyFree(key) /\ customer[c] # Missing /\ CustomerFree(c)
  /\ Begin(r, [at |-> "charge", key |-> key, customer |-> c, amount |-> amount, over |-> over,
               hold |-> ProfileHold(c), exposure |-> Balance(c) + Reserved(Approved(c))])
  /\ UNCHANGED <<chart, period, entry, invoicingTables, creditTables>>

\* The row lock is held: the limit and the status are the latest.
PostCharge(q) ==
  /\ ~Holding(q.customer, q.hold)
  /\ q.over \/ q.exposure + q.amount <= customer[q.customer].limit
  /\ Len(ar) < MaxAR
  /\ ar' = Append(ar, [customer |-> q.customer, amount |-> q.amount, key |-> q.key])

\* Without a period the charge stands unjournaled.  A missing account ends PostEntry
\* after the header, and nothing is rolled back: without accounts_receivable the
\* entry has no lines; without sales_clearing it has one, and the trigger
\* journal_lines_balanced refuses the commit.
postCreditChargeJournal(key, d, amount) ==
  LET lines == IF resolveSystemAccount("accounts_receivable")
               THEN Move("accounts_receivable", "sales_clearing", amount) ELSE << >>
  IN /\ period[d] # "locked"
     /\ IF period[d] = "none" THEN UNCHANGED entry
        ELSE /\ \A c \in DOMAIN lines : resolveSystemAccount(c)
             /\ PostEntry(<<"ar_charge", key>>, d, lines, 0)

\* The row is locked once nobody else shares it.
ChargeCommit(r, d) ==
  /\ req[r].at = "charge" /\ SharedBy(req[r].customer) = {r}
  /\ PostCharge(req[r])
  /\ payment' = [payment EXCEPT ![req[r].key] =
       [tender |-> "credit", amount |-> req[r].amount, customer |-> req[r].customer]]
  /\ postCreditChargeJournal(req[r].key, d, req[r].amount)
  /\ End(r)
  /\ UNCHANGED <<chart, period, invoicingTables, profile, card, fuelLimit, auth, alert>>

PostPayment(c, amount) ==
  /\ customer[c] # Missing /\ CustomerFree(c) /\ Len(ar) < MaxAR
  /\ ar' = Append(ar, [customer |-> c, amount |-> -amount, key |-> Missing])

handleRecordCustomerPayment(c, amount) ==
  /\ PostPayment(c, amount)
  /\ UNCHANGED <<ledger, invoicingTables, profile, card, fuelLimit, auth, payment, alert>>

----------------------------------------------------------------------------
\* Alerts.

Active == {"open", "acknowledged"}
HasActive(c) == \E i \in DOMAIN alert[c] : alert[c][i] \in Active

\* Overdue alerts, raised by the same rule over past-due invoices, are left out.
\* Unlike CreditPosition, the scan counts expired reservations not yet swept.
OverLimit(c) ==
  customer[c] # Missing /\ customer[c].limit > 0 /\ Balance(c) + Reserved(Approved(c)) > customer[c].limit

ScanCreditAlerts ==
  /\ \A c \in Customers : Len(alert[c]) < MaxAlerts
  /\ \A c \in Customers : OverLimit(c) /\ ~HasActive(c) => CustomerFree(c)
  /\ alert' = [c \in Customers |->
       IF OverLimit(c) /\ ~HasActive(c) THEN Append(alert[c], "open") ELSE alert[c]]

handleScanCreditAlerts ==
  /\ ScanCreditAlerts
  /\ UNCHANGED <<ledger, invoicingTables, profile, card, fuelLimit, auth, ar, payment>>

\* From any status; uq_credit_alert_open refuses a second active alert.
TransitionAlert(c, i, to) ==
  /\ to \in Active => \A j \in DOMAIN alert[c] \ {i} : alert[c][j] \notin Active
  /\ alert' = [alert EXCEPT ![c][i] = to]

handleTransitionCreditAlert(c, i, to) ==
  /\ TransitionAlert(c, i, to)
  /\ UNCHANGED <<ledger, invoicingTables, profile, card, fuelLimit, auth, ar, payment>>

----------------------------------------------------------------------------
CreditInit ==
  /\ profile = [c \in Customers |-> Missing]
  /\ card = [k \in Cards |-> Missing]
  /\ fuelLimit = {}
  /\ auth = [a \in Authorizations |-> Missing]
  /\ ar = <<>>
  /\ payment = [k \in Keys |-> Missing]
  /\ alert = [c \in Customers |-> <<>>]

AuthorizeNext ==
  \/ \E r \in Requests, c \in Customers, k \in Cards \cup {Missing}, amount \in Sums, override \in BOOLEAN :
       AuthorizeLock(r, c, k, amount, override)
  \/ \E r \in Requests, a \in Authorizations : handleRequestAuthorization(r, a)
  \/ \E a \in Authorizations : \E s \in SaleIds : handleFulfillAuthorization(a, s)
  \/ \E a \in Authorizations, to \in {"cancelled", "voided"} : handleAuthorizationStatus(a, to)

LapseNext ==
  \/ \E c \in Customers, k \in Cards \cup {Missing}, amount \in Sums : DenyAuthorization(c, k, amount)
  \/ \E a \in Authorizations : Lapse(a)

ProfileNext ==
  \/ \E c \in Customers, h \in BOOLEAN : handleSetCreditHold(c, h)
  \/ \E c \in Customers, warn \in Warnings : handleUpsertCreditProfile(c, warn)

ChargeNext ==
  \/ \E r \in Requests, key \in Keys, c \in Customers, amount \in Sums, over \in BOOLEAN :
       ChargeSnapshot(r, key, c, amount, over)
  \/ \E r \in Requests, d \in Dates : ChargeCommit(r, d)
  \/ \E key \in Keys, tender \in Tenders, amount \in Sums : handleRecordPayment(key, tender, amount)
  \/ \E key \in Keys : ReplayPayment(key)
  \/ \E c \in Customers, amount \in Sums : handleRecordCustomerPayment(c, amount)
  \/ \E r \in Requests, c \in Customers, amount \in Sums : AuthorizeLock(r, c, Missing, amount, FALSE)
  \/ \E r \in Requests, a \in Authorizations : handleRequestAuthorization(r, a)

CardNext ==
  \/ \E k \in Cards, c \in Customers : handleIssueCredential(k, c)
  \/ \E k \in Cards, s \in CardStatuses : handleSetCredentialStatus(k, s)
  \/ \E c \in Customers \cup {Missing}, p \in {"transaction", "window"}, max \in Sums : handleCreateFuelLimit(c, p, max)

AlertNext ==
  \/ handleScanCreditAlerts
  \/ \E c \in Customers, to \in {"acknowledged", "resolved", "dismissed"} :
       \E i \in DOMAIN alert[c] : handleTransitionCreditAlert(c, i, to)

(* PostCharge: charges and authorizations on a customer "are serialized and *)
(* cannot race past the limit".  The step that commits an authorization     *)
(* without an override, or a charge not allowed over the limit, leaves what *)
(* the customer owes and has reserved within the limit of that moment: what *)
(* either was decided on is as good at its commit as it was when it was     *)
(* read, however charges, payments, authorizations, cancellations and       *)
(* changes of the limit are committed in between.                           *)
CreditWithinLimit ==
  [][\A r \in Requests, c \in Customers :
       req[r] # Idle /\ req'[r] = Idle =>
         /\ req[r].at = "authorize" /\ req[r].customer = c /\ ~req[r].override /\ auth' # auth
              => Exposure(c)' <= customer[c].limit
         /\ req[r].at = "charge" /\ req[r].customer = c /\ ~req[r].over /\ ar' # ar
              => (Balance(c) + Reserved(Approved(c)))' <= customer[c].limit]_<<creditTables, req>>

(* A retried credit payment charges once: every charge on the account is    *)
(* the charge of the one payment with its key, for its amount, and at most  *)
(* one journal entry carries it.                                            *)
ChargedOnce ==
  /\ \A i \in DOMAIN ar : ar[i].key # Missing =>
       payment[ar[i].key] = [tender |-> "credit", amount |-> ar[i].amount, customer |-> ar[i].customer]
  /\ \A key \in Keys :
       LET mine == {i \in DOMAIN ar : ar[i].key = key}
           gl   == {i \in DOMAIN entry : entry[i].src = <<"ar_charge", key>>}
       IN /\ Cardinality(mine) <= 1 /\ Cardinality(gl) <= Cardinality(mine)
          /\ (payment[key] # Missing /\ payment[key].tender = "credit") <=> (mine # {})

=============================================================================
