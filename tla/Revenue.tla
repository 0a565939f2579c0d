------------------------------- MODULE Revenue -------------------------------
(***************************************************************************)
(* Prices, the sales recognized from an approved shift, their voids, the   *)
(* revenue day that sums them up, and the consumer of RevenueRecognized    *)
(* that journals a shift's revenue.  One station and one operating day.    *)
(*                                                                         *)
(* The event reaches the consumer at least once (module Outbox), after it  *)
(* has been acknowledged too, and two replicas may handle it at once: a    *)
(* publisher that has lost its session still hands out the batch it holds. *)
(* The consumer looks for the shift's entry (ConsumeBegin) and commits one *)
(* later; no lock and no unique index stands between the two.              *)
(***************************************************************************)
EXTENDS Ledger

CONSTANTS
  Shifts, Nozzles,      \* a nozzle stands for the product it sells
  UnitPrices, Volumes,
  Cashiers,
  Tendered,             \* amounts of a recorded payment
  MaxClock,             \* bound on the clock
  MaxPrices,            \* bound on the price changes
  MaxVoids,             \* bound on the void requests of a sale
  TaxRate,              \* percent, included in the price
  LandedCost,           \* average landed cost of a litre
  Absent

VARIABLES
  clock,
  prices,       \* price_changes, in order of creation
  sale,         \* sales, by shift and nozzle
  void,         \* sale_voids of a sale, in order of creation
  tender,       \* SUM of the day's recorded payments
  revDay,       \* the revenue_days row
  event         \* the RevenueRecognized event of a shift

revenueTables == <<clock, prices, sale, void, tender, revDay, event>>

Lot == Shifts \X Nozzles

----------------------------------------------------------------------------
\* Prices.

\* effective_from DESC, created_at DESC
ResolvePrice(n, at) ==
  LET due == {i \in DOMAIN prices : prices[i].nozzle = n /\ prices[i].from <= at} IN
  IF due = {} THEN Absent
  ELSE prices[CHOOSE i \in due : \A j \in due :
                prices[j].from < prices[i].from \/ (prices[j].from = prices[i].from /\ j <= i)].unit

SetPrice(n, unit, from, belowCost) ==
  /\ Len(prices) < MaxPrices
  /\ belowCost \/ unit >= LandedCost
  /\ prices' = Append(prices, [nozzle |-> n, unit |-> unit, from |-> from, previous |-> ResolvePrice(n, clock)])

handleSetPrice(n, unit, from, belowCost) ==
  /\ SetPrice(n, unit, from, belowCost)
  /\ UNCHANGED <<ledger, clock, sale, void, tender, revDay, event>>

Tick ==
  /\ clock < MaxClock /\ clock' = clock + 1
  /\ UNCHANGED <<ledger, prices, sale, void, tender, revDay, event>>

----------------------------------------------------------------------------
\* Recognition, when the shift is approved.  litres: what each nozzle sold.

\* ROUND(gross * rate / (100 + rate))
Tax(gross) == (2 * gross * TaxRate + 100 + TaxRate) \div (2 * (100 + TaxRate))

\* A nozzle with no price at this moment is left out; a sale already there stays.
RecognizeShiftSales(sh, litres) ==
  LET new == {n \in Nozzles : litres[n] # 0 /\ ResolvePrice(n, clock) # Absent /\ sale[<<sh, n>>] = Absent}
      row(n) == LET gross == litres[n] * ResolvePrice(n, clock)
                IN [litres |-> litres[n], gross |-> gross, tax |-> Tax(gross), net |-> gross - Tax(gross)]
  IN /\ new # {}
     /\ sale' = [k \in Lot |-> IF k[1] = sh /\ k[2] \in new THEN row(k[2]) ELSE sale[k]]

\* The approval that calls it happens once per shift (module ShiftCash).
recognizeShiftRevenue(sh, litres) ==
  /\ event[sh] = "none"
  /\ RecognizeShiftSales(sh, litres)
  /\ event' = [event EXCEPT ![sh] = "pending"]
  /\ UNCHANGED <<ledger, clock, prices, void, tender, revDay>>

RecordTender(amount) ==
  /\ tender + amount \in Tendered
  /\ tender' = tender + amount
  /\ UNCHANGED <<ledger, clock, prices, sale, void, revDay, event>>

----------------------------------------------------------------------------
\* Voids.

ActiveVoids(k) == {i \in DOMAIN void[k] : void[k][i].status # "rejected"}
ApprovedVoids(k) == {i \in DOMAIN void[k] : void[k][i].status = "approved"}

\* Mutant: without the partial unique index.
RequestVoidAgain(u, k) ==
  /\ sale[k] # Absent /\ Len(void[k]) < MaxVoids
  /\ void' = [void EXCEPT ![k] = Append(@, [status |-> "requested", by |-> u, decider |-> Absent])]

\* uq_sale_voids_active: one void that is not rejected.
RequestVoid(u, k) ==
  /\ sale[k] # Absent /\ ActiveVoids(k) = {} /\ Len(void[k]) < MaxVoids
  /\ void' = [void EXCEPT ![k] = Append(@, [status |-> "requested", by |-> u, decider |-> Absent])]

handleRequestSaleVoid(u, k) ==
  /\ RequestVoid(u, k)
  /\ UNCHANGED <<ledger, clock, prices, sale, tender, revDay, event>>

decideSaleVoid(u, k, i, verdict) ==
  /\ void[k][i].status = "requested" /\ void[k][i].by # u
  /\ void' = [void EXCEPT ![k][i].status = verdict, ![k][i].decider = u]
  /\ UNCHANGED <<ledger, clock, prices, sale, tender, revDay, event>>

ApproveVoid(u, k, i) == decideSaleVoid(u, k, i, "approved")
RejectVoid(u, k, i)  == decideSaleVoid(u, k, i, "rejected")

----------------------------------------------------------------------------
\* The revenue day.

\* Every approved void joined to a sale takes the sale's amount off once.
DaySummary ==
  LET sold == {k \in Lot : sale[k] # Absent}
      net(f(_)) == SumFunction([k \in sold |-> (1 - Cardinality(ApprovedVoids(k))) * f(sale[k])])
      Gross(s) == s.gross  NetOf(s) == s.net  TaxOf(s) == s.tax
  IN [gross |-> net(Gross), net |-> net(NetOf), tax |-> net(TaxOf)]

ComputeDay ==
  /\ revDay # Absent => revDay.status # "locked"
  /\ revDay' = [status |-> "draft", sum |-> DaySummary, tender |-> tender, variance |-> tender - DaySummary.gross]

handleComputeRevenueDay ==
  /\ ComputeDay
  /\ UNCHANGED <<ledger, clock, prices, sale, void, tender, event>>

LockDay ==
  /\ revDay # Absent /\ revDay.status # "locked"
  /\ revDay' = [revDay EXCEPT !.status = "locked"]

handleLockRevenueDay ==
  /\ LockDay
  /\ UNCHANGED <<ledger, clock, prices, sale, void, tender, event>>

----------------------------------------------------------------------------
\* The revenue journal.  The business date is date 1.

ShiftRevenueTotals(sh) ==
  LET mine == {k \in Lot : k[1] = sh /\ sale[k] # Absent} IN
  [gross |-> SumFunction([k \in mine |-> sale[k].gross]), net |-> SumFunction([k \in mine |-> sale[k].net]),
   tax |-> SumFunction([k \in mine |-> sale[k].tax])]

RevenueLines(t) ==
  LET all == [sales_clearing |-> t.gross, sales_revenue |-> -t.net, output_vat |-> -t.tax]
  IN [c \in {k \in DOMAIN all : all[k] # 0 \/ k = "sales_revenue"} |-> all[c]]

\* Mutant: nobody asks whether the shift's entry exists.
PostableAgain(sh) ==
  /\ ShiftRevenueTotals(sh).gross # 0
  /\ resolvePostingPeriod(1, FALSE)
  /\ \A c \in DOMAIN RevenueLines(ShiftRevenueTotals(sh)) : resolveSystemAccount(c)

Postable(sh) ==
  /\ ~EntryExistsForSource(<<"shift_revenue", sh>>)
  /\ ShiftRevenueTotals(sh).gross # 0
  /\ resolvePostingPeriod(1, FALSE)
  /\ \A c \in DOMAIN RevenueLines(ShiftRevenueTotals(sh)) : resolveSystemAccount(c)

\* Any replica, any number of times, once the event is written.
Delivered(sh) == event[sh] # "none"

\* There is an entry or nothing to post, or any error of the posting, the database's
\* included: it is logged and the event acknowledged, so nobody posts it again.
ConsumeSkip(sh) ==
  /\ Delivered(sh)
  /\ event' = [event EXCEPT ![sh] = "done"]
  /\ UNCHANGED <<ledger, clock, prices, sale, void, tender, revDay>>

ConsumeBegin(r, sh) ==
  /\ Delivered(sh) /\ Postable(sh)
  /\ Begin(r, [at |-> "consume", shift |-> sh, lines |-> RevenueLines(ShiftRevenueTotals(sh)), looked |-> Len(entry)])
  /\ UNCHANGED <<chart, period, entry, revenueTables>>

PostShiftRevenueJournal(r, acknowledged) ==
  /\ req[r].at = "consume"
  /\ PostEntry(<<"shift_revenue", req[r].shift>>, 1, req[r].lines, 0)
  /\ event' = [event EXCEPT ![req[r].shift] = IF acknowledged THEN "done" ELSE @]
  /\ End(r)
  /\ UNCHANGED <<chart, period, clock, prices, sale, void, tender, revDay>>

----------------------------------------------------------------------------
RevenueInit ==
  /\ clock = 0 /\ prices = <<>> /\ tender = 0 /\ revDay = Absent
  /\ sale = [k \in Lot |-> Absent]
  /\ void = [k \in Lot |-> <<>>]
  /\ event = [sh \in Shifts |-> "none"]

SaleNext ==
  \/ \E n \in Nozzles, unit \in UnitPrices, from \in 0..MaxClock, belowCost \in BOOLEAN : handleSetPrice(n, unit, from, belowCost)
  \/ Tick
  \/ \E sh \in Shifts, litres \in [Nozzles -> Volumes] : recognizeShiftRevenue(sh, litres)

DayNext ==
  \/ \E amount \in Tendered \ {0} : RecordTender(amount)
  \/ \E u \in Cashiers, k \in Lot : handleRequestSaleVoid(u, k) \/ \E i \in DOMAIN void[k] : ApproveVoid(u, k, i) \/ RejectVoid(u, k, i)
  \/ handleComputeRevenueDay \/ handleLockRevenueDay

JournalNext ==
  \/ \E sh \in Shifts : ConsumeSkip(sh)
  \/ \E r \in Requests, sh \in Shifts : ConsumeBegin(r, sh)
  \/ \E r \in Requests, acknowledged \in BOOLEAN : PostShiftRevenueJournal(r, acknowledged)

(* However often and wherever the event is delivered, an entry added for a  *)
(* shift carries the gross, net and tax of the sales as they stand at its   *)
(* commit, and comes from a delivery that looked before any other entry of  *)
(* the shift was committed: the only revenue journaled twice is that of two *)
(* deliveries handled at the same time, never that of a later redelivery.   *)
RevenueNotRepeated ==
  [][\A r \in Requests :
       req[r].at = "consume" /\ Len(entry') > Len(entry) /\ req'[r] = Idle =>
         LET new == entry'[Len(entry')] IN
         /\ new.src = <<"shift_revenue", req[r].shift>>
         /\ new.lines = RevenueLines(ShiftRevenueTotals(req[r].shift)) /\ SumFunction(new.lines) = 0
         /\ \A i \in DOMAIN entry : entry[i].src = new.src => i > req[r].looked]_<<entry, req>>

(* PostShiftRevenueJournal "is idempotent - it skips if an entry already    *)
(* exists for the shift": a shift's revenue is in the ledger at most once.  *)
(* TLC refutes it: two replicas handle the event at the same time, and each *)
(* looks before the other commits.                                          *)
RevenueJournaledOnce ==
  \A sh \in Shifts : Cardinality({i \in DOMAIN entry : entry[i].src = <<"shift_revenue", sh>>}) <= 1

(* A sale is voided at most once, never on the word of one user, and the    *)
(* day's revenue is exactly that of the sales that stand.                   *)
VoidedOnce ==
  /\ \A k \in Lot : /\ Cardinality(ActiveVoids(k)) <= 1
                    /\ \A i \in ApprovedVoids(k) : void[k][i].decider \notin {Absent, void[k][i].by}
  /\ DaySummary.gross =
       SumFunction([k \in {j \in Lot : sale[j] # Absent /\ ApprovedVoids(j) = {}} |-> sale[k].gross])

=============================================================================
