------------------------------- MODULE Fleet --------------------------------
(***************************************************************************)
(* The fleet customer's registry and paper (internal/fleet): contacts,      *)
(* vehicles and drivers, odometer readings, price agreements and account    *)
(* statements.  (Credit limits, cards and fuel authorizations are in        *)
(* Credit.)                                                                 *)
(*                                                                          *)
(* An odometer reading compares itself with the largest one in the          *)
(* statement that inserts it; two such statements may run at once, so       *)
(* `reading` holds the ones that have looked and not yet committed.         *)
(* Statements are computed from the receivable entries: `posted` is a       *)
(* customer's entries in the order they were committed, with the day each   *)
(* was recorded, and `today` the date.  An entry is recorded when its       *)
(* transaction begins (recorded_at defaults to now()) and seen when it      *)
(* commits, after waiting for the customer row: `posting` holds the ones    *)
(* in between.                                                              *)
(***************************************************************************)
EXTENDS Integers, FiniteSets, Sequences, Functions

CONSTANTS ContactIds, VehicleIds, DriverIds, Agreements, Statements,
          Odometers,      \* odometer values
          Gauges,         \* odometer requests in flight
          FleetPitches,   \* stations
          PriceTerms,     \* [type, value] of an agreement; value is {} when none is given
          Windows,        \* [from, to] of an agreement; to is {} when it is open
          Retail,         \* the pump price
          EntryAmounts,   \* amounts of receivable entries
          Posters,        \* transactions that post one
          LastDay, MaxEntries, MaxReadings

VARIABLES contact,        \* contacts on file
          vehicle,        \* [VehicleIds -> {} or status]
          driver,         \* [DriverIds -> {} or [status, pin]]
          odometer,       \* readings in the order they were committed
          reading,        \* [Gauges -> {} or what the request read]
          agreement,      \* [Agreements -> {} or the row]
          posted,         \* the customer's receivable entries
          posting,        \* [Posters -> {} or the entry it has begun]
          today,          \* the date
          statement       \* [Statements -> {} or the row]

registryTables == <<contact, vehicle, driver, odometer, reading>>
paperTables == <<agreement, posted, posting, today, statement>>
fleetTables == <<contact, vehicle, driver, odometer, reading, agreement, posted, posting, today, statement>>

FleetInit ==
  /\ contact = {} /\ vehicle = [v \in VehicleIds |-> {}] /\ driver = [d \in DriverIds |-> {}]
  /\ odometer = <<>> /\ reading = [g \in Gauges |-> {}]
  /\ agreement = [a \in Agreements |-> {}]
  /\ posted = <<>> /\ posting = [w \in Posters |-> {}] /\ today = 1 /\ statement = [s \in Statements |-> {}]

-----------------------------------------------------------------------------
CreateContact(c) == c \notin contact /\ contact' = contact \cup {c}

handleCreateCustomerContact(c) == CreateContact(c) /\ UNCHANGED <<vehicle, driver, odometer, reading, paperTables>>

DeleteContact(c) == c \in contact /\ contact' = contact \ {c}

handleDeleteCustomerContact(c) == DeleteContact(c) /\ UNCHANGED <<vehicle, driver, odometer, reading, paperTables>>

(* The registration is unique.                                              *)
CreateVehicle(v) == vehicle[v] = {} /\ vehicle' = [vehicle EXCEPT ![v] = {"active"}]

handleCreateVehicle(v) == CreateVehicle(v) /\ UNCHANGED <<contact, driver, odometer, reading, paperTables>>

(* Any listed status from any: retired is not terminal.                     *)
SetVehicleStatus(v, to) == vehicle[v] # {} /\ vehicle' = [vehicle EXCEPT ![v] = {to}]

handleSetVehicleStatus(v, to) ==
  /\ to \in {"active", "on_hold", "retired"}
  /\ SetVehicleStatus(v, to)
  /\ UNCHANGED <<contact, driver, odometer, reading, paperTables>>

CreateDriver(d, pin) == driver[d] = {} /\ driver' = [driver EXCEPT ![d] = {[status |-> "active", pin |-> pin]}]

handleCreateDriver(d, pin) == CreateDriver(d, pin) /\ UNCHANGED <<contact, vehicle, odometer, reading, paperTables>>

SetDriverStatus(d, to) == \E r \in driver[d] : driver' = [driver EXCEPT ![d] = {[r EXCEPT !.status = to]}]

handleSetDriverStatus(d, to) ==
  /\ to \in {"active", "on_hold", "inactive"}
  /\ SetDriverStatus(d, to)
  /\ UNCHANGED <<contact, vehicle, odometer, reading, paperTables>>

ResetDriverPIN(d, pin) == \E r \in driver[d] : driver' = [driver EXCEPT ![d] = {[r EXCEPT !.pin = pin]}]

handleResetDriverPIN(d, pin) == ResetDriverPIN(d, pin) /\ UNCHANGED <<contact, vehicle, odometer, reading, paperTables>>

-----------------------------------------------------------------------------
(* RecordOdometer: the largest reading so far is seen, and the row inserted *)
(* against it; "warning" (or "override") unless it advances.                *)
SeeOdometer(g, v, km, override) ==
  /\ reading[g] = {} /\ vehicle[v] # {}
  /\ reading' = [reading EXCEPT ![g] =
       {[vehicle |-> v, km |-> km, override |-> override,
         seen |-> {odometer[i].km : i \in {j \in DOMAIN odometer : odometer[j].vehicle = v}}]}]
  /\ UNCHANGED <<contact, vehicle, driver, odometer, paperTables>>

Largest(S) == CHOOSE x \in S : \A y \in S : y <= x

Verdict(q) ==
  IF q.seen # {} /\ q.km <= Largest(q.seen) THEN IF q.override THEN "override" ELSE "warning" ELSE "valid"

handleRecordOdometer(g) ==
  \E q \in reading[g] :
    /\ Len(odometer) < MaxReadings
    /\ odometer' = Append(odometer, [vehicle |-> q.vehicle, km |-> q.km, status |-> Verdict(q),
                                     distance |-> IF q.seen = {} THEN {} ELSE {q.km - Largest(q.seen)}])
    /\ reading' = [reading EXCEPT ![g] = {}]
    /\ UNCHANGED <<contact, vehicle, driver, paperTables>>

-----------------------------------------------------------------------------
(* Price agreements: for one station, or ({}) for all.                      *)

CreatePriceAgreement(a, terms, station, window) ==
  /\ agreement[a] = {}
  /\ agreement' = [agreement EXCEPT ![a] =
       {[status |-> "draft", terms |-> terms, station |-> station, from |-> window.from, to |-> window.to]}]

handleCreatePriceAgreement(a, terms, station, window) ==
  CreatePriceAgreement(a, terms, station, window) /\ UNCHANGED <<registryTables, posted, posting, today, statement>>

AgreementFrom(to) ==
  CASE to = "approved" -> {"draft"} [] to = "active" -> {"approved"} [] to = "expired" -> {"active"}
    [] to = "cancelled" -> {"draft", "approved", "active"}

(* uq_cpagr_active_scoped, uq_cpagr_active_tenantwide.                      *)
ScopeFree(a, r) ==
  \A b \in Agreements \ {a} : \A o \in agreement[b] : ~(o.status = "active" /\ o.station = r.station)

TransitionPriceAgreement(a, to) ==
  \E r \in agreement[a] :
    /\ r.status \in AgreementFrom(to)
    /\ (to = "active" => ScopeFree(a, r))
    /\ agreement' = [agreement EXCEPT ![a] = {[r EXCEPT !.status = to]}]

handleTransitionPriceAgreement(a, to) ==
  TransitionPriceAgreement(a, to) /\ UNCHANGED <<registryTables, posted, posting, today, statement>>

(* The active agreements of a scope that are in effect today.               *)
InEffect(r) == r.from <= today /\ \A d \in r.to : today <= d

ActiveFor(station) ==
  {r \in UNION {agreement[a] : a \in Agreements} : r.status = "active" /\ InEffect(r) /\ r.station = station}

(* COALESCE(value, 0).                                                      *)
OrZero(value) == IF value = {} THEN 0 ELSE CHOOSE v \in value : TRUE

(* NULL ({}) for a fixed agreement that was given no price.                 *)
PriceUnder(terms) ==
  CASE terms.type = "fixed"    -> terms.value
    [] terms.type = "discount" -> {Largest({Retail - OrZero(terms.value), 0})}
    [] terms.type = "markup"   -> {Retail + OrZero(terms.value)}

(* Every answer the query may give: the rows are ordered with the station's *)
(* own before the customer-wide, and LIMIT 1 takes any of the first ones.   *)
(* Without a row there is no agreement and the caller is to use the pump    *)
(* price; a NULL price fails.  Nothing in the repository calls it yet.      *)
ResolveCustomerPrice(p) ==
  LET answers(R) == {[agreed |-> TRUE, price |-> PriceUnder(r.terms)] : r \in R} IN
  IF ActiveFor({p}) # {} THEN answers(ActiveFor({p}))
  ELSE IF ActiveFor({}) # {} THEN answers(ActiveFor({}))
  ELSE {[agreed |-> FALSE, price |-> {}]}

-----------------------------------------------------------------------------
(* Receivable entries (PostCharge, PostPayment) and the statements over     *)
(* those committed so far.                                                  *)

BeginEntry(w, type, amount) ==
  /\ posting[w] = {}
  /\ posting' = [posting EXCEPT ![w] =
       {[type |-> type, amount |-> IF type = "charge" THEN amount ELSE -amount, day |-> today]}]
  /\ UNCHANGED <<registryTables, agreement, posted, today, statement>>

PostEntry(w) ==
  \E e \in posting[w] :
    /\ Len(posted) < MaxEntries
    /\ posted' = Append(posted, e)
    /\ posting' = [posting EXCEPT ![w] = {}]
    /\ UNCHANGED <<registryTables, agreement, today, statement>>

(* A hold, the limit, or any error: nothing is posted.                      *)
RefuseEntry(w) ==
  /\ posting[w] # {}
  /\ posting' = [posting EXCEPT ![w] = {}]
  /\ UNCHANGED <<registryTables, agreement, posted, today, statement>>

DayPasses ==
  /\ today < LastDay
  /\ today' = today + 1
  /\ UNCHANGED <<registryTables, agreement, posted, posting, statement>>

EntrySum(I) == FoldFunctionOnSet(LAMBDA x, y : x + y, 0, [i \in DOMAIN posted |-> posted[i].amount], I)

OpeningBalanceInclusive(start) == EntrySum({i \in DOMAIN posted : posted[i].day <= start})

OpeningBalance(start) == EntrySum({i \in DOMAIN posted : posted[i].day < start})

(* Besides the row: the days of the entries that were not yet committed.    *)
GenerateStatement(s, start, end) ==
  LET within(type) == {i \in DOMAIN posted : posted[i].day \in start..end /\ posted[i].type = type}
  IN /\ statement[s] = {}
     /\ statement' = [statement EXCEPT ![s] =
          {[start |-> start, end |-> end, on |-> today, status |-> "draft",
            pending |-> {e.day : e \in UNION {posting[w] : w \in Posters}},
            opening |-> OpeningBalance(start), charges |-> EntrySum(within("charge")),
            payments |-> -EntrySum(within("payment")),
            closing |-> EntrySum({i \in DOMAIN posted : posted[i].day <= end})]}]

handleGenerateStatement(s, start, end) ==
  GenerateStatement(s, start, end) /\ UNCHANGED <<registryTables, agreement, posted, posting, today>>

IssueStatement(s) ==
  \E r \in statement[s] :
    /\ r.status = "draft"
    /\ statement' = [statement EXCEPT ![s] = {[r EXCEPT !.status = "issued"]}]

handleIssueStatement(s) == IssueStatement(s) /\ UNCHANGED <<registryTables, agreement, posted, posting, today>>

-----------------------------------------------------------------------------
RegistryNext ==
  \/ \E c \in ContactIds : handleCreateCustomerContact(c) \/ handleDeleteCustomerContact(c)
  \/ \E v \in VehicleIds : handleCreateVehicle(v)
  \/ \E v \in VehicleIds, to \in {"active", "on_hold", "retired"} : handleSetVehicleStatus(v, to)
  \/ \E d \in DriverIds, pin \in BOOLEAN : handleCreateDriver(d, pin) \/ handleResetDriverPIN(d, pin)
  \/ \E d \in DriverIds, to \in {"active", "on_hold", "inactive"} : handleSetDriverStatus(d, to)

OdometerNext ==
  \/ \E v \in VehicleIds : handleCreateVehicle(v)
  \/ \E g \in Gauges, v \in VehicleIds, km \in Odometers, b \in BOOLEAN : SeeOdometer(g, v, km, b)
  \/ \E g \in Gauges : handleRecordOdometer(g)

AgreementNext ==
  \/ \E a \in Agreements, terms \in PriceTerms, station \in {{}} \cup {{p} : p \in FleetPitches}, window \in Windows :
       handleCreatePriceAgreement(a, terms, station, window)
  \/ \E a \in Agreements, to \in {"approved", "active", "expired", "cancelled"} : handleTransitionPriceAgreement(a, to)
  \/ DayPasses

StatementNext ==
  \/ \E w \in Posters, type \in {"charge", "payment"}, amount \in EntryAmounts : BeginEntry(w, type, amount)
  \/ \E w \in Posters : PostEntry(w) \/ RefuseEntry(w)
  \/ DayPasses
  \/ \E s \in Statements, start, end \in 1..LastDay : handleGenerateStatement(s, start, end)
  \/ \E s \in Statements : handleIssueStatement(s)

FleetNext == RegistryNext \/ OdometerNext \/ AgreementNext \/ StatementNext

FleetSpec == FleetInit /\ [][FleetNext]_fleetTables

-----------------------------------------------------------------------------
(* A customer's price is decided: whichever agreements were drafted,        *)
(* approved, activated, expired or cancelled and whatever the date, the     *)
(* lookup has one answer at a station, because no two agreements of a       *)
(* scope are ever active together, in effect or not (price_agreements.go:   *)
(* 194-198 takes one row of the scope without ordering them, and relies on  *)
(* the two partial indexes of migration 0052).                              *)
OnePrice == \A p \in FleetPitches : Cardinality(ResolveCustomerPrice(p)) = 1

(* x saw all there will ever be of the days up to d.                        *)
SettledUpTo(x, d) == d < x.on /\ \A e \in x.pending : d < e

(* Statements add up and follow on: over a period that is not reversed, the *)
(* opening balance plus charges less payments is the closing balance; and   *)
(* the statements of following periods join up, whichever is generated      *)
(* first and whatever is posted beside them, provided that each of them was *)
(* generated after the first period and when no entry begun in it was still *)
(* waiting to commit (statements.go:39-60).                                 *)
StatementsFollowOn ==
  \A s, t \in Statements : \A x \in statement[s], y \in statement[t] :
    /\ (x.start <= x.end => x.opening + x.charges - x.payments = x.closing)
    /\ (y.start = x.end + 1 /\ SettledUpTo(x, x.end) /\ SettledUpTo(y, x.end) => y.opening = x.closing)

(* The same of all statements generated after the first period.  TLC        *)
(* refutes it: an entry recorded on the period's last day commits after the *)
(* first statement, and is in the second one's opening balance.             *)
StatementsJoinUp ==
  \A s, t \in Statements : \A x \in statement[s], y \in statement[t] :
    y.start = x.end + 1 /\ x.end < x.on /\ x.end < y.on => y.opening = x.closing
=============================================================================
