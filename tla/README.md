# FuelGrid OS: a TLA+ model of the fuel-station back office

## 1. The system and its parts

FuelGrid OS is a Go modular monolith (`services/api`, packages under `internal/`) over PostgreSQL,
with Redis as a cache, an in-process event bus fed from an outbox table, a job scheduler that runs in
every replica, and a Next.js front end (`apps/web`) with an offline queue for attendants.

Every state change happens in a request handler or a job with the same shape: read and check through
the connection pool, begin a transaction, perhaps lock a row and check again, write, add audit and
outbox rows, commit. PostgreSQL runs at READ COMMITTED, so what a handler read before its transaction,
and what it reads in it without a lock, may be stale when it commits. That shape is what the modules
model: one action per step of a handler at which another request can get in between.

The station's daily cycle ties the parts together:

1. A manager opens an *operating day*; *shifts* are opened in it (`operating_days_handlers.go`,
   `shifts_handlers.go`).
2. Attendants capture opening and closing *meter readings* and tank *dips*; a supervisor verifies,
   corrects or rejects each closing; closing the shift freezes a *close line* per nozzle
   (`meter_readings_handlers.go`, `dip_readings_handlers.go`, `reading_verification_handlers.go`,
   `shift_close_handlers.go`).
3. Attendants submit *cash*; a variance over the threshold raises an exception; a supervisor confirms
   the *collection receipt* (`shift_close_handlers.go`, `collection_receipts_handlers.go`).
4. *Approval* of the shift checks all of that under the shift's row lock and posts its sales to the
   *stock ledger* of each tank (`shift_exceptions_handlers.go`, `internal/inventory`).
5. A tank's *reconciliation* compares its ledger with a dip, writes the difference off and seals the
   period (`reconciliation_handlers.go`, `internal/reconciliation`).
6. The manager closes and locks the day.
7. Every one of these steps leaves an *outbox* row; publishers in every replica deliver it; *scheduled
   jobs* sweep dead letters and do the other maintenance (`internal/events`, `internal/scheduler`).

Around the cycle:

* *Finance*: every sub-ledger (expenses and petty cash, cash reconciliation and bank deposits, customer
  invoices, credit tenders, supplier payables, revenue) posts into one journal with accounting periods
  (`internal/accounting`, `expenses`, `banking`, `receivables`, `payables`, `procurement`, `revenue`).
* *Background work*: beside the jobs of the scheduler, an export worker in every replica and the
  dispatch of scheduled reports, which share the table of exports (`internal/exportjobs`,
  `internal/scheduledreports`).
* *Back office*: head-office governance, price rollouts and transfers (`internal/enterprise`), identity,
  workforce and staffing, master data and calibration, risk and incidents, report snapshots and insight
  rules, the consumers of events (notifications, mobile money), and the fleet customers' registry.

## 2. Modules

The daily cycle and the queues under it:

| module | models | state | concurrency in it |
| --- | --- | --- | --- |
| `OperatingDay` | open, close, reopen, lock of a day; open, close, approve of a shift | `day`, `date`, `shift`, `dayOf` (tables), `pc`, `on`, `target` (requests in flight) | FOR UPDATE and FOR SHARE on the day row, plain UPDATE, unique (station, date) |
| `DayBook` | the abstract specification: the same operations, each atomic | the tables only | none |
| `ShiftReadings` | capture, correction, close, verification, batch approval, approval | readings with figure and verdict, the shift, its lines and what was posted | shift FOR UPDATE, the key-share lock a foreign key takes, unique indexes, aborted transactions |
| `ShiftCash` | submission, exception, receipt, line correction, approval | shift, lines' total, submission, exception, receipt | shift FOR UPDATE against FOR SHARE |
| `StockLedger` | `PostMovement`, opening requests, adjustments, sales of a shift, deliveries | one sequence of movements per tank, lifecycle rows, uncommitted rows per transaction | one advisory lock per tank, unique indexes |
| `TankReconciliation` | draft, adjust, seal, and the movements (deliveries, sales, adjustments, transfers between tanks) and dips they read | one tank's ledger, dips, one record per day | the tank's advisory lock, held from the write-off on |
| `AtLeastOnce` | the abstract specification of the outbox | recorded and settled events | none |
| `Outbox` | `processOnce`, `outboxSweepJob`, writers, crashes, lost sessions, failing handlers | rows with attempt counts, one batch per publisher | FOR UPDATE SKIP LOCKED; a publisher that lost its session goes on dispatching what another may claim |
| `Scheduler` | `execute`, `runJob`, `Stop`, pooled sessions | tick of each replica, sessions, lock holder and depth | session advisory lock |
| `ExportJobs` | enqueue, the locked tick, reclaim, claim, render, complete, fail | `job`, one position per `worker`, the advisory `lock` with its depth | claims with SKIP LOCKED, crash, lost session, failed claim, lost last write, an unlock that fails and leaves the lock with a pooled session |
| `ScheduledReports` (over `ExportJobs`) | recurrences over a calendar, create and edit, claim of what is due, dispatch, receipt, run row | `sched`, `run`, `sent` (tables and deliveries), `task`, `edit` (dispatches and requests in flight), `clock` | claim committed before the delivery; receipt shared with the export worker |

Finance, over one journal (`Finance` composes them):

| module | models | what meets in it |
| --- | --- | --- |
| `Ledger` | chart of accounts, periods, posting and reversal of entries, trial balance, income statement, balance sheet | a period read without a lock, two reversals of one entry |
| `Expenses` | expense lifecycle and posting, petty-cash floats | repeated posting, a float reconciled from a stale read |
| `Banking` | cash reconciliation, deposits, bank statement lines | approval on figures read before the lock |
| `Invoicing` | customers, invoices, payments allocated and reversed | partial payments and reversals in any order |
| `Credit` | charges, authorizations, holds, cards, credit tenders with their key | a charge and an authorization decide at one step and commit at a later one; lock and sums in one statement, on a snapshot older than the lock; retried tenders |
| `Purchasing` | orders, receipts, supplier invoices and their match, discrepancies, payables, payments | receipts near the cap, imports at once, resolutions at once |
| `Revenue` | prices, recognition, revenue day, voids, the journaling consumer | events redelivered later or handled by two replicas at once, or acknowledged without a journal; voids decided twice |

The back office (`MCBackoffice` composes them; their tables are disjoint):

| module | models | what meets in it |
| --- | --- | --- |
| `Governance` | station groups, scope grants, approval policies and requests, retention, period change requests | decisions that race, policies changed meanwhile |
| `Distribution` | price rollouts, procurement plans, stock transfers | opposing transfers: two tanks' advisory locks, one step per statement |
| `Identity` | login, lockout, sessions, passwords, second factors, users and roles | a session as a row and as a cached key, written one after the other and each fallible |
| `Workforce` | employees, teams, rotation, staffing, attendance, set-up checklist | checks through the pool, writes later |
| `MasterData` | companies, regions, stations, products, tanks, pumps, nozzles, charts, dips | two-step handlers against unique indexes and composite keys |
| `Risk` | rules, detection passes, suppressions, alerts, scores, cases, incidents | two passes at once, each one long transaction over rules and alerts that change; a raised alert shows at the commit, and makes the other pass wait |
| `ReportRecords` | snapshots with revisions and sign-off, insight rules | captures that read the last revision before they insert, and a station looked up trimmed and stored as it came |
| `Consumers` | the notification subscriber, mobile-money requests and callbacks | redelivery to two replicas, repeated or late callbacks |
| `Fleet` | contacts, vehicles, drivers, odometers, price agreements, statements | concurrent readings, agreements with their dates and perhaps no price, entries dated when they begin and seen when they commit while a period is billed |

Each run has an `MC` module with the symmetry and the constant values TLC needs. Theorems are in eight
`Proofs` modules. The names of actions are the names of the Go functions where one action stands for
one function. A handler with several steps is split where another request can act: `StatusBegin` (pool
read), `StatusLock` (SELECT FOR UPDATE and re-check), `StatusCount` (open shifts), `StatusCommit`
together are `handleUpdateOperatingDayStatus`. Handlers that only read are operators
(`BalanceSheet`, `TrialBalance`, `InvoiceAging`, `RosterPreview`), used by the actions and the
properties that depend on them.

### How code becomes actions

* A *pool read* copies what the rest of the handler uses into the request's record; guards that come
  later in the handler test that copy, never the table, unless the code reads the table again.
* A *locking read* is enabled only when no conflicting lock is held. Locks are not variables: a
  request holds the locks that its position implies (`HoldsForUpdate`, `HoldsForShare`, `Holds`,
  `Locks`), and gives them up by going back to idle.
* Statements that nobody else can see the middle of are one step: the writes of a transaction appear
  at its commit. Where an uncommitted write matters to others (the stock ledger's rows under the
  tank's lock, a batch aborted by a unique violation) it is kept in the request's record until then.
* A *refusal* (4xx, rollback) takes the request back to idle and leaves the tables alone.
* Decimal figures are small integers. Litres and money only enter comparisons, sums and differences,
  which PostgreSQL does in exact `numeric`; no property depends on scale or rounding.
* Who asks is left out. Permissions and separation of duties decide whether a request is made, and
  the models start after them.

`StockLedger` holds several tanks and whole transactions. `TankReconciliation` looks at one tank and
keeps only the facts about movements it needs: kind, litres, and the seal a write-off belongs to. The
shift approval is in three modules, once with each set of rows it guards: the readings, the cash, and
the sales it posts; the shift row's lock is the same in the first two.

## 3. Runs that pass

| run | instance | what it shows |
| --- | --- | --- |
| `operating_day` | 2 days on one date, 2 shifts, 2 requests | no closed day with an open shift; the interleaved handlers implement `DayBook` |
| `shift_readings` | 1 nozzle, 1 tank, 2 readings, figures 0 and 1, 2 requests | what approval checked holds to its commit |
| `shift_cash` | amounts 0 to 2, threshold 1, 3 requests | approval never passes an unresolved variance |
| `stock_ledger` | 2 tanks, 2 shifts (one sells from both tanks), 1 adjustment, 1 opening request, 2 transactions, 2 rows per tank | every running balance is the sum so far; no deadlock |
| `outbox` | 3 events, one of them poison, 2 publishers, batch 2, budget 2, 1 outage, 1 crash or lost session | implements `AtLeastOnce`; under fairness deliverable events are published and no row stays pending |
| `tank_reconciliation` | 2 days, 2 requests, 2 rows, transfers among them | write-offs and watermarks of seals agree |
| `scheduler` | five areas: the job loop (2 replicas, 2 sessions each, 3 faults), the export worker (2 workers), recurrences, edits of a schedule, dispatch beside a worker | the job keeps running and a stopped replica drains; one renderer per job, every job ends, a result is final; the next run is the least later occurrence; a receipt can be downloaded |
| `finance` | seven areas over one journal: 2 requests in flight, 2 dates, few documents each | the books balance at every date; each document is posted once; control accounts agree with their rows; charges and authorizations keep to the limit; revenue is not journaled again on a redelivery |
| `backoffice` | 26 areas, one per group of handlers that share tables | approvals by enough others, transfers conserve stock and never deadlock, a password change ends the sessions, the roster rotates, dips are monotone, one live alert per subject, revisions form a chain, emails go out once, reconciled money was paid, statements follow on |

`scheduler`, `finance` and `backoffice` compose modules whose tables are disjoint or meet only in the
journal or in the table of exports. A behaviour of such a run chooses its area at the start and takes
the steps of that area, so that the state spaces add up instead of multiplying; the modules that do
share state (journal and periods with every sub-ledger, exports with scheduled reports) are explored
together. The areas that build on master data or on a roster start from the rows that the handlers of
the earlier areas leave.

### Bounds

Two concurrent requests suffice for the lock protocols: every conflict the code has is between two
holders of one row. `shift_cash` has three, because a submission, a receipt and an approval meet on
one shift. Two days on *one* date make the unique index bite; two tanks are the least with which lock
order can go wrong; two rows per tank let an opening and one flow, or a movement and a write-off,
meet. A batch smaller than the number of events makes publishers overlap and the head of the queue
matter. A retry budget of 2 separates "retried" from "dead". In `finance` two transactions meet on one
journal, and each area has the fewest documents with which a partial payment, a second receipt or a
second reversal exists; `MaxEntries` bounds the journal. The calendar of the recurrences has days of
few hours and hours of few minutes (`HoursPerDay`, `MinutesPerHour`), and months, leap years and weeks
of the real length, since the edges are there. In `backoffice` a tank opens with one litre and
transfers move one or two, so a transfer may be short and two may compete; the roster's days lie on
both sides of its anchor; statements cover two days with one entry in flight; a price agreement has a window
that may have ended or not begun (`Windows`); a station has a name with and without a blank before it
(`ReportScopes`). The areas of snapshots and of statements stop when the last row they hold is written,
since nothing after it can change what the properties compare. In `finance`, `SaleIds` has an id no sale has. One crash or lost session is enough for
the outbox's second claim of a row that is still being dispatched; with two the run passes as well, and
takes four times as long. Faults are bounded by `MaxCrashes`, `MaxOutages`, `MaxFaults` and
`MaxExportFaults`; the proofs hold for every value of the bounds. `CHECK_DEADLOCK FALSE` stands where
the system may really stop: a shift ends approved, a ledger is full, a document reaches its last
status.

### Fairness

`Outbox.FairSpec` has weak fairness of each publisher's `Select`, `Dispatch`, `Commit` and,
after a lost session, `Abandon` (a ticker loop that only ends with the process), of `Sweep` (a scheduled job) and of the end of an outage. No
fairness is assumed of writers or crashes, and crashes are finite in number. The sweep requeues a dead
letter after an hour by default (`config.go`) and the poll period is two seconds; the model has no
clock and keeps of that only that a dead letter comes of age (`aged`) at a later poll, never between
two polls. `Scheduler.FairSpec` has weak fairness of a replica's tick and of the retirement of idle
connections (`MaxConnLifetime`, 30 minutes by default), and strong fairness of `Exit`: Go's `select`
chooses at random between a ready `stopCh` and a ready ticker, so a loop that keeps finding `stopCh`
ready leaves in the end. `MCScheduler` adds weak fairness of a worker's next step (a ticker loop,
started again with its replica), of the retirement of a
connection that still holds the queue's lock, and of a claim's growing stale once nobody renders it
(`exportJobStaleAfter`); all only in the areas the worker takes part in.

## 4. Where the code and its comments part

Three runs check one sentence of the repository each and find a behaviour of the code that contradicts
it. `PROJECT.json` quotes the sentence with its line.

* `shift_readings_desync`: a verification's correction that saw the shift before its approval writes
  after it, and rewrites a frozen line the sales were posted from. The approval's lock makes it wait,
  and it then goes on.
* `stock_ledger_backfill`: a shift with one tank posted and one skipped can never post the second.
* `tank_reconciliation_race`: a movement between a seal's computation and its watermark is in no
  period's figures. With one request at a time the same property holds, as long as no stock is
  transferred: `Compute` leaves movements of kind `transfer` out of the book, so a transfer within the
  period puts the seal beside the dip by its litres, without any race.

The modules state more such sentences. No run lists them; with the configuration of their module's run
TLC refutes each (`BatchSkipsRaced` with two nozzles). They are kept for whoever changes the code they
are about:

| module | property | sentence | what happens |
| --- | --- | --- | --- |
| `OperatingDay` | `LockedDayIsApproved` | `operating_days_handlers.go`, "A day can't lock until every shift in it is approved" | the shifts are counted on the pool; a reopen and a new shift fit before the UPDATE, which tests the day's status only |
| `ShiftReadings` | `ApprovedIsVerified` | `shift_exceptions_handlers.go:139`, "cannot slip past approval unverified" | a capture or correction that read the shift before its approval writes its reading after it |
| `ShiftReadings` | `LitresNotNegative` | `reading_verification_handlers.go:370`, "would drive litres negative — reject it" | the close compares submitted figures, not final ones; one request at a time is enough |
| `ShiftReadings` | `LineCarriesFinal` | `shift_close_handlers.go:113`, "freeze the supervisor's final approved figure" | a verdict that lands while the close is in flight is not in the lines |
| `ShiftReadings` | `BatchSkipsRaced` | `reading_verification_handlers.go:231`, "exactly what this batch wanted" | the unique violation aborts the transaction, and with it the whole batch |
| `ShiftCash` | `ExpectedFollowsLines` | "so expected collection follows the approved figure" | a line corrected after the cash was submitted leaves expected amount, variance and exception as they were |
| `TankReconciliation` | `LedgerNeverDrifts` | `0027_tank_reconciliations.up.sql:15`, "the ledger never drifts from the sealed anchor" | an adjustment posted before the opening is in no period |
| `Scheduler` | `ReleaseDropsLock` | `scheduler.go:193`, "Release still drops the session lock" | the session goes back to the pool with the lock and keeps it until it is retired, which is why `JobKeepsRunning` still holds |
| `ScheduledReports` | `DeliveredOncePerPeriod` | `recurrence.go:151`, "to exactly one delivery" | the report goes out before the run row is inserted; a schedule edited within its period goes out again, and only the record is unique |
| `Revenue` | `RevenueJournaledOnce` | `revenue/repo.go:310`, "It is idempotent" | two replicas handle one event at the same time, each looks for the shift's entry before the other commits, and no index refuses the second |
| `Expenses` | `FloatMatchesLedger` | `expenses_handlers.go:584`, "the float can never drift from the GL" | a reconciliation overwrites the balance with a count compared to a balance read without a lock |
| `Finance` | `LockedPeriodIsFrozen` | `accounting/periods.go:167`, "locked periods reject everything" | the period's status is read without a lock; it may be closed and locked before the posting commits |
| `Purchasing` | `BlockedHasOpenDiscrepancy` | that the last resolution clears the invoice (`refreshInvoiceMatchStatus`) | two resolutions at once each count the other's discrepancy as open, and the invoice stays blocked |
| `Risk` | `ScoreFollowsAlerts` | `risk/scoring.go:11`, "rebuilds station risk scores from open alerts" | the upsert leaves the score of a station whose alerts were all resolved |
| `ReportRecords` | `ScopeHasOneChain` | `0113_report_snapshots.up.sql:94`, "ONE row per revision number", with a key that "MIRRORS MaxRevisionForChain" | the revision is looked up under the trimmed station and stored under the station as it came |
| `Fleet` | `StatementsJoinUp` | that one period's closing balance is the next one's opening (`statements.go:39`) | an entry is dated when its transaction begins; one that commits after the first statement is in the second one's opening only |

Three more differences are visible in the definitions themselves. `TrialBalance` (`reports.go:26`, "as
of a date") restricts the join with the entries and not the lines it sums, so the date changes nothing
in the model as in the code. `shiftClosedHasVariance` is said to report a variance and answers yes for
any expected cash but zero. `RecordOdometer` (`odometer.go:25`, "no read-then-insert gap") judges a reading in
the statement that inserts it, but two such statements at once both see the same maximum (`SeeOdometer`
and `handleRecordOdometer` are two steps for that reason).

## 5. What is proved

Every theorem is proved by TLAPS for all values of the constants, from the named assumptions of the
component's module: that "no value" markers lie outside the sets they mark the absence from, and that
bounds and figures are numbers. Each proof has the same outline: `Init => Inv`, then
`Inv /\ [Next]_vars => Inv'` with one step per action, then `PTL`; action properties and
implementations follow from `Inv` at each step.

* **OperatingDayProofs** (`ClosedDaySafe`, `LocksRespected`, `LockedForever`, `DayBookImplemented`).
  "A closed day has no open shift" is not inductive: a status request that has counted, or a shift
  request that has looked at the day, may be about to break it. `LockDiscipline` says what such a
  request still knows: a FOR SHARE holder's day is open, a FOR UPDATE holder excludes all other
  holders, and a request that counted none still has none. With it each commit step is a step of
  `DayBook`.
* **ShiftReadingsProofs** (`GateHoldsToCommit`, `LinesFromClose`, `ShiftNeverGoesBack`,
  `VerdictsAreFinal`). `InFlightDiscipline` carries what requests know of rows they loaded: that the
  rows are still there and that prepared lines are not empty.
* **ShiftCashProofs** (`VarianceNeverSlips`, `CollectionNeverSlips`, `ApprovalFreezesCash`,
  `ReceiptsAreFinal`). Final are the receipts that were received or approved with a difference; a
  rejected or flagged one is replaced by the next confirmation. `GateDiscipline` says, for each position of the approval, which of its gates
  are known to hold, and that nobody else can hold the shift's row meanwhile.
* **StockLedgerProofs** (`ChecksHoldToCommit`, `TankOpenedOnce`, `FlowsNeedOpening`,
  `LedgerAndLifecycleAgree`). The strengthening says which uncommitted rows a transaction can have
  (`OwnRows`) and which lifecycle row they come from (`OwnRef`). The heart is `StillAdmitted`: the
  tank's lock keeps everything that was checked under it true until the commit.
* **OutboxProofs** (`DeliveryIsExclusive`, `BudgetIsKept`, `OutboxKeepsPromise`). `MarksDelivered` says
  that what a publisher is about to mark was delivered from its own batch; exclusivity makes the
  rows in that batch still pending at the commit. A publisher whose session is lost has no claim: it
  may deliver a row again, which the abstract queue allows, and can mark none.
* **TankReconciliationProofs** (`WriteOffsCounted`, `WatermarksReached`, `SealsAreFinal`).
  `WatermarkHolds` relates the watermark a seal has read to the ledger it will append to; that needs
  `OneLock`, the exclusivity of the tank's lock, since nothing else keeps another row from taking the
  place of the seal's write-off.
* **SchedulerProofs** (`LockNeedsSession`, `BodiesAreExclusive`). `HolderIsLive`: the lock is held by a
  session that was not lost, of a replica that has not exited. `LockGuards`: a body whose session was
  not lost is in the session that holds the lock; `TicksHoldConnections`: two replicas never use one
  session.
* **BackofficeProofs**, four results over parts of the back office.
  `EnoughApprove`: an approved request has as many approvers as its policy asked for when it was raised,
  not its author and nobody against it. The inductive invariant `ApprovalInv` says that the counter on
  the request's row is the number of approving decision rows, which is what makes the comparison of the
  counter with the quorum mean anything; the step of a new decision rests on the cardinality of a set
  with one more member.
  `IndependentChanges`: a closed period has at most one pending change request and nobody decides their
  own (`ChangeInv`).
  `KeysHold`: a nozzle stands at its pump's and its tank's station and sells its tank's product, although
  the handler reads pump and tank before its transaction and a tank may change product meanwhile. The
  proof follows the composite foreign keys: `KeyInv` says of each row what its keys guarantee, and a
  pending request is allowed to be stale.
  `PriceIsUnique`: on every date the lookup of a customer's price at a station has one answer, the
  station's agreement before the general one, and none when the agreement it picks has no price;
  `PriceInv` says what the two unique indexes keep: no two active agreements have the same scope. The
  lookup has no caller in the repository yet.

Some proved properties are in no run, since their theorem says more than a small instance: the names
in brackets in the "about" of the theorems in `PROJECT.json`.

## 6. What is only model-checked

The liveness properties (`RowsSettle`, `EventsArePublished`, `JobKeepsRunning`, `StopDrains`,
`ExportsSettle`), since fairness is outside the prover's reach. `BalancesRun` and the properties of
`Ledger` and the modules over it: what a sum over a ledger, a journal or a set of documents of any size
is needs induction over a recursive function. `NextRunIsLeast` and `DeeperDipIsMore`: arithmetic over a
calendar and over interpolated charts, checked on all inputs of the instance. `NoDeadlock`,
`NoTransferDeadlock`, and the safety properties of `ExportJobs`, `ScheduledReports`, `Identity`,
`Workforce`, `Risk`, `ReportRecords`, `Consumers` and the statements of `Fleet`. The bounds in
`StockLedger`'s and `TankReconciliation`'s `TypeOK` (their proofs use weaker shapes of the state).

Some handlers are explored and have no property of their own: station groups and scope grants
(`EffectiveStations`, `UserScopes`), retention policies, the registry of contacts, vehicles and drivers,
insight rules, investigation cases. They write single rows and what they promise is the guard itself.

## 7. Abstractions a reader should know of

* `ShiftReadings` has one shift and `ShiftCash` too: their locks are per shift, and no step reads
  another shift's rows. The expected openings a handover derives from the previous shift are inputs.
* `ShiftCash` represents the lines by their total in money, which is all that expected cash uses.
* `TankReconciliation` takes every persisted draft as one step: the next computation overwrites its
  figures and a seal computes its own. A transfer's movement is a row with a sign of its own, whichever
  tank is at the other end. Tolerance is in percent of the book, as in the code.
* `Outbox` orders events by `occurred_at`, which it identifies with the event's number; commit order
  may differ from it, as the writers' step allows.
* `Scheduler` follows one job. Jobs have different lock keys and share only the connection pool, whose
  exhaustion makes a tick end early, which is a step of the model. When the session of a running body
  is lost the code goes on without the lock; `BodiesExclude` says exactly that this is the only way
  for two bodies to overlap.
* `ExportJobs` has no clock: `stale` stands for a claim older than `exportJobStaleAfter`, and a claim
  gets that old only when nobody works on it, since a render and the write of its outcome are cut off
  long before.
* `Ledger` keeps the lines of an entry as the net debit of each account, and one period per date. A
  posting is two steps, the read of the period and the commit; the sub-ledgers' documents change in the
  second.
* `Finance` posts the goods received of `Purchasing` to the journal and not to the stock ledger; the
  movement of a receipt is an action of `StockLedger`.
* `Distribution` writes a transfer's two movements as a change of the tanks' sums; the running balances
  of the rows are `StockLedger`'s subject.
* `Expenses` has no status of a float: floats are created active and nothing changes it, so the test for
  it (`petty_cash.go:151`) never refuses.
* `Banking` keeps of the payments only a day's cash, which is what a cash reconciliation sums.
* `Identity` has the login bucket of an account and not the one of an address: a login the second refuses
  changes nothing the module keeps. It takes password hashes, tokens and one-time codes as values that are equal or not, and the
  roles' permissions as a constant.
* `Risk` takes the records its evaluators query as observations that come and go (`Observe`), and a
  pass's recomputed scores as seen together with its alerts, at the commit.
* `ReportRecords` takes the canonical form of a report and its hash as the captured content itself.
* `Consumers` leaves out the text of a notification; its severity decides who gets an email.

## 8. What is not modelled, and the plan

1. *Offline queue* of the web application: enqueue, replay, conflict, restart, against a server that
   may have applied a request whose answer was lost. It is the largest part with a protocol of its own
   that has no module; the server's side of a repeated request is in `Credit` (keyed tenders) and `Risk`
   (incidents reported from the queue).
2. *Composition*: goods receipts with `StockLedger`, and the approval of a shift over readings, cash and
   stock at once. Each pair meets on one row's lock that both modules already have.
3. *Shift handover*: the expected openings of the next shift and their acknowledgement.
4. *Tank reconciliation*: variance reports, anomaly records and the incident a seal may raise.
5. *Roles and platform administration*; load shedding's in-flight counter.

Left out for good: reporting, report builder, dashboards, PDF and Excel rendering (read-only
compositions of committed rows), attachments and branding (blobs fetched by id), observability (no state
the rest reads), the SDK and the presentation part of the web application, generated code.
