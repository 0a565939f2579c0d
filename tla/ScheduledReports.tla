-------------------------- MODULE ScheduledReports --------------------------
(***************************************************************************)
(* Scheduled report delivery: the recurrence of a schedule, the rows of    *)
(* scheduled_reports and scheduled_report_runs, and the dispatch of what   *)
(* is due.                                                                 *)
(*                                                                         *)
(* An instant is a number of minutes since 1 January of year 0, in a day   *)
(* of HoursPerDay hours of MinutesPerHour minutes (24 and 60 in the code); *)
(* the days, weeks, months and years are those of the calendar.            *)
(*                                                                         *)
(* A claim commits before anything is delivered; the delivery, the receipt *)
(* in export_jobs, the run row and the health of the schedule follow in    *)
(* steps of their own.  A request computes next_run_at before it writes.   *)
(***************************************************************************)
EXTENDS ExportJobs, Integers

CONSTANTS
  HoursPerDay, MinutesPerHour,
  Starts,       \* instants at which a behaviour may begin
  Schedules,    \* recurrences a user may ask for
  Horizon,      \* the instant at which the clock stops
  Channels,     \* delivery channels a schedule may have
  Recipients,   \* how many recipients it has
  Editors,      \* concurrent requests that change the schedule
  MaxEdits,     \* bound on the edits, the runs by hand and the crashes
  Unscheduled

VARIABLES
  clock,        \* time.Now(), in minutes
  sched,        \* the row of scheduled_reports; next_run_at was worked out for the recurrence of, at computed
  run,          \* scheduled_report_runs, by period key
  sent,         \* how often the report of each period went out to its recipients
  task,         \* the dispatch under way, by who started it
  edit,         \* each request that changes the schedule: what it will write
  edits         \* how many of those there were

scheduledTables == <<clock, sched, run, sent, task, edit, edits>>

----------------------------------------------------------------------------
\* The calendar (package time).  Day 1 of year 1 was a Monday; Sunday is 0.
MinutesPerDay == HoursPerDay * MinutesPerHour
Leap(y) == y % 4 = 0 /\ (y % 100 # 0 \/ y % 400 = 0)
DaysBeforeYear(y) == 365 * y + ((y + 3) \div 4) - ((y + 99) \div 100) + ((y + 399) \div 400)
DaysIn(y, m) == IF m = 2 THEN (IF Leap(y) THEN 29 ELSE 28) ELSE IF m \in {4, 6, 9, 11} THEN 30 ELSE 31
DaysBeforeMonth(y, m) == <<0, 31, 59, 90, 120, 151, 181, 212, 243, 273, 304, 334>>[m] + (IF m > 2 /\ Leap(y) THEN 1 ELSE 0)

Day(t) == t \div MinutesPerDay
Hour(t) == (t % MinutesPerDay) \div MinutesPerHour
Minute(t) == t % MinutesPerHour
Year(t) == CHOOSE y \in (Day(t) \div 366)..(Day(t) \div 365) : DaysBeforeYear(y) <= Day(t) /\ Day(t) < DaysBeforeYear(y + 1)
Month(t) == CHOOSE m \in 1..12 : LET d == Day(t) - DaysBeforeYear(Year(t)) - DaysBeforeMonth(Year(t), m)
                                 IN d >= 0 /\ d < DaysIn(Year(t), m)
MonthDay(t) == Day(t) - DaysBeforeYear(Year(t)) - DaysBeforeMonth(Year(t), Month(t)) + 1
Weekday(t) == (Day(t) + 6) % 7
At(y, m, d, h, mi) == (DaysBeforeYear(y) + DaysBeforeMonth(y, m) + d - 1) * MinutesPerDay + h * MinutesPerHour + mi
ISOWeek(t) == (Day(t) - ((Weekday(t) + 6) % 7)) \div 7

----------------------------------------------------------------------------
\* Recurrence.
validHourMinute(h, m) == h \in 0..(HoursPerDay - 1) /\ m \in 0..(MinutesPerHour - 1)

parseCron(c) ==
  /\ c.min # {} /\ c.min \subseteq 0..(MinutesPerHour - 1)
  /\ c.hour # {} /\ c.hour \subseteq 0..(HoursPerDay - 1)
  /\ c.dom # {} /\ c.dom \subseteq 1..31
  /\ c.mon # {} /\ c.mon \subseteq 1..12
  /\ c.dow # {} /\ c.dow \subseteq 0..7

Validate(s) ==
  CASE s.frequency = "daily" -> validHourMinute(s.hour, s.minute)
    [] s.frequency = "weekly" -> validHourMinute(s.hour, s.minute) /\ s.day \in 0..6
    [] s.frequency = "monthly" -> validHourMinute(s.hour, s.minute) /\ s.day \in 1..31
    [] s.frequency = "cron" -> parseCron(s)

clampDay(y, m, d) == IF d > DaysIn(y, m) THEN DaysIn(y, m) ELSE IF d < 1 THEN 1 ELSE d

Today(s, after) == Day(after) * MinutesPerDay + s.hour * MinutesPerHour + s.minute

\* Mutant: the instant that was just handled counts as the next one.
nextDailyAgain(s, after) == IF Today(s, after) >= after THEN Today(s, after) ELSE Today(s, after) + MinutesPerDay

nextDaily(s, after) == IF Today(s, after) > after THEN Today(s, after) ELSE Today(s, after) + MinutesPerDay

nextWeekly(s, after) ==
  LET cand(i) == Today(s, after) + i * MinutesPerDay
      hits == {i \in 0..7 : Weekday(cand(i)) = s.day /\ cand(i) > after}
  IN cand(IF hits = {} THEN 8 ELSE CHOOSE i \in hits : \A k \in hits : i <= k)

nextMonthly(s, after) ==
  LET month(i) == Month(after) + i
      y(i) == Year(after) + ((month(i) - 1) \div 12)
      m(i) == ((month(i) - 1) % 12) + 1
      cand(i) == At(y(i), m(i), clampDay(y(i), m(i), s.day), s.hour, s.minute)
      hits == {i \in 0..13 : cand(i) > after}
  IN IF hits = {} THEN 0 ELSE cand(CHOOSE i \in hits : \A k \in hits : i <= k)

Dow(c) == {d % 7 : d \in c.dow}

cronMatches(c, t) ==
  LET domOK == MonthDay(t) \in c.dom
      dowOK == Weekday(t) \in Dow(c)
      domRestricted == Cardinality(c.dom) # 31
      dowRestricted == Cardinality(Dow(c)) # 7
  IN /\ Month(t) \in c.mon /\ Hour(t) \in c.hour /\ Minute(t) \in c.min
     /\ CASE domRestricted /\ dowRestricted -> domOK \/ dowOK
          [] domRestricted -> domOK
          [] dowRestricted -> dowOK
          [] OTHER -> TRUE

\* The scan goes minute by minute for a year and a day, and returns where it stops.
nextCron(c, after) ==
  LET limit == At(Year(after) + 1, Month(after), MonthDay(after) + 1, Hour(after), Minute(after))
  IN CHOOSE t \in (after + 1)..limit : (t = limit \/ cronMatches(c, t)) /\ \A u \in (after + 1)..(t - 1) : ~cronMatches(c, u)

\* Zero stands for the error.
NextRunAfter(s, after) ==
  CASE ~Validate(s) -> 0
    [] s.frequency = "daily" -> nextDaily(s, after)
    [] s.frequency = "weekly" -> nextWeekly(s, after)
    [] s.frequency = "monthly" -> nextMonthly(s, after)
    [] s.frequency = "cron" -> nextCron(s, after)

PeriodKey(s, t) ==
  CASE s.frequency = "daily" -> <<"day", Day(t)>>
    [] s.frequency = "weekly" -> <<"week", ISOWeek(t)>>
    [] s.frequency = "monthly" -> <<"month", 12 * Year(t) + Month(t)>>
    [] s.frequency = "cron" -> <<"minute", t>>

----------------------------------------------------------------------------
Triggers == {"tick", "manual"}
NoTask == [at |-> "none"]
NoEdit == [at |-> "none"]
None == [k \in {} |-> 0]

ScheduledReportsInit ==
  /\ clock \in Starts
  /\ sched = Unscheduled
  /\ run = None /\ sent = None
  /\ task = [g \in Triggers |-> NoTask]
  /\ edit = [e \in Editors |-> NoEdit]
  /\ edits = 0

Pass == clock' = clock + 1 /\ UNCHANGED <<job, sched, run, sent, task, edit, edits>>

\* next_run_at as a request or a claim works it out from a recurrence it read.
Planned(s) == [next |-> NextRunAfter(s, clock), computed |-> clock, of |-> s]

handleCreateScheduledReport(s, c) ==
  /\ sched = Unscheduled /\ run = None /\ Validate(s)
  /\ sched' = [schedule |-> s, channel |-> c, enabled |-> TRUE, status |-> "active", plan |-> Planned(s)]
  /\ UNCHANGED <<job, clock, run, sent, task, edit, edits>>

Begin(e, write) ==
  /\ sched # Unscheduled /\ edit[e] = NoEdit /\ edits < MaxEdits
  /\ edit' = [edit EXCEPT ![e] = write] /\ edits' = edits + 1
  /\ UNCHANGED <<job, clock, sched, run, sent, task>>

\* Both handlers read the row and work out next_run_at before they write.
handleUpdateScheduledReport(e, s) == Validate(s) /\ Begin(e, [at |-> "update", schedule |-> s, plan |-> Planned(s)])

handleSetScheduledReportEnabled(e, b) ==
  Begin(e, [at |-> "enable", enabled |-> b, plan |-> IF b THEN Planned(sched.schedule) ELSE sched.plan])

Write(e, row) ==
  /\ sched' = IF sched = Unscheduled THEN sched ELSE row
  /\ edit' = [edit EXCEPT ![e] = NoEdit]
  /\ UNCHANGED <<job, clock, run, sent, task, edits>>

Update(e) ==
  /\ edit[e].at = "update"
  /\ Write(e, [sched EXCEPT !.schedule = edit[e].schedule, !.plan = edit[e].plan])

SetEnabled(e) ==
  /\ edit[e].at = "enable"
  /\ Write(e, [sched EXCEPT !.enabled = edit[e].enabled, !.status = IF edit[e].enabled THEN "active" ELSE "paused",
                            !.plan = edit[e].plan])

\* The runs go with their schedule.
handleDeleteScheduledReport ==
  /\ sched # Unscheduled /\ edits < MaxEdits /\ edits' = edits + 1
  /\ sched' = Unscheduled /\ run' = None
  /\ UNCHANGED <<job, clock, sent, task, edit>>

----------------------------------------------------------------------------
\* Dispatch.  g is the scheduler's tick, one at a time, or a run asked for by hand.
Far == 36525 * MinutesPerDay

\* The claim moves next_run_at on and remembers the instant that was due.
ClaimDue ==
  /\ sched # Unscheduled /\ sched.enabled /\ sched.plan.next <= clock
  /\ LET plan == Planned(sched.schedule) IN
     sched' = IF plan.next = 0 THEN [sched EXCEPT !.plan = [plan EXCEPT !.next = clock + Far], !.status = "error"]
                              ELSE [sched EXCEPT !.plan = plan]

Dispatch(g, key) ==
  task' = [task EXCEPT ![g] = [at |-> "render", key |-> key, channel |-> sched.channel, receipt |-> 0, status |-> "success", health |-> "active"]]

RunDue ==
  /\ task["tick"] = NoTask
  /\ ClaimDue
  /\ Dispatch("tick", PeriodKey(sched.schedule, sched.plan.next))
  /\ UNCHANGED <<job, clock, run, sent, edit, edits>>

handleRunScheduledReportNow ==
  /\ task["manual"] = NoTask /\ sched # Unscheduled /\ edits < MaxEdits /\ edits' = edits + 1
  /\ Dispatch("manual", <<"manual", edits>>)
  /\ UNCHANGED <<job, clock, sched, run, sent, edit>>

Move(g, t) == task' = [task EXCEPT ![g] = t]

\* The owner's permission is read again, then the report is rendered.
Render(g) ==
  /\ task[g].at = "render"
  /\ \/ Move(g, [task[g] EXCEPT !.at = "enqueue"])
     \/ \E s \in {"failed", "skipped_forbidden"} : Move(g, [task[g] EXCEPT !.at = "refuse", !.status = s, !.health = "error"])
  /\ UNCHANGED <<job, clock, sched, run, sent, edit, edits>>

\* storeScheduledExport: the receipt is queued, then completed in place.
EnqueueReceipt(g) ==
  /\ task[g].at = "enqueue"
  /\ Enqueue
  /\ Move(g, [task[g] EXCEPT !.at = "complete", !.receipt = Len(job) + 1])
  /\ UNCHANGED <<clock, sched, run, sent, edit, edits>>

\* The run goes on without one when it cannot be queued.
NoReceipt(g) ==
  /\ task[g].at = "enqueue"
  /\ Move(g, [task[g] EXCEPT !.at = "deliver"])
  /\ UNCHANGED <<job, clock, sched, run, sent, edit, edits>>

\* Mutant: the id is returned although the receipt was claimed meanwhile.
KeepReceipt(g) ==
  /\ IF job[task[g].receipt].status = "queued" THEN CompleteQueued(task[g].receipt) ELSE UNCHANGED job
  /\ Move(g, [task[g] EXCEPT !.at = "deliver"])

\* The run has no receipt when the export worker claimed the row in between.
CompleteReceipt(g) ==
  \/ CompleteQueued(task[g].receipt) /\ Move(g, [task[g] EXCEPT !.at = "deliver"])
  \/ /\ job[task[g].receipt].status # "queued"
     /\ Move(g, [task[g] EXCEPT !.at = "deliver", !.receipt = 0])
     /\ UNCHANGED job

storeScheduledExport(g) ==
  \/ EnqueueReceipt(g) \/ NoReceipt(g)
  \/ task[g].at = "complete" /\ CompleteReceipt(g) /\ UNCHANGED <<clock, sched, run, sent, edit, edits>>

\* What a channel may come back with: recipients served, recipients without the
\* permission, and whether a send failed.
Tallies == {x \in [delivered : 0..Recipients, skipped : 0..Recipients, err : BOOLEAN] :
              x.delivered + x.skipped + (IF x.err THEN 1 ELSE 0) <= Recipients}

deliverInApp == Tallies

\* Without a sender nothing is tried.
deliverEmail == Tallies \cup {[delivered |-> 0, skipped |-> 0, err |-> TRUE]}

\* One post, refused or answered with an error, or accepted.
deliverWebhook == {x \in Tallies : x.skipped = 0 /\ x.delivered = (IF x.err THEN 0 ELSE 1)}

Served(c) == CASE c = "in_app" -> deliverInApp [] c = "email" -> deliverEmail [] c = "webhook" -> deliverWebhook

RunStatus(x) ==
  CASE x.err /\ x.delivered = 0 -> "failed"
    [] x.err -> "partial"
    [] x.skipped > 0 /\ x.delivered = 0 -> "skipped_forbidden"
    [] x.skipped > 0 -> "partial"
    [] OTHER -> "success"

Count(f, k) == [x \in DOMAIN f \cup {k} |-> IF x # k THEN f[x] ELSE IF k \in DOMAIN f THEN f[k] + 1 ELSE 1]

Deliver(g) ==
  /\ task[g].at = "deliver"
  /\ \E x \in Served(task[g].channel) :
        /\ sent' = IF x.delivered > 0 THEN Count(sent, task[g].key) ELSE sent
        /\ Move(g, [task[g] EXCEPT !.at = "record", !.status = RunStatus(x),
                                   !.health = IF RunStatus(x) = "failed" THEN "error" ELSE "active"])
  /\ UNCHANGED <<job, clock, sched, run, edit, edits>>

\* A second run of a period is refused by the unique index, and ends there when it
\* delivered; one that was not rendered goes on to mark the schedule.
RecordRun(g) ==
  /\ task[g].at \in {"record", "refuse"}
  /\ LET k == task[g].key
         duplicate == k \in DOMAIN run
     IN /\ Move(g, IF duplicate /\ task[g].at = "record" THEN NoTask ELSE [task[g] EXCEPT !.at = "mark"])
        /\ run' = IF duplicate \/ sched = Unscheduled THEN run
                  ELSE [x \in DOMAIN run \cup {k} |-> IF x = k THEN [status |-> task[g].status, receipt |-> task[g].receipt] ELSE run[x]]
  /\ UNCHANGED <<job, clock, sched, sent, edit, edits>>

MarkStatus(g) ==
  /\ task[g].at = "mark"
  /\ sched' = IF sched = Unscheduled THEN sched ELSE [sched EXCEPT !.status = task[g].health]
  /\ Move(g, NoTask)
  /\ UNCHANGED <<job, clock, run, sent, edit, edits>>

dispatchOne(g) == Render(g) \/ storeScheduledExport(g) \/ Deliver(g) \/ RecordRun(g) \/ MarkStatus(g)

\* The dispatcher dies after the claim: nothing runs the period again.
DispatchCrash(g) ==
  /\ task[g] # NoTask /\ edits < MaxEdits /\ edits' = edits + 1
  /\ Move(g, NoTask)
  /\ UNCHANGED <<job, clock, sched, run, sent, edit>>

ScheduleStep ==
  \/ \E s \in Schedules, c \in Channels : handleCreateScheduledReport(s, c)
  \/ \E e \in Editors, s \in Schedules : handleUpdateScheduledReport(e, s)
  \/ \E e \in Editors, b \in BOOLEAN : handleSetScheduledReportEnabled(e, b)
  \/ \E e \in Editors : Update(e) \/ SetEnabled(e)
  \/ handleDeleteScheduledReport

DispatchStep ==
  \/ RunDue \/ handleRunScheduledReportNow
  \/ \E g \in Triggers : dispatchOne(g) \/ DispatchCrash(g)

ScheduledReportsNext ==
  \/ (ScheduleStep \/ DispatchStep) /\ UNCHANGED <<worker, lock, exportFaults>>
  \/ Pass /\ clock < Horizon /\ UNCHANGED <<worker, lock, exportFaults>>
  \/ /\ \/ \E w \in Workers : WorkerNext(w)
        \/ \E j \in DOMAIN job : Age(j)
     /\ UNCHANGED scheduledTables

----------------------------------------------------------------------------
\* The reference: the instants a recurrence names, and the first one after an instant.
Occurs(s, t) ==
  /\ Hour(t) = s.hour /\ Minute(t) = s.minute
  /\ s.frequency = "weekly" => Weekday(t) = s.day
  /\ s.frequency = "monthly" => MonthDay(t) = s.day \/ (MonthDay(t) < s.day /\ MonthDay(t + MinutesPerDay) = 1)

LongestGap == 62 * MinutesPerDay

Earliest(s, after) == CHOOSE t \in (after + 1)..(after + LongestGap) : Occurs(s, t) /\ \A u \in (after + 1)..(t - 1) : ~Occurs(s, u)

\* next_run_at is the first instant, strictly after the moment it was worked out,
\* that the recurrence names: no occurrence is skipped or repeated over the ends of
\* months and years and in months without the day (Schedule.NextRunAfter).
NextRunIsLeast ==
  sched # Unscheduled /\ sched.plan.of.frequency # "cron" => sched.plan.next = Earliest(sched.plan.of, sched.plan.computed)

\* A run that names an export names one that can be downloaded, although the export
\* worker takes any queued row, the receipt between its two statements included.
ReceiptIsDownloadable == \A k \in DOMAIN run : run[k].receipt # 0 => exportJobView(run[k].receipt)

\* A job that completed or failed never changes again: the worker and the dispatcher
\* that both complete the same row leave the bytes of the first (Complete, Fail and
\* CompleteQueued are guarded by the status).
ResultIsFinal == [][\A j \in DOMAIN job : job[j].status \in {"completed", "failed"} => job'[j] = job[j]]_<<job, scheduledTables>>

\* What recurrence.go says of PeriodKey ("collapses a duplicated/missed-tick run to
\* exactly one delivery"): a period goes out to its recipients once.  TLC refutes it:
\* the report goes out before the run row that is unique per period is inserted.
DeliveredOncePerPeriod == \A k \in DOMAIN sent : sent[k] <= 1
=============================================================================
