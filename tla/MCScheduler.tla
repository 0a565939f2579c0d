---------------------------- MODULE MCScheduler ----------------------------
(***************************************************************************)
(* The background work of the API on a small instance: the scheduler's     *)
(* ticks with two replicas of two pooled connections each, the export      *)
(* worker with two replicas, and the scheduled reports with their export   *)
(* receipts.  They share no table except export_jobs, which the exports    *)
(* and the scheduled reports both write, so a behaviour explores one area: *)
(*   "ticks"       the job runner of the scheduler;                        *)
(*   "exports"     the export queue, its workers, crashes and lost locks;  *)
(*   "schedules"   a daily report over a year's end, edited, dispatched by *)
(*                 the tick or by hand, its receipt racing the worker;     *)
(*   "recurrence"  one schedule of each kind set up at awkward instants;   *)
(*   "edits"       two requests that change the same schedule.             *)
(* No symmetry: the run checks liveness.                                   *)
(***************************************************************************)
EXTENDS Scheduler, ScheduledReports

CONSTANTS a, b, e1, e2, w1, w2

VARIABLE area

backgroundVars == <<area, tick, conn, lost, holder, depth, stopping, faults, job, worker, lock, exportFaults,
                    clock, sched, run, sent, task, edit, edits>>

Replicas == {a, b}
Slots    == 1..2
MCEditors == {e1, e2}
MCWorkers == {w1, w2}

(* A day of two hours of two minutes; the calendar is the real one.        *)
YearEnd == At(2026, 12, 31, 1, 1)
MCHorizon == At(2027, 1, 1, 1, 0)
MCStarts ==
  {YearEnd, At(2027, 1, 31, 0, 1), At(2027, 2, 28, 1, 1), At(2028, 2, 28, 0, 0), At(2028, 2, 29, 1, 0),
   At(2027, 4, 30, 0, 1), At(2027, 11, 30, 1, 1), At(2100, 2, 28, 1, 1)}

Daily == {[frequency |-> "daily", hour |-> h, minute |-> 0] : h \in 0..1}
Recurrences ==
  Daily \cup {[frequency |-> "weekly", hour |-> 1, minute |-> 0, day |-> d] : d \in 0..7}
        \cup {[frequency |-> "monthly", hour |-> 0, minute |-> 1, day |-> d] : d \in {0, 1, 15, 28, 29, 30, 31}}
        \cup {[frequency |-> "cron", min |-> {1}, hour |-> {0, 1}, dom |-> {1, 31}, mon |-> 1..12, dow |-> dow] :
                dow \in {0..6, {7}, {}}}

(* Outside "ticks" the replicas' schedulers have drained.                  *)
MCInit ==
  /\ area \in {"ticks", "exports", "schedules", "recurrence", "edits"}
  /\ conn = [r \in Replica |-> NoConn] /\ lost = {} /\ holder = NoConn /\ depth = 0 /\ stopping = {} /\ faults = 0
  /\ tick = [r \in Replica |-> IF area = "ticks" THEN "waiting" ELSE "exited"]
  /\ ExportJobsInit
  /\ ScheduledReportsInit
  /\ (area # "recurrence" => clock = YearEnd)

Ticks == Next /\ UNCHANGED <<exportTables, scheduledTables>>

Exports == ExportJobsNext /\ UNCHANGED scheduledTables

(* One worker, one job and one edit are enough to race a receipt and a     *)
(* dispatch.                                                               *)
Schedule ==
  /\ ScheduledReportsNext
  /\ edits' <= 1 /\ Len(job') <= 1 /\ exportFaults' = 0
  /\ edit'[e2] = NoEdit /\ worker'[w2] = worker[w2]

Recur == \E s \in Recurrences : handleCreateScheduledReport(s, "email") /\ UNCHANGED <<worker, lock, exportFaults>>

(* No dispatch, so that two edits can overlap at every instant.            *)
Edits ==
  /\ \/ ScheduleStep
     \/ Pass /\ clock < MCHorizon
  /\ UNCHANGED <<worker, lock, exportFaults>>

MCNext ==
  /\ UNCHANGED area
  /\ \/ area = "ticks" /\ Ticks
     \/ area = "exports" /\ Exports /\ UNCHANGED vars
     \/ area = "schedules" /\ Schedule /\ UNCHANGED vars
     \/ area = "recurrence" /\ Recur /\ UNCHANGED vars
     \/ area = "edits" /\ Edits /\ UNCHANGED vars

TakesPart(w) == area = "exports" \/ (area = "schedules" /\ w = w1)

(* The scheduler's own fairness; a worker that can go on does, and is      *)
(* started again after a crash; the pool retires idle connections; a claim *)
(* that nobody renders grows stale.                                        *)
MCFairSpec ==
  /\ MCInit /\ [][MCNext]_backgroundVars
  /\ Fairness
  /\ \A w \in Workers : WF_backgroundVars(TakesPart(w) /\ WorkerNext(w) /\ UNCHANGED <<area, vars, scheduledTables>>)
  /\ \A w \in Workers : WF_backgroundVars(area = "exports" /\ RetireConnection(w) /\ UNCHANGED <<area, vars, scheduledTables>>)
  /\ \A j \in 1..MaxJobs : WF_backgroundVars(j \in DOMAIN job /\ Age(j) /\ UNCHANGED <<area, vars, scheduledTables>>)
=============================================================================
