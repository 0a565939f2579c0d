----------------------------- MODULE ExportJobs -----------------------------
(***************************************************************************)
(* Background report exports: the export_jobs table and the worker of each *)
(* API replica that drains it.                                             *)
(*                                                                         *)
(* A worker takes an advisory lock on a connection of its own, re-queues   *)
(* the jobs whose worker died, then claims and renders up to a batch of    *)
(* jobs, each claim and each outcome a statement of its own on the pool.   *)
(* Jobs are numbered in the order of created_at.                           *)
(*                                                                         *)
(* stale stands for started_at < now - exportJobStaleAfter.  A render and  *)
(* the write of its outcome are cut off after 60 and 15 seconds, so a      *)
(* claim only gets that old (three minutes) once nobody works on it.       *)
(***************************************************************************)
EXTENDS Naturals, Sequences, FiniteSets

CONSTANTS
  Workers,          \* replicas of the API
  MaxJobs,          \* bound on the table
  exportWorkerBatch,
  maxExportAttempts,
  MaxExportFaults,        \* bound on crashes, stops, lost sessions and failed statements
  Nobody

ASSUME ExportJobsAssumption ==
  /\ exportWorkerBatch \in Nat \ {0} /\ maxExportAttempts \in Nat \ {0}
  /\ Nobody \notin Workers

VARIABLES
  job,              \* export_jobs, in order of created_at
  worker,           \* each worker: where it is, the job it holds, claims left in the batch
  lock,             \* the advisory lock: the worker whose session holds it, and how often it took it
  exportFaults

exportTables == <<job, worker, lock, exportFaults>>

Idle == [at |-> "idle", job |-> 0, left |-> 0]
Unlocked == [by |-> Nobody, depth |-> 0]

ExportJobsInit ==
  /\ job = <<>>
  /\ worker = [w \in Workers |-> Idle]
  /\ lock = Unlocked
  /\ exportFaults = 0

New(status) == [status |-> status, attempts |-> 0, stale |-> FALSE, result |-> FALSE]

Insert(row) == Len(job) < MaxJobs /\ job' = Append(job, row)

Enqueue == Insert(New("queued"))

Create == Insert(New("completed"))

\* The jobs whose download link the list and the status page show.
exportJobView(j) == job[j].status = "completed" /\ job[j].result

enqueueAsyncExport == Enqueue /\ UNCHANGED <<worker, lock, exportFaults>>

\* A report with a builder is queued; the others only record the URL that streams them.
handleCreateExportJob == enqueueAsyncExport \/ (Create /\ UNCHANGED <<worker, lock, exportFaults>>)

----------------------------------------------------------------------------
Queued == {j \in DOMAIN job : job[j].status = "queued"}
Oldest(S) == CHOOSE j \in S : \A k \in S : j <= k

\* Mutant: only the retry limit is applied.
ReclaimStaleAtLimit ==
  job' = [j \in DOMAIN job |-> IF job[j].status = "running" /\ job[j].stale /\ job[j].attempts >= maxExportAttempts
                              THEN [job[j] EXCEPT !.status = "failed"] ELSE job[j]]

ReclaimStale ==
  job' = [j \in DOMAIN job |->
            CASE job[j].status # "running" \/ ~job[j].stale -> job[j]
              [] job[j].attempts >= maxExportAttempts -> [job[j] EXCEPT !.status = "failed"]
              [] OTHER -> [job[j] EXCEPT !.status = "queued", !.stale = FALSE]]

ClaimNext(j) ==
  /\ Queued # {} /\ j = Oldest(Queued)
  /\ job' = [job EXCEPT ![j].status = "running", ![j].stale = FALSE, ![j].attempts = @ + 1]

Complete(j) == job' = IF job[j].status = "running" THEN [job EXCEPT ![j].status = "completed", ![j].result = TRUE] ELSE job

Fail(j) == job' = IF job[j].status = "running" THEN [job EXCEPT ![j].status = "failed"] ELSE job

\* Mutant: the receipt of a scheduled run is completed whatever became of it.
CompleteQueuedAnyway(j) == job' = [job EXCEPT ![j].status = "completed", ![j].result = TRUE]

\* The receipt of a scheduled run, completed without going through the worker.
CompleteQueued(j) ==
  /\ job[j].status = "queued"
  /\ job' = [job EXCEPT ![j].status = "completed", ![j].result = TRUE]

----------------------------------------------------------------------------
ExportFault == exportFaults < MaxExportFaults /\ exportFaults' = exportFaults + 1

\* pg_advisory_unlock, which undoes one lock of the session.
UnlockQueue(w) ==
  lock' = IF lock.by # w THEN lock ELSE IF lock.depth = 1 THEN Unlocked ELSE [lock EXCEPT !.depth = @ - 1]

EndSession(w) == lock' = IF lock.by = w THEN Unlocked ELSE lock

\* pg_try_advisory_lock, the first statement of drainExportQueue.
TryLockQueue(w) ==
  /\ worker[w].at = "idle" /\ lock.by \in {Nobody, w}
  /\ lock' = [by |-> w, depth |-> lock.depth + 1]
  /\ worker' = [worker EXCEPT ![w].at = "locked"]
  /\ UNCHANGED <<job, exportFaults>>

\* A worker that finds the lock taken returns.
LockQueue(w) == lock = Unlocked /\ TryLockQueue(w)

\* The tick draws from the pool the very connection that still holds the lock.
RelockQueue(w) == lock.by = w /\ TryLockQueue(w)

\* The sweep may fail; the batch goes on all the same.
Reclaim(w) ==
  /\ worker[w].at = "locked"
  /\ worker' = [worker EXCEPT ![w].at = "claiming", ![w].left = exportWorkerBatch]
  /\ \/ ReclaimStale /\ UNCHANGED exportFaults
     \/ ExportFault /\ UNCHANGED job
  /\ UNCHANGED lock

Claim(w, j) ==
  /\ worker[w].at = "claiming" /\ worker[w].left > 0
  /\ ClaimNext(j)
  /\ worker' = [worker EXCEPT ![w].at = "rendering", ![w].job = j]
  /\ UNCHANGED <<lock, exportFaults>>

\* Nothing is queued, or the batch is over.
BatchIsOver(w) == worker[w].at = "claiming" /\ (Queued = {} \/ worker[w].left = 0)

EndBatch(w) ==
  /\ BatchIsOver(w)
  /\ worker' = [worker EXCEPT ![w] = Idle]
  /\ UnlockQueue(w)
  /\ UNCHANGED <<job, exportFaults>>

\* An error of the claim ends the batch; the claim may have been made all the same.
ClaimFails(w) ==
  /\ worker[w].at = "claiming" /\ worker[w].left > 0
  /\ ExportFault
  /\ UNCHANGED job \/ \E j \in DOMAIN job : ClaimNext(j)
  /\ worker' = [worker EXCEPT ![w] = Idle]
  /\ UnlockQueue(w)

\* The unlock is only logged when it fails: the session goes back to the pool with its lock.
UnlockQueueFails(w) ==
  /\ BatchIsOver(w) /\ lock.by = w
  /\ ExportFault
  /\ worker' = [worker EXCEPT ![w] = Idle]
  /\ UNCHANGED <<job, lock>>

\* The pool closes an idle connection at the end of its lifetime.
RetireConnection(w) ==
  /\ lock.by = w /\ worker[w].at = "idle"
  /\ EndSession(w)
  /\ UNCHANGED <<job, worker, exportFaults>>

drainExportQueue(w) == LockQueue(w) \/ Reclaim(w) \/ (\E j \in DOMAIN job : Claim(w, j)) \/ EndBatch(w)

\* The outcome is written, or the write itself fails and the job stays running.
processExportJob(w) ==
  /\ worker[w].at = "rendering"
  /\ \/ (Complete(worker[w].job) \/ Fail(worker[w].job)) /\ UNCHANGED exportFaults
     \/ ExportFault /\ UNCHANGED job
  /\ worker' = [worker EXCEPT ![w] = [at |-> "claiming", job |-> 0, left |-> @.left - 1]]
  /\ UNCHANGED lock

\* A stop cancels the render, which fails the job, and waits for the worker to leave;
\* then the process closes its pool.
stopExportWorker(w) ==
  /\ worker[w].at # "stopped"
  /\ ExportFault
  /\ IF worker[w].at = "rendering" THEN Fail(worker[w].job) ELSE UNCHANGED job
  /\ worker' = [worker EXCEPT ![w] = [Idle EXCEPT !.at = "stopped"]]
  /\ EndSession(w)

startExportWorker(w) ==
  /\ worker[w].at = "stopped"
  /\ worker' = [worker EXCEPT ![w] = Idle]
  /\ UNCHANGED <<job, lock, exportFaults>>

----------------------------------------------------------------------------
\* The process dies: its session ends and the lock with it.
CrashWorker(w) ==
  /\ worker[w].at # "stopped"
  /\ ExportFault
  /\ worker' = [worker EXCEPT ![w] = [Idle EXCEPT !.at = "stopped"]]
  /\ EndSession(w)
  /\ UNCHANGED job

\* The connection that holds the lock is dropped while the worker goes on.
LoseLock(w) == lock.by = w /\ ExportFault /\ EndSession(w) /\ UNCHANGED <<job, worker>>

Rendering(j) == \E w \in Workers : worker[w].at = "rendering" /\ worker[w].job = j

\* Mutant: exportJobStaleAfter shorter than the render timeout.
AgeEarly(j) == /\ job[j].status = "running" /\ ~job[j].stale
               /\ job' = [job EXCEPT ![j].stale = TRUE] /\ UNCHANGED <<worker, lock, exportFaults>>

\* Three minutes pass since the claim.
Age(j) ==
  /\ job[j].status = "running" /\ ~job[j].stale /\ ~Rendering(j)
  /\ job' = [job EXCEPT ![j].stale = TRUE]
  /\ UNCHANGED <<worker, lock, exportFaults>>

WorkerNext(w) == drainExportQueue(w) \/ processExportJob(w) \/ startExportWorker(w)

ExportJobsNext ==
  \/ handleCreateExportJob
  \/ \E w \in Workers : \/ WorkerNext(w) \/ RelockQueue(w) \/ RetireConnection(w)
                        \/ ClaimFails(w) \/ UnlockQueueFails(w) \/ stopExportWorker(w) \/ CrashWorker(w) \/ LoseLock(w)
  \/ \E j \in DOMAIN job : Age(j)

----------------------------------------------------------------------------
\* No two workers render the same job at a time, although a worker that lost the
\* session of its lock goes on beside the next one: ReclaimStale only takes back
\* a claim older than a render can last (export_worker.go).
OneRenderer ==
  \A v, w \in Workers : v # w /\ worker[v].at = "rendering" /\ worker[w].at = "rendering" => worker[v].job # worker[w].job

\* Every queued or claimed job is completed or failed in the end, whatever worker
\* crashed, stopped, lost its lock or its last write, or left the lock behind in a
\* pooled session on the way.
ExportsSettle == \A j \in 1..MaxJobs : j \in DOMAIN job ~> j \in DOMAIN job /\ job[j].status \in {"completed", "failed"}
=============================================================================
