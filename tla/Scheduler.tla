----------------------------- MODULE Scheduler -----------------------------
(***************************************************************************)
(* One recurring job of the scheduler on several API replicas.  Each tick  *)
(* takes a pooled connection, tries a session-level advisory lock on it    *)
(* and runs the body only when it wins.  The lock belongs to the database  *)
(* session: it outlives the tick when the unlock fails, it is re-entrant   *)
(* when the same pooled connection is drawn again, and it is gone when the *)
(* session ends.  Jobs share nothing but the pool, so one stands for all;  *)
(* the job_runs rows gate nothing and are left out.                        *)
(***************************************************************************)
EXTENDS Naturals

CONSTANTS
  Replica,    \* API processes
  Slot,       \* the connections of each process's pool
  MaxFaults,  \* bound on shutdowns, crashes, lost sessions and failed unlocks
  NoConn      \* no connection

ASSUME SchedulerAssumption ==
  /\ MaxFaults \in Nat
  /\ NoConn \notin Replica \X Slot

VARIABLES
  tick,       \* where the job's goroutine on each replica is
  conn,       \* the connection its tick holds
  lost,       \* held connections whose session has ended
  holder,     \* the connection whose session holds the advisory lock
  depth,      \* how often that session took it
  stopping,   \* replicas whose stopCh is closed
  faults

vars == <<tick, conn, lost, holder, depth, stopping, faults>>

Conn    == Replica \X Slot
Own(r)  == {r} \X Slot
Used(c) == \E r \in Replica : conn[r] = c

Init ==
  /\ tick = [r \in Replica |-> "waiting"]
  /\ conn = [r \in Replica |-> NoConn]
  /\ lost = {}
  /\ holder = NoConn
  /\ depth = 0
  /\ stopping = {}
  /\ faults = 0

Goto(r, at) == tick' = [tick EXCEPT ![r] = at]

(* The session of each connection in C ends, and its lock with it. *)
EndSessions(C) ==
  /\ holder' = IF holder \in C THEN NoConn ELSE holder
  /\ depth' = IF holder \in C THEN 0 ELSE depth

(* conn.Release: back to the pool; a connection known to be broken is      *)
(* replaced by a new one.                                                  *)
Release(r) ==
  /\ conn' = [conn EXCEPT ![r] = NoConn]
  /\ lost' = lost \ {conn[r]}

-----------------------------------------------------------------------------
(* The ticker fires and the tick takes a connection from the pool.  When   *)
(* stopCh is closed too, select may still choose the ticker.               *)
Acquire(r, c) ==
  /\ tick[r] = "waiting"
  /\ c \in Own(r) /\ ~Used(c)
  /\ conn' = [conn EXCEPT ![r] = c]
  /\ Goto(r, "locking")
  /\ UNCHANGED <<lost, holder, depth, stopping, faults>>

(* pg_try_advisory_lock, re-entrant for the session that holds the lock. *)
TryLock(r) ==
  /\ tick[r] = "locking"
  /\ conn[r] \notin lost
  /\ holder \in {NoConn, conn[r]}
  /\ holder' = conn[r]
  /\ depth' = depth + 1
  /\ Goto(r, "body")
  /\ UNCHANGED <<conn, lost, stopping, faults>>

(* The lock is held elsewhere, or the attempt fails: skip this tick. *)
Skip(r) ==
  /\ tick[r] = "locking"
  /\ holder \notin {NoConn, conn[r]} \/ conn[r] \in lost
  /\ Release(r)
  /\ Goto(r, "waiting")
  /\ UNCHANGED <<holder, depth, stopping, faults>>

(* runBody: success, error, panic or the lock timeout, all the same here. *)
RunBody(r) ==
  /\ tick[r] = "body"
  /\ Goto(r, "unlocking")
  /\ UNCHANGED <<conn, lost, holder, depth, stopping, faults>>

(* The deferred unlock and then the deferred Release. *)
Unlock(r) ==
  /\ tick[r] = "unlocking"
  /\ IF holder = conn[r] /\ conn[r] \notin lost
     THEN /\ depth' = depth - 1
          /\ holder' = IF depth = 1 THEN NoConn ELSE holder
     ELSE UNCHANGED <<holder, depth>>
  /\ Release(r)
  /\ Goto(r, "waiting")
  /\ UNCHANGED <<stopping, faults>>

(* The server refuses the unlock (its statement_timeout, a cancel): the    *)
(* connection is sound and goes back to the pool as it is.                 *)
UnlockFails(r) ==
  /\ tick[r] = "unlocking"
  /\ conn[r] \notin lost
  /\ faults < MaxFaults
  /\ faults' = faults + 1
  /\ Release(r)
  /\ Goto(r, "waiting")
  /\ UNCHANGED <<holder, depth, stopping>>

-----------------------------------------------------------------------------
(* Stop closes stopCh; the goroutine leaves its loop when select sees it,  *)
(* and the process then closes its pool.                                   *)
Stop(r) ==
  /\ r \notin stopping
  /\ faults < MaxFaults
  /\ faults' = faults + 1
  /\ stopping' = stopping \cup {r}
  /\ UNCHANGED <<tick, conn, lost, holder, depth>>

(* Bug: the goroutine leaves only while no replica runs the job. *)
ExitWhenFree(r) ==
  /\ tick[r] = "waiting"
  /\ r \in stopping
  /\ holder = NoConn
  /\ Goto(r, "exited")
  /\ EndSessions(Own(r))
  /\ UNCHANGED <<conn, lost, stopping, faults>>

Exit(r) ==
  /\ tick[r] = "waiting"
  /\ r \in stopping
  /\ Goto(r, "exited")
  /\ EndSessions(Own(r))
  /\ UNCHANGED <<conn, lost, stopping, faults>>

(* The session of a connection in use ends under the tick. *)
LoseSession(c) ==
  /\ Used(c) /\ c \notin lost
  /\ faults < MaxFaults
  /\ faults' = faults + 1
  /\ lost' = lost \cup {c}
  /\ EndSessions({c})
  /\ UNCHANGED <<tick, conn, stopping>>

(* The pool of a live process closes an idle connection at the end of its  *)
(* lifetime.                                                               *)
Retire(c) ==
  /\ c = holder /\ ~Used(c)
  /\ tick[c[1]] # "exited"
  /\ EndSessions({c})
  /\ UNCHANGED <<tick, conn, lost, stopping, faults>>

(* Bug: the lock outlives the process that took it. *)
CrashKeepsLock(r) ==
  /\ tick[r] # "exited"
  /\ faults < MaxFaults
  /\ faults' = faults + 1
  /\ Goto(r, "exited")
  /\ conn' = [conn EXCEPT ![r] = NoConn]
  /\ lost' = lost \ Own(r)
  /\ UNCHANGED <<holder, depth, stopping>>

(* The process dies, and the server ends its sessions. *)
Crash(r) ==
  /\ tick[r] # "exited"
  /\ faults < MaxFaults
  /\ faults' = faults + 1
  /\ Goto(r, "exited")
  /\ conn' = [conn EXCEPT ![r] = NoConn]
  /\ lost' = lost \ Own(r)
  /\ EndSessions(Own(r))
  /\ UNCHANGED stopping

(* A new process in its place. *)
Restart(r) ==
  /\ tick[r] = "exited"
  /\ Goto(r, "waiting")
  /\ stopping' = stopping \ {r}
  /\ UNCHANGED <<conn, lost, holder, depth, faults>>

Execute(r) ==
  \/ \E c \in Conn : Acquire(r, c)
  \/ TryLock(r) \/ Skip(r) \/ RunBody(r) \/ Unlock(r)

Next ==
  \/ \E r \in Replica : Execute(r) \/ UnlockFails(r) \/ Stop(r) \/ Exit(r) \/ Crash(r) \/ Restart(r)
  \/ \E c \in Conn : LoseSession(c) \/ Retire(c)

Spec == Init /\ [][Next]_vars

(* The ticker fires again and again and the lock timeout bounds the body,  *)
(* so a tick goes on; the pool retires idle connections (MaxConnLifetime); *)
(* select chooses at random among what is ready, so a goroutine that can   *)
(* leave again and again does.  No tick is owed the lock, and no process   *)
(* that is down is owed a restart.                                         *)
Fairness ==
  /\ \A r \in Replica : WF_vars(Execute(r)) /\ SF_vars(Exit(r))
  /\ \A c \in Conn : WF_vars(Retire(c))

FairSpec == Spec /\ Fairness

-----------------------------------------------------------------------------
(* Every variable has its type, and the lock has a depth exactly while a   *)
(* session holds it.                                                       *)
TypeOK ==
  /\ tick \in [Replica -> {"waiting", "locking", "body", "unlocking", "exited"}]
  /\ conn \in [Replica -> Conn \cup {NoConn}]
  /\ lost \subseteq Conn
  /\ holder \in Conn \cup {NoConn}
  /\ depth \in Nat
  /\ holder = NoConn <=> depth = 0
  /\ stopping \subseteq Replica
  /\ faults \in 0 .. MaxFaults

(* "only the replica that wins the lock runs the job this tick": two       *)
(* replicas run the body together only after one of them lost the session  *)
(* its lock was in.  Failed unlocks, re-entrant locks, retired connections *)
(* and crashes of other replicas never let a second one in.                *)
BodiesExclude ==
  \A p, q \in Replica : p # q /\ tick[p] = "body" /\ tick[q] = "body" =>
    conn[p] \in lost \/ conn[q] \in lost

(* "a crashed replica never wedges a job": whatever crashes, whichever     *)
(* session ends and whichever unlock fails, as long as one replica is up   *)
(* the job is executed again.                                              *)
JobKeepsRunning ==
  \/ []<>(\E r \in Replica : tick[r] = "unlocking")
  \/ <>[](\A r \in Replica : tick[r] = "exited")

(* Stop: a job in the middle of an execution finishes it, and then its     *)
(* goroutine exits; a select that keeps choosing the ticker does not       *)
(* starve it.                                                              *)
StopDrains == \A r \in Replica : r \in stopping ~> tick[r] = "exited"

(* The comment on the deferred unlock: "If it fails the connection Release *)
(* still drops the session lock, so the job is never wedged."  So only a   *)
(* connection that is in use can hold the lock.  TLC refutes it: the       *)
(* session goes back to the pool with its lock.                            *)
ReleaseDropsLock == holder # NoConn => Used(holder)
=============================================================================
