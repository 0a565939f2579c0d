-------------------------- MODULE SchedulerProofs --------------------------
(***************************************************************************)
(* Proofs about Scheduler for any replicas and any pools, whatever fails.  *)
(***************************************************************************)
EXTENDS Scheduler, TLAPS

(* A tick that is under way holds a connection of its own process. *)
TicksHoldConnections ==
  \A r \in Replica :
    /\ conn[r] # NoConn <=> tick[r] \in {"locking", "body", "unlocking"}
    /\ conn[r] # NoConn => conn[r] \in Own(r)

(* While its session lasts, a tick past the lock attempt holds the lock. *)
LockGuards ==
  \A r \in Replica :
    tick[r] \in {"body", "unlocking"} /\ conn[r] \notin lost => holder = conn[r]

(* The lock is held by a session that has not ended, of a process that is *)
(* up: no crash, shutdown or lost connection leaves it behind.             *)
HolderIsLive ==
  holder # NoConn => holder \notin lost /\ \E r \in Replica : holder \in Own(r) /\ tick[r] # "exited"

Inv == TypeOK /\ TicksHoldConnections /\ LockGuards /\ HolderIsLive

LEMMA InitInv == Init => Inv
BY SchedulerAssumption DEF Init, Inv, TypeOK, TicksHoldConnections, LockGuards, HolderIsLive

(* Connections of different processes differ. *)
LEMMA OwnDiffer ==
  ASSUME NEW p \in Replica, NEW q \in Replica, p # q
  PROVE  Own(p) \cap Own(q) = {} /\ Own(p) \subseteq Conn /\ NoConn \notin Own(p)
BY SchedulerAssumption DEF Own, Conn

LEMMA OwnIn ==
  ASSUME NEW p \in Replica
  PROVE  Own(p) \subseteq Conn /\ NoConn \notin Own(p)
BY SchedulerAssumption DEF Own, Conn

LEMMA NextInv == Inv /\ [Next]_vars => Inv'
<1> SUFFICES ASSUME Inv, [Next]_vars PROVE Inv'
  OBVIOUS
<1> USE SchedulerAssumption DEF Inv, TypeOK, TicksHoldConnections, LockGuards, HolderIsLive
<1>0. \A p, q \in Replica : conn[p] # NoConn /\ conn[p] = conn[q] => p = q
  BY OwnDiffer
<1>1. NoConn \notin Conn
  BY DEF Conn
<1>2. ASSUME NEW r \in Replica, NEW c \in Conn, Acquire(r, c) PROVE Inv'
  <2>1. c # NoConn /\ c \in Own(r)
    BY <1>1, <1>2 DEF Acquire
  <2> QED
    BY <1>2, <2>1 DEF Acquire, Goto
<1>3. ASSUME NEW r \in Replica, TryLock(r) PROVE Inv'
  <2>1. conn[r] \in Conn /\ conn[r] # NoConn
    BY <1>3 DEF TryLock
  <2>2. TypeOK'
    BY <1>3, <2>1 DEF TryLock, Goto
  <2>3. TicksHoldConnections'
    BY <1>3, <2>1 DEF TryLock, Goto
  <2>4. ASSUME NEW q \in Replica, tick'[q] \in {"body", "unlocking"}, conn'[q] \notin lost'
        PROVE  holder' = conn'[q]
    <3>1. CASE q = r
      BY <1>3, <3>1 DEF TryLock
    <3>2. CASE q # r
      <4>1. tick[q] \in {"body", "unlocking"} /\ conn[q] \notin lost /\ conn[q] # NoConn
        BY <1>3, <2>4, <3>2 DEF TryLock, Goto
      <4>2. holder = conn[q] /\ conn[q] # conn[r]
        BY <1>0, <2>1, <3>2, <4>1
      <4> QED
        BY <1>3, <4>1, <4>2 DEF TryLock
    <3> QED
      BY <3>1, <3>2
  <2>5. HolderIsLive'
    BY <1>3, <2>1 DEF TryLock, Goto
  <2> QED
    BY <2>2, <2>3, <2>4, <2>5
<1>4. ASSUME NEW r \in Replica, Skip(r) PROVE Inv'
  BY <1>0, <1>4 DEF Skip, Release, Goto
<1>5. ASSUME NEW r \in Replica, RunBody(r) PROVE Inv'
  BY <1>5 DEF RunBody, Goto
<1>6. ASSUME NEW r \in Replica, Unlock(r) PROVE Inv'
  <2>1. conn[r] # NoConn
    BY <1>6 DEF Unlock
  <2>2. TypeOK'
    BY <1>6, <2>1 DEF Unlock, Release, Goto
  <2>3. TicksHoldConnections'
    BY <1>6 DEF Unlock, Release, Goto
  <2>4. ASSUME NEW q \in Replica, tick'[q] \in {"body", "unlocking"}, conn'[q] \notin lost'
        PROVE  holder' = conn'[q]
    <3>1. q # r /\ conn'[q] = conn[q] /\ tick[q] \in {"body", "unlocking"}
      BY <1>6, <2>4 DEF Unlock, Release, Goto
    <3>2. conn[q] # conn[r] /\ conn[q] \notin lost
      BY <1>0, <1>6, <2>1, <2>4, <3>1 DEF Unlock, Release
    <3>3. holder = conn[q]
      BY <3>1, <3>2
    <3> QED
      BY <1>6, <3>1, <3>2, <3>3 DEF Unlock
  <2>5. HolderIsLive'
    BY <1>6, <2>1 DEF Unlock, Release, Goto
  <2> QED
    BY <2>2, <2>3, <2>4, <2>5
<1>7. ASSUME NEW r \in Replica, UnlockFails(r) PROVE Inv'
  BY <1>0, <1>7 DEF UnlockFails, Release, Goto
<1>8. ASSUME NEW r \in Replica, Stop(r) PROVE Inv'
  BY <1>8 DEF Stop
<1>9. ASSUME NEW r \in Replica, Exit(r) PROVE Inv'
  BY <1>0, <1>9, OwnIn, OwnDiffer DEF Exit, EndSessions, Goto
<1>10. ASSUME NEW c \in Conn, LoseSession(c) PROVE Inv'
  BY <1>10, <1>1 DEF LoseSession, EndSessions
<1>11. ASSUME NEW c \in Conn, Retire(c) PROVE Inv'
  BY <1>11, <1>1 DEF Retire, EndSessions, Used
<1>12. ASSUME NEW r \in Replica, Crash(r) PROVE Inv'
  BY <1>0, <1>12, OwnIn, OwnDiffer DEF Crash, EndSessions, Goto
<1>13. ASSUME NEW r \in Replica, Restart(r) PROVE Inv'
  BY <1>13 DEF Restart, Goto
<1>14. CASE UNCHANGED vars
  BY <1>14 DEF vars
<1> QED
  BY <1>2, <1>3, <1>4, <1>5, <1>6, <1>7, <1>8, <1>9, <1>10, <1>11, <1>12, <1>13, <1>14
     DEF Next, Execute

(* "a crashed replica never wedges a job": however processes crash, stop   *)
(* and restart, sessions end and unlocks fail, whoever holds the advisory  *)
(* lock is a session that still lasts, of a process that is up.            *)
THEOREM LockNeedsSession == Spec => []HolderIsLive
<1>1. Inv => HolderIsLive
  BY DEF Inv
<1> QED
  BY InitInv, NextInv, <1>1, PTL DEF Spec

(* execute: for any number of replicas, pooled connections and failures,   *)
(* no two replicas whose lock sessions last run the body together.         *)
THEOREM BodiesAreExclusive == Spec => []BodiesExclude
<1>1. Inv => BodiesExclude
  BY OwnDiffer DEF Inv, TypeOK, TicksHoldConnections, LockGuards, BodiesExclude
<1> QED
  BY InitInv, NextInv, <1>1, PTL DEF Spec
=============================================================================
