---------------------------- MODULE OperatingDay ----------------------------
(***************************************************************************)
(* Operating days and the shifts inside them, at one station, as the       *)
(* request handlers of services/api/internal/server and the statements of  *)
(* internal/operations change them.                                        *)
(*                                                                         *)
(* Every request runs on its own connection.  Up to its Begin a handler    *)
(* reads through the pool: what it saw may be stale when its transaction   *)
(* runs.  Inside the transaction, SELECT ... FOR UPDATE on the day row,    *)
(* SELECT ... FOR SHARE on the day row and a plain UPDATE of the day row   *)
(* wait for one another as PostgreSQL's row locks do; writes become        *)
(* visible at commit.  A request that is refused, fails or loses its       *)
(* client rolls back and releases its locks.                               *)
(***************************************************************************)
EXTENDS FiniteSets

CONSTANTS
  Day,        \* ids of rows of operating_days
  Date,       \* business dates
  Shift,      \* ids of rows of shifts
  Req,        \* concurrent requests
  NoDay,      \* "no day": a shift that does not exist, a request with no day
  NoDate      \* "no date": a day that does not exist

ASSUME NullAssumption == NoDay \notin Day /\ NoDate \notin Date

VARIABLES
  day,        \* operating_days.status per row, "none" for a row not inserted
  date,       \* operating_days.business_date
  shift,      \* shifts.status per row, "none" for a row not inserted
  dayOf,      \* shifts.operating_day_id
  pc,         \* where each request is in its handler
  on,         \* the day each request works on
  target      \* the status a status request asks for

rows == <<day, date, shift, dayOf>>
vars == <<day, date, shift, dayOf, pc, on, target>>

DayStatus   == {"none", "open", "closed", "locked"}
ShiftStatus == {"none", "open", "closed", "approved"}

(***************************************************************************)
(* Handler positions.  status*: handleUpdateOperatingDayStatus; lock*:     *)
(* handleLockOperatingDay; open*: handleOpenShift.                         *)
(***************************************************************************)
PC == {"idle", "statusRead", "statusLocked", "statusCounted",
       "lockRead", "lockCounted", "openRead", "openShared", "openGated"}

HoldsForUpdate(r, d) == on[r] = d /\ pc[r] \in {"statusLocked", "statusCounted"}
HoldsForShare(r, d)  == on[r] = d /\ pc[r] \in {"openShared", "openGated"}

ShiftsOf(d)        == {s \in Shift : shift[s] # "none" /\ dayOf[s] = d}
OpenShifts(d)      == {s \in ShiftsOf(d) : shift[s] = "open"}
UnapprovedShifts(d) == {s \in ShiftsOf(d) : shift[s] # "approved"}
ClosedUnapproved   == {s \in Shift : shift[s] = "closed"}

Init ==
  /\ day = [d \in Day |-> "none"]
  /\ date = [d \in Day |-> NoDate]
  /\ shift = [s \in Shift |-> "none"]
  /\ dayOf = [s \in Shift |-> NoDay]
  /\ pc = [r \in Req |-> "idle"]
  /\ on = [r \in Req |-> NoDay]
  /\ target = [r \in Req |-> "open"]

Goto(r, l) == pc' = [pc EXCEPT ![r] = l] /\ UNCHANGED <<on, target>>

Finish(r) ==
  /\ pc' = [pc EXCEPT ![r] = "idle"]
  /\ on' = [on EXCEPT ![r] = NoDay]
  /\ target' = [target EXCEPT ![r] = "open"]

(* A refusal, an error or a lost client: the transaction rolls back. *)
Rollback(r) ==
  /\ pc[r] # "idle"
  /\ Finish(r)
  /\ UNCHANGED rows

-----------------------------------------------------------------------------
(* Opening a day is one INSERT; the partial unique index admits one day    *)
(* per date that is not locked.                                            *)
OpenDay(d, t) ==
  /\ day[d] = "none"
  /\ \A e \in Day : date[e] = t => day[e] = "locked"
  /\ day' = [day EXCEPT ![d] = "open"]
  /\ date' = [date EXCEPT ![d] = t]
  /\ UNCHANGED <<shift, dayOf, pc, on, target>>

-----------------------------------------------------------------------------
(* Closing and reopening a day.  The pool read only finds the row: status  *)
(* and open shifts are looked at under FOR UPDATE.                         *)
StatusBegin(r, d, st) ==
  /\ pc[r] = "idle"
  /\ day[d] # "none"
  /\ pc' = [pc EXCEPT ![r] = "statusRead"]
  /\ on' = [on EXCEPT ![r] = d]
  /\ target' = [target EXCEPT ![r] = st]
  /\ UNCHANGED rows

(* GetDayForUpdate and the checks on the status it returns. *)
StatusLock(r) ==
  /\ pc[r] = "statusRead"
  /\ \A q \in Req : ~HoldsForUpdate(q, on[r]) /\ ~HoldsForShare(q, on[r])
  /\ day[on[r]] \notin {"locked", target[r]}
  /\ Goto(r, "statusLocked")
  /\ UNCHANGED rows

(* Bug: a day closes without counting its open shifts. *)
StatusCountSkipped(r) ==
  /\ pc[r] = "statusLocked"
  /\ Goto(r, "statusCounted")
  /\ UNCHANGED rows

(* OpenShiftCountForDay inside the transaction, only when closing. *)
StatusCount(r) ==
  /\ pc[r] = "statusLocked"
  /\ target[r] = "closed" => OpenShifts(on[r]) = {}
  /\ Goto(r, "statusCounted")
  /\ UNCHANGED rows

(* SetStatus and the commit. *)
StatusCommit(r) ==
  /\ pc[r] = "statusCounted"
  /\ day' = [day EXCEPT ![on[r]] = target[r]]
  /\ Finish(r)
  /\ UNCHANGED <<date, shift, dayOf>>

-----------------------------------------------------------------------------
(* Locking a day: both checks read through the pool, before Begin. *)
LockBegin(r, d) ==
  /\ pc[r] = "idle"
  /\ day[d] = "closed"
  /\ pc' = [pc EXCEPT ![r] = "lockRead"]
  /\ on' = [on EXCEPT ![r] = d]
  /\ UNCHANGED <<rows, target>>

LockCount(r) ==
  /\ pc[r] = "lockRead"
  /\ UnapprovedShifts(on[r]) = {}
  /\ Goto(r, "lockCounted")
  /\ UNCHANGED rows

(* Repo.Lock is an UPDATE by id: it waits for a conflicting row lock and   *)
(* then writes whatever the status has become.                             *)
LockCommit(r) ==
  /\ pc[r] = "lockCounted"
  /\ \A q \in Req : ~HoldsForUpdate(q, on[r]) /\ ~HoldsForShare(q, on[r])
  /\ day' = [day EXCEPT ![on[r]] = "locked"]
  /\ Finish(r)
  /\ UNCHANGED <<date, shift, dayOf>>

-----------------------------------------------------------------------------
(* Opening a shift.  The pool read of the day, the setup blockers and the  *)
(* scheduled team come first; only the day's status matters here.          *)
OpenShiftBegin(r, d) ==
  /\ pc[r] = "idle"
  /\ day[d] = "open"
  /\ pc' = [pc EXCEPT ![r] = "openRead"]
  /\ on' = [on EXCEPT ![r] = d]
  /\ UNCHANGED <<rows, target>>

(* Bug: the row is locked but its status is not read again. *)
OpenShiftShareStale(r) ==
  /\ pc[r] = "openRead"
  /\ \A q \in Req : ~HoldsForUpdate(q, on[r])
  /\ Goto(r, "openShared")
  /\ UNCHANGED rows

(* LockDayStatusForShare: FOR SHARE waits for FOR UPDATE only. *)
OpenShiftShare(r) ==
  /\ pc[r] = "openRead"
  /\ \A q \in Req : ~HoldsForUpdate(q, on[r])
  /\ day[on[r]] = "open"
  /\ Goto(r, "openShared")
  /\ UNCHANGED rows

(* The handover gate: no closed shift waits for approval at the station,   *)
(* or the caller may approve shifts and gives a reason to go past it.      *)
OpenShiftGate(r, overridden) ==
  /\ pc[r] = "openShared"
  /\ ClosedUnapproved = {} \/ overridden
  /\ Goto(r, "openGated")
  /\ UNCHANGED rows

OpenShiftCommit(r, s) ==
  /\ pc[r] = "openGated"
  /\ shift[s] = "none"
  /\ shift' = [shift EXCEPT ![s] = "open"]
  /\ dayOf' = [dayOf EXCEPT ![s] = on[r]]
  /\ Finish(r)
  /\ UNCHANGED <<day, date>>

-----------------------------------------------------------------------------
(* Closing and approving a shift check its status and write it under one   *)
(* FOR UPDATE lock of the shift row, so each is one step for the day.      *)
(* Neither looks at the day.                                               *)
CloseShift(s) ==
  /\ shift[s] = "open"
  /\ shift' = [shift EXCEPT ![s] = "closed"]
  /\ UNCHANGED <<day, date, dayOf, pc, on, target>>

ApproveShift(s) ==
  /\ shift[s] = "closed"
  /\ shift' = [shift EXCEPT ![s] = "approved"]
  /\ UNCHANGED <<day, date, dayOf, pc, on, target>>

-----------------------------------------------------------------------------
RequestStep(r) ==
  \/ StatusLock(r) \/ StatusCount(r) \/ StatusCommit(r)
  \/ LockCount(r) \/ LockCommit(r)
  \/ OpenShiftShare(r)
  \/ \E overridden \in BOOLEAN : OpenShiftGate(r, overridden)
  \/ \E s \in Shift : OpenShiftCommit(r, s)
  \/ Rollback(r)

Next ==
  \/ \E d \in Day, t \in Date : OpenDay(d, t)
  \/ \E r \in Req, d \in Day, st \in {"open", "closed"} : StatusBegin(r, d, st)
  \/ \E r \in Req, d \in Day : LockBegin(r, d)
  \/ \E r \in Req, d \in Day : OpenShiftBegin(r, d)
  \/ \E r \in Req : RequestStep(r)
  \/ \E s \in Shift : CloseShift(s)
  \/ \E s \in Shift : ApproveShift(s)

Spec == Init /\ [][Next]_vars

-----------------------------------------------------------------------------
(* Type invariant: every column and every request position holds a value   *)
(* of its type, and a request past its first read works on a real day.     *)
TypeOK ==
  /\ day \in [Day -> DayStatus]
  /\ date \in [Day -> Date \cup {NoDate}]
  /\ shift \in [Shift -> ShiftStatus]
  /\ dayOf \in [Shift -> Day \cup {NoDay}]
  /\ pc \in [Req -> PC]
  /\ on \in [Req -> Day \cup {NoDay}]
  /\ target \in [Req -> {"open", "closed"}]
  /\ \A r \in Req : pc[r] # "idle" => on[r] \in Day

(* A closed day holds no open shift, although opening a shift and closing  *)
(* its day are two requests that may overlap (OPS-007).                    *)
ClosedDayHasNoOpenShift ==
  \A d \in Day : day[d] = "closed" => OpenShifts(d) = {}

(* What the row locks and the re-checks under them establish: FOR UPDATE   *)
(* and FOR SHARE exclude each other, and the status read under the lock    *)
(* still holds when the transaction writes.                                *)
LockDiscipline ==
  /\ \A r \in Req : pc[r] # "idle" => day[on[r]] # "none"
  /\ \A q, r \in Req, d \in Day :
       HoldsForUpdate(q, d) /\ q # r => ~HoldsForUpdate(r, d) /\ ~HoldsForShare(r, d)
  /\ \A r \in Req, d \in Day : HoldsForShare(r, d) => day[d] = "open"
  /\ \A r \in Req, d \in Day :
       HoldsForUpdate(r, d) => day[d] \in {"open", "closed"} \ {target[r]}
  /\ \A r \in Req, d \in Day :
       on[r] = d /\ pc[r] = "statusCounted" /\ target[r] = "closed" => OpenShifts(d) = {}

(* A locked day stays locked: a reopen that waited behind the lock request *)
(* finds the day locked and gives up.                                      *)
LockedIsTerminal ==
  [][\A d \in Day : day[d] = "locked" => day'[d] = "locked"]_vars

(* The requests, with their stale reads and their row locks, change the    *)
(* rows only as the atomic operations of DayBook do.                       *)
Book == INSTANCE DayBook
ImplementsDayBook == Book!Spec

(* The comment of handleLockOperatingDay: "A day can't lock until every    *)
(* shift in it is approved."  TLC refutes it: the shifts are counted       *)
(* before the transaction.                                                 *)
LockedDayIsApproved ==
  \A d \in Day : day[d] = "locked" => UnapprovedShifts(d) = {}

=============================================================================
