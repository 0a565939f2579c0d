------------------------- MODULE OperatingDayProofs -------------------------
(***************************************************************************)
(* Proofs about OperatingDay for any numbers of days, shifts and requests: *)
(* its invariants, and that it implements DayBook.                         *)
(***************************************************************************)
EXTENDS OperatingDay, TLAPS

Inv == TypeOK /\ LockDiscipline /\ ClosedDayHasNoOpenShift

LEMMA InitInv == Init => Inv
BY NullAssumption
   DEF Init, Inv, TypeOK, LockDiscipline, ClosedDayHasNoOpenShift, HoldsForUpdate,
       HoldsForShare, OpenShifts, ShiftsOf, DayStatus, ShiftStatus, PC

LEMMA NextTypeOK == TypeOK /\ [Next]_vars => TypeOK'
<1> SUFFICES ASSUME TypeOK, [Next]_vars PROVE TypeOK'
  OBVIOUS
<1> USE NullAssumption DEF TypeOK, rows, DayStatus, ShiftStatus, PC
<1>1. ASSUME NEW d \in Day, NEW t \in Date, OpenDay(d, t) PROVE TypeOK'
  BY <1>1 DEF OpenDay
<1>2. ASSUME NEW r \in Req, NEW d \in Day, NEW st \in {"open", "closed"}, StatusBegin(r, d, st)
      PROVE TypeOK'
  BY <1>2 DEF StatusBegin
<1>3. ASSUME NEW r \in Req, NEW d \in Day, LockBegin(r, d) PROVE TypeOK'
  BY <1>3 DEF LockBegin
<1>4. ASSUME NEW r \in Req, NEW d \in Day, OpenShiftBegin(r, d) PROVE TypeOK'
  BY <1>4 DEF OpenShiftBegin
<1>5. ASSUME NEW r \in Req, RequestStep(r) PROVE TypeOK'
  <2>1. CASE StatusLock(r) \/ StatusCount(r)
    BY <2>1 DEF StatusLock, StatusCount, Goto
  <2>2. CASE StatusCommit(r)
    BY <2>2 DEF StatusCommit, Finish
  <2>3. CASE LockCount(r)
    BY <2>3 DEF LockCount, Goto
  <2>4. CASE LockCommit(r)
    BY <2>4 DEF LockCommit, Finish
  <2>5. CASE OpenShiftShare(r)
    BY <2>5 DEF OpenShiftShare, Goto
  <2>6. ASSUME NEW overridden \in BOOLEAN, OpenShiftGate(r, overridden) PROVE TypeOK'
    BY <2>6 DEF OpenShiftGate, Goto
  <2>7. ASSUME NEW s \in Shift, OpenShiftCommit(r, s) PROVE TypeOK'
    BY <2>7 DEF OpenShiftCommit, Finish
  <2>8. CASE Rollback(r)
    BY <2>8 DEF Rollback, Finish
  <2> QED
    BY <1>5, <2>1, <2>2, <2>3, <2>4, <2>5, <2>6, <2>7, <2>8 DEF RequestStep
<1>6. ASSUME NEW s \in Shift, CloseShift(s) \/ ApproveShift(s) PROVE TypeOK'
  BY <1>6 DEF CloseShift, ApproveShift
<1>7. CASE UNCHANGED vars
  BY <1>7 DEF vars
<1> QED
  BY <1>1, <1>2, <1>3, <1>4, <1>5, <1>6, <1>7 DEF Next

LEMMA NextInv == Inv /\ [Next]_vars => Inv'
<1> SUFFICES ASSUME Inv, [Next]_vars PROVE Inv'
  OBVIOUS
<1>0. TypeOK /\ TypeOK'
  BY NextTypeOK DEF Inv
<1> DEFINE Goal == LockDiscipline' /\ ClosedDayHasNoOpenShift'
<1> SUFFICES Goal
  BY <1>0 DEF Inv
<1> USE <1>0, NullAssumption
    DEF Inv, TypeOK, LockDiscipline, ClosedDayHasNoOpenShift, HoldsForUpdate,
        HoldsForShare, OpenShifts, ShiftsOf, rows
<1>1. ASSUME NEW d \in Day, NEW t \in Date, OpenDay(d, t) PROVE Goal
  BY <1>1 DEF OpenDay
<1>2. ASSUME NEW r \in Req, NEW d \in Day, NEW st \in {"open", "closed"}, StatusBegin(r, d, st)
      PROVE Goal
  BY <1>2 DEF StatusBegin
<1>3. ASSUME NEW r \in Req, NEW d \in Day, LockBegin(r, d) PROVE Goal
  BY <1>3 DEF LockBegin
<1>4. ASSUME NEW r \in Req, NEW d \in Day, OpenShiftBegin(r, d) PROVE Goal
  BY <1>4 DEF OpenShiftBegin
<1>5. ASSUME NEW r \in Req, RequestStep(r) PROVE Goal
  <2>1. CASE StatusLock(r)
    BY <2>1 DEF StatusLock, Goto, DayStatus
  <2>2. CASE StatusCount(r)
    BY <2>2 DEF StatusCount, Goto
  <2>3. CASE StatusCommit(r)
    BY <2>3 DEF StatusCommit, Finish
  <2>4. CASE LockCount(r)
    BY <2>4 DEF LockCount, Goto
  <2>5. CASE LockCommit(r)
    BY <2>5 DEF LockCommit, Finish
  <2>6. CASE OpenShiftShare(r)
    BY <2>6 DEF OpenShiftShare, Goto
  <2>7. ASSUME NEW overridden \in BOOLEAN, OpenShiftGate(r, overridden) PROVE Goal
    BY <2>7 DEF OpenShiftGate, Goto
  <2>8. ASSUME NEW s \in Shift, OpenShiftCommit(r, s) PROVE Goal
    BY <2>8 DEF OpenShiftCommit, Finish
  <2>9. CASE Rollback(r)
    BY <2>9 DEF Rollback, Finish
  <2> QED
    BY <1>5, <2>1, <2>2, <2>3, <2>4, <2>5, <2>6, <2>7, <2>8, <2>9 DEF RequestStep
<1>6. ASSUME NEW s \in Shift, CloseShift(s) \/ ApproveShift(s) PROVE Goal
  BY <1>6 DEF CloseShift, ApproveShift
<1>7. CASE UNCHANGED vars
  BY <1>7 DEF vars
<1> HIDE DEF Goal, Inv, TypeOK, LockDiscipline, ClosedDayHasNoOpenShift, HoldsForUpdate,
             HoldsForShare, OpenShifts, ShiftsOf, rows
<1> QED
  BY <1>1, <1>2, <1>3, <1>4, <1>5, <1>6, <1>7 DEF Next

LEMMA Invariance == Spec => []Inv
BY InitInv, NextInv, PTL DEF Spec

(* However requests to open shifts and to close, reopen and lock days      *)
(* overlap, no closed day ever holds an open shift (OPS-007).              *)
THEOREM ClosedDaySafe == Spec => []ClosedDayHasNoOpenShift
BY Invariance, PTL DEF Inv

(* FOR UPDATE and FOR SHARE exclude each other, and what was checked under *)
(* the lock still holds when the transaction writes.                       *)
THEOREM LocksRespected == Spec => []LockDiscipline
BY Invariance, PTL DEF Inv

(* No request ever moves a day out of the locked status. *)
THEOREM LockedForever == Spec => LockedIsTerminal
<1>1. Inv /\ [Next]_vars => [\A d \in Day : day[d] = "locked" => day'[d] = "locked"]_vars
  <2> SUFFICES ASSUME Inv, Next, NEW d \in Day, day[d] = "locked"
               PROVE  day'[d] = "locked"
    BY DEF vars
  <2> USE DEF Inv, TypeOK, LockDiscipline, HoldsForUpdate, rows
  <2>1. ASSUME NEW r \in Req, StatusCommit(r) PROVE day'[d] = "locked"
    BY <2>1 DEF StatusCommit
  <2>2. ASSUME NEW r \in Req, RequestStep(r), ~StatusCommit(r) PROVE day'[d] = "locked"
    BY <2>2 DEF RequestStep, StatusLock, StatusCount, LockCount, LockCommit, OpenShiftShare,
                OpenShiftGate, OpenShiftCommit, Rollback
  <2> QED
    BY <2>1, <2>2 DEF Next, OpenDay, StatusBegin, LockBegin, OpenShiftBegin, CloseShift, ApproveShift
<1> QED
  BY <1>1, Invariance, PTL DEF Spec, LockedIsTerminal

LEMMA InitBook == Init => Book!Init
BY DEF Init, Book!Init

LEMMA NextBook == Inv /\ [Next]_vars => [Book!Next]_(Book!vars)
<1> SUFFICES ASSUME Inv, [Next]_vars PROVE Book!Next \/ UNCHANGED Book!vars
  OBVIOUS
<1> USE DEF Inv, TypeOK, rows, Book!vars
<1>1. ASSUME NEW d \in Day, NEW t \in Date, OpenDay(d, t) PROVE Book!Next
  BY <1>1 DEF OpenDay, Book!Next, Book!OpenDay
<1>2. ASSUME NEW r \in Req, NEW d \in Day, NEW st \in {"open", "closed"}, StatusBegin(r, d, st)
      PROVE UNCHANGED Book!vars
  BY <1>2 DEF StatusBegin
<1>3. ASSUME NEW r \in Req, NEW d \in Day, LockBegin(r, d) \/ OpenShiftBegin(r, d)
      PROVE UNCHANGED Book!vars
  BY <1>3 DEF LockBegin, OpenShiftBegin
<1>4. ASSUME NEW r \in Req, StatusCommit(r) PROVE Book!Next
  <2>1. /\ on[r] \in Day
        /\ day[on[r]] \in {"open", "closed"} \ {target[r]}
        /\ target[r] = "closed" => OpenShifts(on[r]) = {}
    BY <1>4 DEF StatusCommit, LockDiscipline, HoldsForUpdate
  <2>2. CASE target[r] = "closed"
    <3>1. Book!CloseDay(on[r])
      BY <1>4, <2>1, <2>2 DEF StatusCommit, OpenShifts, ShiftsOf, Book!CloseDay
    <3> QED
      BY <2>1, <3>1 DEF Book!Next
  <2>3. CASE target[r] = "open"
    <3>1. Book!ReopenDay(on[r])
      BY <1>4, <2>1, <2>3 DEF StatusCommit, Book!ReopenDay
    <3> QED
      BY <2>1, <3>1 DEF Book!Next
  <2> QED
    BY <2>2, <2>3
<1>5. ASSUME NEW r \in Req, LockCommit(r) PROVE Book!Next
  <2>1. on[r] \in Day /\ Book!LockDay(on[r])
    BY <1>5 DEF LockCommit, LockDiscipline, Book!LockDay
  <2> QED
    BY <2>1 DEF Book!Next
<1>6. ASSUME NEW r \in Req, NEW s \in Shift, OpenShiftCommit(r, s) PROVE Book!Next
  <2>1. on[r] \in Day /\ Book!OpenShift(s, on[r])
    BY <1>6 DEF OpenShiftCommit, LockDiscipline, HoldsForShare, Book!OpenShift
  <2> QED
    BY <2>1 DEF Book!Next
<1>7. ASSUME NEW r \in Req, RequestStep(r), ~StatusCommit(r), ~LockCommit(r),
             \A s \in Shift : ~OpenShiftCommit(r, s)
      PROVE UNCHANGED Book!vars
  BY <1>7 DEF RequestStep, StatusLock, StatusCount, LockCount, OpenShiftShare, OpenShiftGate, Rollback
<1>8. ASSUME NEW s \in Shift, CloseShift(s) \/ ApproveShift(s) PROVE Book!Next
  BY <1>8 DEF CloseShift, ApproveShift, Book!Next, Book!AdvanceShift
<1>9. CASE UNCHANGED vars
  BY <1>9 DEF vars
<1> QED
  BY <1>1, <1>2, <1>3, <1>4, <1>5, <1>6, <1>7, <1>8, <1>9 DEF Next

(* The handlers, with their stale pool reads and row locks, implement the  *)
(* atomic day book: a day closes only without open shifts, a shift opens   *)
(* only on an open day, a locked day stays.                                *)
THEOREM DayBookImplemented == Spec => ImplementsDayBook
BY InitBook, NextBook, Invariance, PTL DEF Spec, ImplementsDayBook, Book!Spec

=============================================================================
