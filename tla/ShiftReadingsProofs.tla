------------------------ MODULE ShiftReadingsProofs ------------------------
(***************************************************************************)
(* Proofs about ShiftReadings for any nozzles, tanks, readings, figures    *)
(* and requests.                                                           *)
(***************************************************************************)
EXTENDS ShiftReadings, TLAPS

Inv == TypeOK /\ InFlightDiscipline /\ GateHolds /\ ClosedShiftHasLines

LEMMA InitInv == Init => Inv
<1> SUFFICES ASSUME Init PROVE Inv
  OBVIOUS
<1> USE ReadingAssumption DEF Init, Idle
<1>1. TypeOK
  BY DEF TypeOK, Lines, NoLines, Request, Idle
<1>2. InFlightDiscipline /\ GateHolds /\ ClosedShiftHasLines
  BY DEF InFlightDiscipline, GateHolds, ClosedShiftHasLines, HoldsForUpdate
<1> QED
  BY <1>1, <1>2 DEF Inv

(* The figures of a line are figures of the tables. *)
LEMMA FiguresType ==
  ASSUME TypeOK, InFlightDiscipline, NEW n \in Nozzle
  PROVE  Figures(n) \in Line \cup {NoLine}
<1>1. CASE opening[n] # NoValue /\ ActiveClosing(n) # {}
  <2> DEFINE m == CHOOSE k \in ActiveClosing(n) : TRUE
  <2>1. m \in ActiveClosing(n)
    BY <1>1
  <2>2. m \in Reading /\ closing[m] = "active"
    BY <2>1 DEF ActiveClosing
  <2>3. ClosingFigure(m) \in Value
    BY <2>2 DEF ClosingFigure, InFlightDiscipline
  <2>4. opening[n] \in Value
    BY <1>1 DEF TypeOK
  <2> QED
    BY <1>1, <2>3, <2>4 DEF Figures, Line
<1>2. CASE ~(opening[n] # NoValue /\ ActiveClosing(n) # {})
  BY <1>2 DEF Figures
<1> QED
  BY <1>1, <1>2

LEMMA NextTypeOK == Inv /\ [Next]_vars => TypeOK'
<1> SUFFICES ASSUME Inv, [Next]_vars PROVE TypeOK'
  OBVIOUS
<1> USE ReadingAssumption DEF Inv, TypeOK, Idle, Start, Goto, Finish, OpenShiftRead, book, verif, posted
<1>1. ASSUME NEW r \in Req, NEW n \in Nozzle, NozzleRead(r, n) PROVE TypeOK'
  BY <1>1 DEF NozzleRead, AssignRead, UnassignRead, CaptureOpeningRead, CorrectOpeningRead,
              CaptureClosingRead, Request
<1>2. ASSUME NEW r \in Req, NEW t \in Tank, DipRead(r, t) PROVE TypeOK'
  BY <1>2 DEF DipRead, Request
<1>3. ASSUME NEW r \in Req, NEW m \in Reading, SupervisorRead(r, m) PROVE TypeOK'
  BY <1>3 DEF SupervisorRead, CorrectClosingRead, VerdictRead, VerifyCorrectRead, Request
<1>4. ASSUME NEW r \in Req, BatchRead(r) PROVE TypeOK'
  BY <1>4 DEF BatchRead, UnverifiedClosing, Request
<1>5. ASSUME NEW r \in Req, CloseRead(r) PROVE TypeOK'
  <2>1. [n \in Nozzle |-> IF n \in assigned THEN Figures(n) ELSE NoLine] \in Lines
    BY FiguresType DEF Lines
  <2> QED
    BY <1>5, <2>1 DEF CloseRead, Request
<1>6. ASSUME NEW r \in Req, CloseCheck(r) PROVE TypeOK'
  BY <1>6 DEF CloseCheck, Request
<1>7. ASSUME NEW r \in Req, CloseShift(r) PROVE TypeOK'
  BY <1>7 DEF CloseShift, Request
<1>8. ASSUME NEW r \in Req, Write(r) PROVE TypeOK'
  <2>1. CASE AssignNozzle(r) \/ UnassignNozzle(r)
    BY <2>1 DEF AssignNozzle, UnassignNozzle, Request
  <2>2. CASE CaptureDip(r)
    BY <2>2 DEF CaptureDip, Request
  <2>3. ASSUME NEW x \in Value, WriteOpening(r, x) PROVE TypeOK'
    BY <2>3 DEF WriteOpening, Request
  <2>4. ASSUME NEW m \in Reading, NEW x \in Value, CaptureClosing(r, m, x) PROVE TypeOK'
    BY <2>4 DEF CaptureClosing, InsertClosing, Request
  <2>5. ASSUME NEW m \in Reading, NEW x \in Value, CorrectClosing(r, m, x) PROVE TypeOK'
    BY <2>5 DEF CorrectClosing, InsertClosing, Request
  <2>6. CASE Verdict(r)
    BY <2>6 DEF Verdict, UpsertVerification, Request, Terminal, Hold
  <2>7. CASE VerifyCorrect(r)
    <3>1. /\ req[r].value \in Value /\ req[r].reading \in Reading
          /\ nozzleOf[req[r].reading] \in Nozzle
      BY <2>7 DEF VerifyCorrect, Request, InFlightDiscipline
    <3>2. line' \in Lines
      BY <2>7, <3>1 DEF VerifyCorrect, Recompute, Lines, Line
    <3> QED
      BY <2>7, <3>1, <3>2 DEF VerifyCorrect, UpsertVerification, Request, Terminal, Hold
  <2>8. CASE BatchVerify(r)
    BY <2>8 DEF BatchVerify, Request, Terminal, Hold
  <2> QED
    BY <1>8, <2>1, <2>2, <2>3, <2>4, <2>5, <2>6, <2>7, <2>8 DEF Write
<1>9. ASSUME NEW r \in Req, ApproveLock(r) \/ ApproveSales(r) PROVE TypeOK'
  <2>1. req' \in [Req -> Request]
    BY <1>9 DEF ApproveLock, ApproveSales, Request
  <2> QED
    BY <1>9, <2>1 DEF ApproveLock, ApproveSales
<1>10. ASSUME NEW r \in Req, ApproveCommit(r) PROVE TypeOK'
  <2>1. req' \in [Req -> Request]
    BY <1>10 DEF ApproveCommit, Request
  <2>2. req[r].lines \in Lines
    BY <1>10 DEF ApproveCommit, Request
  <2> QED
    BY <1>10, <2>1, <2>2 DEF ApproveCommit
<1>11. ASSUME NEW r \in Req, Rollback(r) PROVE TypeOK'
  BY <1>11 DEF Rollback, Request
<1>12. CASE UNCHANGED vars
  BY <1>12 DEF vars
<1> QED
  BY <1>1, <1>2, <1>3, <1>4, <1>5, <1>6, <1>7, <1>8, <1>9, <1>10, <1>11, <1>12 DEF Next

(* What a request carries, by where it is. *)
LEMMA RequestFields ==
  ASSUME TypeOK, NEW r \in Req
  PROVE  /\ req[r].at = "captureClosing" => req[r].nozzle \in Nozzle
         /\ req[r].at \in {"correctClosing", "verdict", "verifyCorrect"} => req[r].reading \in Reading
         /\ req[r].at = "verdict" => req[r].to \in Terminal \cup Hold
         /\ req[r].at = "verifyCorrect" => req[r].value \in Value
         /\ req[r].at = "batch" => req[r].pending \subseteq Reading
<1> USE DEF TypeOK, Request, Terminal, Hold, Idle
<1>1. req[r].at = "captureClosing" => req[r].nozzle \in Nozzle
  OBVIOUS
<1>2. req[r].at \in {"correctClosing", "verdict", "verifyCorrect"} => req[r].reading \in Reading
  OBVIOUS
<1>3. req[r].at = "verdict" => req[r].to \in Terminal \cup Hold
  OBVIOUS
<1>4. req[r].at = "verifyCorrect" => req[r].value \in Value
  OBVIOUS
<1>5. req[r].at = "batch" => req[r].pending \subseteq Reading
  OBVIOUS
<1> QED
  BY <1>1, <1>2, <1>3, <1>4, <1>5

(* Inserting a closing, which approval's lock keeps out, keeps the         *)
(* invariant.                                                              *)
LEMMA Inserting ==
  ASSUME Inv, NEW r \in Req, NEW m \in Reading, NEW n \in Nozzle, NEW x \in Value,
         NEW old \in SUBSET Reading, \A k \in old : closing[k] # "none",
         InsertClosing(m, n, x, old), Finish(r), UNCHANGED <<shift, verif, line>>
  PROVE  InFlightDiscipline' /\ GateHolds' /\ ClosedShiftHasLines'
<1>0. TypeOK /\ InFlightDiscipline /\ GateHolds /\ ClosedShiftHasLines
  BY DEF Inv
<1>1. /\ \A k \in Reading : closing'[k] # "none" => k = m \/ closing[k] # "none"
      /\ \A k \in Reading : closing[k] # "none" => k # m /\ closing'[k] # "none"
  BY DEF InsertClosing
<1>2. \A k \in Reading : closing'[k] # "none" => nozzleOf'[k] \in Nozzle /\ value'[k] \in Value
  BY <1>0, <1>1 DEF InsertClosing, InFlightDiscipline, TypeOK
<1>3. \A q \in Req : req'[q] = req[q] \/ req'[q] = Idle
  BY <1>0 DEF Finish, TypeOK
<1>4. ~\E q \in Req : HoldsForUpdate(q)'
  BY <1>3 DEF InsertClosing, ShiftRowFree, HoldsForUpdate, Idle
<1>5. \A q \in Req : req'[q].at \in {"correctClosing", "verdict", "verifyCorrect"}
                      => closing'[req'[q].reading] # "none"
  BY <1>0, <1>1, <1>3, RequestFields DEF InFlightDiscipline, Idle
<1>6. \A q \in Req : req'[q].at = "batch" => \A k \in req'[q].pending : closing'[k] # "none"
  <2> SUFFICES ASSUME NEW q \in Req, req'[q].at = "batch", NEW k \in req'[q].pending
               PROVE  closing'[k] # "none"
    OBVIOUS
  <2>1. req'[q] = req[q]
    BY <1>3 DEF Idle
  <2>2. k \in Reading
    BY <1>0, <2>1, RequestFields
  <2> QED
    BY <1>0, <1>1, <2>1, <2>2 DEF InFlightDiscipline
<1>7. \A q \in Req : req'[q].at \in {"closeRead", "closeReady"} => req'[q].lines # NoLines'
  BY <1>0, <1>3 DEF InFlightDiscipline, Idle, NoLines
<1>8. \A k \in Reading : verdict'[k] # "none" => final'[k] \in Value
  BY <1>0 DEF InFlightDiscipline, verif
<1>9. InFlightDiscipline'
  BY <1>2, <1>4, <1>5, <1>6, <1>7, <1>8 DEF InFlightDiscipline
<1> QED
  BY <1>0, <1>4, <1>9 DEF GateHolds, ClosedShiftHasLines, NoLines

(* So does giving a verdict that is not final yet. *)
LEMMA Upserting ==
  ASSUME Inv, NEW r \in Req, NEW m \in Reading, NEW to \in Terminal \cup Hold, NEW x \in Value,
         closing[m] # "none", UpsertVerification(m, to, x), Finish(r),
         UNCHANGED <<shift, book>>, line = NoLines <=> line' = NoLines
  PROVE  InFlightDiscipline' /\ GateHolds' /\ ClosedShiftHasLines'
<1>0. TypeOK /\ InFlightDiscipline /\ GateHolds /\ ClosedShiftHasLines
  BY DEF Inv
<1>1. \A q \in Req : req'[q] = req[q] \/ req'[q] = Idle
  BY <1>0 DEF Finish, TypeOK
<1>2. \A k \in Reading : /\ verdict'[k] # "none" => final'[k] \in Value
                         /\ verdict[k] \in Terminal => verdict'[k] = verdict[k]
  BY <1>0 DEF UpsertVerification, InFlightDiscipline, TypeOK
<1>3. InFlightDiscipline'
  BY <1>0, <1>1, <1>2 DEF InFlightDiscipline, HoldsForUpdate, Idle, book, NoLines
<1>4. GateHolds'
  <2>1. Verified => Verified'
    BY <1>2 DEF Verified, book
  <2>2. (\E q \in Req : HoldsForUpdate(q)') => \E q \in Req : HoldsForUpdate(q)
    BY <1>1 DEF HoldsForUpdate, Idle
  <2> QED
    BY <1>0, <2>1, <2>2 DEF GateHolds
<1> QED
  BY <1>0, <1>3, <1>4 DEF ClosedShiftHasLines, NoLines

(* What the record of a request that moved to rec may rely on. *)
Fits(rec) ==
  /\ rec.at \in {"correctClosing", "verdict", "verifyCorrect"} => closing[rec.reading] # "none"
  /\ rec.at = "batch" => \A m \in rec.pending : closing[m] # "none"
  /\ rec.at \in {"closeRead", "closeReady"} => rec.lines # NoLines

OnlyMoves(r) == \A q \in Req : q # r => req'[q] = req[q]

LEMMA InFlightKept ==
  ASSUME InFlightDiscipline, NEW r \in Req, OnlyMoves(r), UNCHANGED <<book, verif>>, Fits(req'[r]),
         HoldsForUpdate(r)' => \A q \in Req : HoldsForUpdate(q) => q = r
  PROVE  InFlightDiscipline'
<1>1. \A p, q \in Req : HoldsForUpdate(p)' /\ HoldsForUpdate(q)' => p = q
  BY DEF InFlightDiscipline, OnlyMoves, HoldsForUpdate
<1>2. \A q \in Req : Fits(req[q])
  BY DEF InFlightDiscipline, Fits
<1>3. \A q \in Req : Fits(req'[q])
  BY <1>2 DEF OnlyMoves
<1> QED
  BY <1>1, <1>3 DEF InFlightDiscipline, Fits, book, verif, NoLines

(* A step that only moves a request, and not into an approval. *)
LEMMA Moving ==
  ASSUME Inv, NEW r \in Req, OnlyMoves(r), UNCHANGED <<shift, book, verif, line>>,
         Fits(req'[r]), ~HoldsForUpdate(r)'
  PROVE  InFlightDiscipline' /\ GateHolds' /\ ClosedShiftHasLines'
<1>1. InFlightDiscipline'
  BY InFlightKept DEF Inv
<1>2. (\E q \in Req : HoldsForUpdate(q)') => \E q \in Req : HoldsForUpdate(q)
  BY DEF OnlyMoves, HoldsForUpdate
<1>3. Verified => Verified'
  BY DEF Verified, book, verif
<1>4. GateHolds'
  BY <1>2, <1>3 DEF Inv, GateHolds
<1> QED
  BY <1>1, <1>4 DEF Inv, ClosedShiftHasLines, NoLines

LEMMA NextInv == Inv /\ [Next]_vars => Inv'
<1> SUFFICES ASSUME Inv, [Next]_vars PROVE Inv'
  OBVIOUS
<1>0. TypeOK /\ InFlightDiscipline /\ GateHolds /\ ClosedShiftHasLines
  BY DEF Inv
<1> DEFINE Goal == InFlightDiscipline' /\ GateHolds' /\ ClosedShiftHasLines'
<1> SUFFICES Goal
  BY NextTypeOK DEF Inv
<1>a. /\ req = [q \in Req |-> req[q]]
      /\ \A r, rec : r \in Req /\ req' = [req EXCEPT ![r] = rec] => OnlyMoves(r) /\ req'[r] = rec
  BY <1>0 DEF TypeOK, OnlyMoves
<1>b. Fits(Idle) /\ Idle.at \notin {"approveLocked", "approveSold"}
  BY DEF Fits, Idle
<1>c. ASSUME NEW r \in Req, Finish(r), UNCHANGED <<shift, book, verif, line>> PROVE Goal
  BY <1>a, <1>b, <1>c, Moving DEF Finish, HoldsForUpdate
<1>1. ASSUME NEW r \in Req, NEW n \in Nozzle, NozzleRead(r, n) PROVE Goal
  <2>1. PICK at \in {"assign", "unassign", "captureOpening", "correctOpening", "captureClosing"} :
          OpenShiftRead(r, [at |-> at, nozzle |-> n])
    BY <1>1 DEF NozzleRead, AssignRead, UnassignRead, CaptureOpeningRead, CorrectOpeningRead,
                CaptureClosingRead
  <2>2. OnlyMoves(r) /\ req'[r] = [at |-> at, nozzle |-> n]
    BY <1>a, <2>1 DEF OpenShiftRead, Start
  <2>3. Fits(req'[r]) /\ ~HoldsForUpdate(r)'
    BY <2>2 DEF Fits, HoldsForUpdate
  <2> QED
    BY <2>1, <2>2, <2>3, Moving DEF OpenShiftRead
<1>2. ASSUME NEW r \in Req, NEW t \in Tank, DipRead(r, t) PROVE Goal
  <2>1. OnlyMoves(r) /\ req'[r] = [at |-> "dip", tank |-> t]
    BY <1>2, <1>a DEF DipRead, OpenShiftRead, Start
  <2>2. Fits(req'[r]) /\ ~HoldsForUpdate(r)'
    BY <2>1 DEF Fits, HoldsForUpdate
  <2> QED
    BY <1>2, <2>1, <2>2, Moving DEF DipRead, OpenShiftRead
<1>3. ASSUME NEW r \in Req, NEW m \in Reading, SupervisorRead(r, m) PROVE Goal
  <2>1. PICK rec : /\ Start(r, rec) /\ rec.reading = m
                   /\ rec.at \in {"correctClosing", "verdict", "verifyCorrect"}
                   /\ closing[m] = "active" /\ UNCHANGED <<shift, book, verif, line>>
    BY <1>3 DEF SupervisorRead, CorrectClosingRead, VerdictRead, VerifyCorrectRead, OpenShiftRead
  <2>2. OnlyMoves(r) /\ req'[r] = rec
    BY <1>a, <2>1 DEF Start
  <2>3. Fits(req'[r]) /\ ~HoldsForUpdate(r)'
    BY <2>1, <2>2 DEF Fits, HoldsForUpdate
  <2> QED
    BY <2>1, <2>2, <2>3, Moving
<1>4. ASSUME NEW r \in Req, BatchRead(r) PROVE Goal
  <2>1. OnlyMoves(r) /\ req'[r] = [at |-> "batch", pending |-> UnverifiedClosing]
    BY <1>4, <1>a DEF BatchRead, Start
  <2>2. Fits(req'[r]) /\ ~HoldsForUpdate(r)'
    BY <2>1 DEF Fits, HoldsForUpdate, UnverifiedClosing
  <2> QED
    BY <1>4, <2>1, <2>2, Moving DEF BatchRead
<1>5. ASSUME NEW r \in Req, CloseRead(r) PROVE Goal
  <2> DEFINE prepared == [n \in Nozzle |-> IF n \in assigned THEN Figures(n) ELSE NoLine]
  <2>1. prepared # NoLines
    BY <1>5, <1>0 DEF CloseRead, NoLines, TypeOK
  <2>2. OpenShiftRead(r, [at |-> "closeRead", lines |-> prepared])
    BY <1>5 DEF CloseRead
  <2> HIDE DEF prepared
  <2>3. OnlyMoves(r) /\ req'[r] = [at |-> "closeRead", lines |-> prepared]
    BY <1>a, <2>2 DEF OpenShiftRead, Start
  <2>4. Fits(req'[r]) /\ ~HoldsForUpdate(r)'
    BY <2>1, <2>3 DEF Fits, HoldsForUpdate
  <2> QED
    BY <2>2, <2>3, <2>4, Moving DEF OpenShiftRead
<1>6. ASSUME NEW r \in Req, CloseCheck(r) PROVE Goal
  <2>1. PICK lines \in Lines : req[r] = [at |-> "closeRead", lines |-> lines]
    BY <1>6, <1>0 DEF CloseCheck, TypeOK, Request, Idle
  <2>2. OnlyMoves(r) /\ req'[r] = [at |-> "closeReady", lines |-> lines]
    BY <1>6, <1>a, <2>1 DEF CloseCheck, Goto
  <2>3. lines # NoLines
    BY <1>0, <2>1 DEF InFlightDiscipline
  <2>4. Fits(req'[r]) /\ ~HoldsForUpdate(r)'
    BY <2>2, <2>3 DEF Fits, HoldsForUpdate
  <2> QED
    BY <1>6, <2>2, <2>4, Moving DEF CloseCheck
<1>7. ASSUME NEW r \in Req, CloseShift(r) PROVE Goal
  <2>1. OnlyMoves(r) /\ req'[r] = Idle
    BY <1>7, <1>a DEF CloseShift, Finish
  <2>2. \A q \in Req : ~HoldsForUpdate(q)'
    BY <1>7, <1>b, <2>1 DEF CloseShift, ShiftRowFree, HoldsForUpdate, OnlyMoves
  <2>3. InFlightDiscipline'
    BY <1>7, <1>0, <1>b, <2>1, <2>2, InFlightKept DEF CloseShift
  <2>4. line' # NoLines /\ shift' # "open"
    BY <1>7, <1>0 DEF CloseShift, InFlightDiscipline
  <2> QED
    BY <2>2, <2>3, <2>4 DEF GateHolds, ClosedShiftHasLines, NoLines
<1>8. ASSUME NEW r \in Req, Write(r) PROVE Goal
  <2>1. CASE AssignNozzle(r) \/ UnassignNozzle(r) \/ CaptureDip(r)
    BY <1>c, <2>1 DEF AssignNozzle, UnassignNozzle, CaptureDip
  <2>2. ASSUME NEW x \in Value, WriteOpening(r, x) PROVE Goal
    BY <1>c, <2>2 DEF WriteOpening
  <2>3. ASSUME NEW m \in Reading, NEW x \in Value, CaptureClosing(r, m, x) PROVE Goal
    <3>1. req[r].nozzle \in Nozzle
      BY <1>0, <2>3, RequestFields DEF CaptureClosing
    <3> QED
      BY <2>3, <3>1, Inserting DEF CaptureClosing
  <2>4. ASSUME NEW m \in Reading, NEW x \in Value, CorrectClosing(r, m, x) PROVE Goal
    <3>1. req[r].reading \in Reading /\ nozzleOf[req[r].reading] \in Nozzle
      BY <1>0, <2>4, RequestFields DEF CorrectClosing, InFlightDiscipline
    <3> QED
      BY <2>4, <3>1, Inserting DEF CorrectClosing
  <2>5. CASE Verdict(r)
    <3>1. /\ req[r].reading \in Reading /\ req[r].to \in Terminal \cup Hold
          /\ closing[req[r].reading] # "none" /\ value[req[r].reading] \in Value
      BY <1>0, <2>5, RequestFields DEF Verdict, InFlightDiscipline
    <3> QED
      BY <2>5, <3>1, Upserting DEF Verdict
  <2>6. CASE VerifyCorrect(r)
    <3> DEFINE n == nozzleOf[req[r].reading]
    <3>1. /\ req[r].reading \in Reading /\ req[r].value \in Value /\ n \in Nozzle
          /\ closing[req[r].reading] # "none"
      BY <1>0, <2>6, RequestFields DEF VerifyCorrect, InFlightDiscipline
    <3>2. CASE req[r].seen = "closed" /\ line[n] # NoLine
      <4>1. line[n] \in Line /\ line' = [line EXCEPT ![n].closing = req[r].value]
        BY <1>0, <2>6, <3>1, <3>2 DEF VerifyCorrect, Recompute, Lines, TypeOK
      <4>2. line'[n] \in Line
        BY <1>0, <3>1, <4>1 DEF Lines, Line, TypeOK
      <4>3. line # NoLines /\ line' # NoLines
        BY <3>1, <3>2, <4>2, ReadingAssumption DEF NoLines, Line
      <4> QED
        BY <2>6, <3>1, <4>3, Upserting DEF VerifyCorrect, Terminal
    <3>3. CASE ~(req[r].seen = "closed" /\ line[n] # NoLine)
      <4>1. line' = line
        BY <2>6, <3>3 DEF VerifyCorrect, Recompute
      <4> QED
        BY <2>6, <3>1, <4>1, Upserting DEF VerifyCorrect, Terminal
    <3> QED
      BY <3>2, <3>3
  <2>7. CASE BatchVerify(r)
    <3>1. req[r].pending \subseteq Reading /\ \A m \in req[r].pending : closing[m] # "none"
      BY <1>0, <2>7, RequestFields DEF BatchVerify, InFlightDiscipline
    <3>2. \A m \in Reading : verdict'[m] # "none" => final'[m] \in Value
      BY <1>0, <2>7, <3>1 DEF BatchVerify, InFlightDiscipline, TypeOK, verif
    <3>3. OnlyMoves(r) /\ req'[r] = Idle
      BY <1>a, <2>7 DEF BatchVerify, Finish
    <3>4. \A q \in Req : ~HoldsForUpdate(q)'
      BY <1>b, <2>7, <3>3 DEF BatchVerify, ShiftRowFree, HoldsForUpdate, OnlyMoves
    <3>5. \A q \in Req : Fits(req'[q])
      BY <1>0, <1>b, <3>3 DEF InFlightDiscipline, Fits, OnlyMoves
    <3>6. InFlightDiscipline'
      BY <1>0, <2>7, <3>2, <3>4, <3>5 DEF BatchVerify, InFlightDiscipline, Fits, book, NoLines
    <3> QED
      BY <1>0, <2>7, <3>4, <3>6 DEF BatchVerify, GateHolds, ClosedShiftHasLines, NoLines
  <2> HIDE DEF Goal
  <2> QED
    BY <1>8, <2>1, <2>2, <2>3, <2>4, <2>5, <2>6, <2>7 DEF Write
<1>9. ASSUME NEW r \in Req, ApproveLock(r) PROVE Goal
  <2>1. OnlyMoves(r) /\ req'[r] = [at |-> "approveLocked"]
    BY <1>9, <1>a DEF ApproveLock, Start
  <2>2. Fits(req'[r])
    BY <2>1 DEF Fits
  <2>3. InFlightDiscipline'
    BY <1>9, <1>0, <2>1, <2>2, InFlightKept DEF ApproveLock, ShiftRowFree
  <2>4. shift' = "closed" /\ Verified'
    BY <1>9 DEF ApproveLock, Verified, book, verif
  <2> QED
    BY <1>9, <1>0, <2>3, <2>4 DEF ApproveLock, GateHolds, ClosedShiftHasLines, NoLines
<1>10. ASSUME NEW r \in Req, ApproveSales(r) PROVE Goal
  <2>1. OnlyMoves(r) /\ req'[r] = [at |-> "approveSold", lines |-> line]
    BY <1>10, <1>a DEF ApproveSales, Goto
  <2>2. Fits(req'[r]) /\ HoldsForUpdate(r)
    BY <1>10, <2>1 DEF Fits, ApproveSales, HoldsForUpdate
  <2>3. InFlightDiscipline'
    BY <1>10, <1>0, <2>1, <2>2, InFlightKept DEF ApproveSales, InFlightDiscipline
  <2>4. shift' = "closed" /\ Verified'
    BY <1>10, <1>0, <2>2 DEF ApproveSales, GateHolds, Verified, book, verif
  <2> QED
    BY <1>10, <1>0, <2>3, <2>4 DEF ApproveSales, GateHolds, ClosedShiftHasLines, NoLines
<1>11. ASSUME NEW r \in Req, ApproveCommit(r) PROVE Goal
  <2>1. OnlyMoves(r) /\ req'[r] = Idle /\ HoldsForUpdate(r)
    BY <1>11, <1>a DEF ApproveCommit, Finish, HoldsForUpdate
  <2>2. \A q \in Req : ~HoldsForUpdate(q)'
    BY <1>0, <1>b, <2>1 DEF InFlightDiscipline, HoldsForUpdate, OnlyMoves
  <2>3. InFlightDiscipline'
    BY <1>11, <1>0, <1>b, <2>1, <2>2, InFlightKept DEF ApproveCommit
  <2>4. shift # "open" /\ shift' # "open" /\ line' = line
    BY <1>11, <1>0, <2>1 DEF ApproveCommit, GateHolds
  <2> QED
    BY <1>0, <2>2, <2>3, <2>4 DEF GateHolds, ClosedShiftHasLines, NoLines
<1>12. ASSUME NEW r \in Req, Rollback(r) PROVE Goal
  BY <1>c, <1>12 DEF Rollback
<1>13. CASE UNCHANGED vars
  BY <1>0, <1>13 DEF vars, book, verif, InFlightDiscipline, GateHolds, ClosedShiftHasLines,
                     HoldsForUpdate, Verified, NoLines
<1> HIDE DEF Goal
<1> QED
  BY <1>1, <1>2, <1>3, <1>4, <1>5, <1>6, <1>7, <1>8, <1>9, <1>10, <1>11, <1>12, <1>13 DEF Next

LEMMA Invariance == Spec => []Inv
BY InitInv, NextInv, PTL DEF Spec

(* Between the re-check under the lock and the commit of an approval no    *)
(* request makes an active closing reading unverified.                     *)
THEOREM GateHoldsToCommit == Spec => []GateHolds
BY Invariance, PTL DEF Inv

(* A shift has close lines exactly when it has been closed. *)
THEOREM LinesFromClose == Spec => []ClosedShiftHasLines
BY Invariance, PTL DEF Inv

(* However closes and approvals overlap, the status of a shift only moves  *)
(* from open to closed to approved.                                        *)
THEOREM ShiftNeverGoesBack == Spec => ShiftMovesForward
<1> DEFINE Step == shift' # shift =>
             <<shift, shift'>> \in {<<"open", "closed">>, <<"closed", "approved">>}
<1>1. Inv /\ [Next]_vars => [Step]_vars
  <2> SUFFICES ASSUME Inv, Next, shift' # shift PROVE Step
    BY DEF vars
  <2> USE DEF OpenShiftRead
  <2>0. PICK r \in Req : \/ CloseShift(r) \/ ApproveCommit(r)
                        \/ (\E n \in Nozzle : NozzleRead(r, n)) \/ (\E k \in Tank : DipRead(r, k))
                        \/ (\E m \in Reading : SupervisorRead(r, m)) \/ BatchRead(r) \/ CloseRead(r)
                        \/ CloseCheck(r) \/ Write(r) \/ ApproveLock(r) \/ ApproveSales(r) \/ Rollback(r)
    BY DEF Next
  <2>1. CloseShift(r) \/ ApproveCommit(r)
    <3>1. ~Write(r)
      BY DEF Write, AssignNozzle, UnassignNozzle, CaptureDip, WriteOpening, CaptureClosing,
             CorrectClosing, Verdict, VerifyCorrect, BatchVerify
    <3>2. ~\E n \in Nozzle : NozzleRead(r, n)
      BY DEF NozzleRead, AssignRead, UnassignRead, CaptureOpeningRead, CorrectOpeningRead,
             CaptureClosingRead
    <3>3. ~\E m \in Reading : SupervisorRead(r, m)
      BY DEF SupervisorRead, CorrectClosingRead, VerdictRead, VerifyCorrectRead
    <3>4. ~\E k \in Tank : DipRead(r, k)
      BY DEF DipRead
    <3>5. ~BatchRead(r) /\ ~CloseRead(r) /\ ~CloseCheck(r)
      BY DEF BatchRead, CloseRead, CloseCheck
    <3>6. ~ApproveLock(r) /\ ~ApproveSales(r) /\ ~Rollback(r)
      BY DEF ApproveLock, ApproveSales, Rollback
    <3> QED
      BY <2>0, <3>1, <3>2, <3>3, <3>4, <3>5, <3>6
  <2> QED
    BY <2>1 DEF Inv, GateHolds, HoldsForUpdate, CloseShift, ApproveCommit
<1> QED
  BY <1>1, Invariance, PTL DEF Spec, ShiftMovesForward

(* A terminal verdict and its figure never change, whatever verdicts,      *)
(* corrections and batches overlap.                                        *)
THEOREM VerdictsAreFinal == Spec => VerdictIsFinal
<1> DEFINE Step == \A m \in Reading : verdict[m] \in Terminal =>
                     verdict'[m] = verdict[m] /\ final'[m] = final[m]
<1>1. Inv /\ [Next]_vars => [Step]_vars
  <2> SUFFICES ASSUME Inv, Next PROVE Step
    BY DEF vars
  <2> USE DEF OpenShiftRead, verif
  <2>1. CASE UNCHANGED verif
    BY <2>1
  <2>2. ASSUME NEW r \in Req, Verdict(r) \/ VerifyCorrect(r) PROVE Step
    BY <2>2 DEF Verdict, VerifyCorrect, UpsertVerification, Inv, TypeOK, Request
  <2>3. ASSUME NEW r \in Req, BatchVerify(r) PROVE Step
    BY <2>3 DEF BatchVerify, BatchRaced, Terminal, Inv, TypeOK, Request
  <2>4. ASSUME NEW r \in Req, Write(r) PROVE Step
    BY <2>1, <2>2, <2>3, <2>4
       DEF Write, AssignNozzle, UnassignNozzle, CaptureDip, WriteOpening, CaptureClosing, CorrectClosing
  <2> HIDE DEF Step
  <2>5. ASSUME NEW r \in Req,
               \/ (\E n \in Nozzle : NozzleRead(r, n)) \/ (\E k \in Tank : DipRead(r, k))
               \/ (\E m \in Reading : SupervisorRead(r, m)) \/ BatchRead(r)
        PROVE  UNCHANGED verif
    BY <2>5 DEF NozzleRead, AssignRead, UnassignRead, CaptureOpeningRead, CorrectOpeningRead,
                CaptureClosingRead, DipRead, SupervisorRead, CorrectClosingRead, VerdictRead,
                VerifyCorrectRead, BatchRead
  <2>6. ASSUME NEW r \in Req,
               \/ CloseRead(r) \/ CloseCheck(r) \/ CloseShift(r)
               \/ ApproveLock(r) \/ ApproveSales(r) \/ ApproveCommit(r) \/ Rollback(r)
        PROVE  UNCHANGED verif
    BY <2>6 DEF CloseRead, CloseCheck, CloseShift, ApproveLock, ApproveSales, ApproveCommit, Rollback
  <2> HIDE DEF verif
  <2> QED
    BY <2>1, <2>4, <2>5, <2>6 DEF Next
<1> QED
  BY <1>1, Invariance, PTL DEF Spec, VerdictIsFinal

=============================================================================
