--------------------------- MODULE ShiftReadings ---------------------------
(***************************************************************************)
(* The meter readings of one shift, from capture to the figures approval   *)
(* posts: capture and correction of readings, the supervisor's verdicts on *)
(* closing readings, the close that freezes one line per nozzle, and the   *)
(* approval that posts the lines as stock movements and sales.             *)
(*                                                                         *)
(* A request first reads through the pool and keeps what it saw; its       *)
(* transaction runs later.  Only close and approval lock the shift row     *)
(* (FOR UPDATE).  Inserting a row that references the shift waits for that *)
(* lock (foreign-key check, FOR KEY SHARE) but does not look at the        *)
(* shift's status again.  A transaction whose writes nobody else can see   *)
(* or change before its commit is one step.  The receipt and exception     *)
(* gates of approval are in ShiftCash.                                     *)
(***************************************************************************)
EXTENDS Integers

CONSTANTS
  Nozzle,     \* nozzles of the station
  Tank,       \* tanks of the station
  TankOf,     \* the tank behind each nozzle
  Reading,    \* ids of closing rows of meter_readings
  Value,      \* meter figures
  Req,        \* concurrent requests
  NoNozzle, NoValue, NoLine

ASSUME ReadingAssumption ==
  /\ TankOf \in [Nozzle -> Tank]
  /\ Value \subseteq Nat
  /\ NoNozzle \notin Nozzle /\ NoValue \notin Value
  /\ NoLine \notin [opening : Value, closing : Value]

VARIABLES
  shift,      \* shifts.status
  assigned,   \* nozzles in shift_nozzle_assignments
  dipped,     \* tanks with an active closing dip
  opening,    \* the active opening figure of each nozzle
  closing,    \* status of each closing row, "none" before its insert
  nozzleOf,   \* its nozzle
  value,      \* the figure submitted
  verdict,    \* status of its reading_verifications row, "none" without one
  final,      \* final_approved_reading of that row
  line,       \* shift_close_lines row of each nozzle
  stock,      \* the lines whose litres approval posted to the stock ledger
  sales,      \* the lines approval valued into sales
  req         \* each request: where it is and what it read

book   == <<closing, nozzleOf, value>>
verif  == <<verdict, final>>
posted == <<stock, sales>>
vars   == <<shift, assigned, dipped, opening, book, verif, line, posted, req>>

Line    == [opening : Value, closing : Value]
Lines   == [Nozzle -> Line \cup {NoLine}]
NoLines == [n \in Nozzle |-> NoLine]

Terminal == {"approved", "corrected"}
Hold     == {"rejected", "flagged"}

Idle == [at |-> "idle"]

Request ==
  {Idle}
  \cup [at : {"assign", "unassign", "captureOpening", "correctOpening", "captureClosing"},
        nozzle : Nozzle]
  \cup [at : {"dip"}, tank : Tank]
  \cup [at : {"correctClosing"}, reading : Reading]
  \cup [at : {"closeRead", "closeReady", "approveSold"}, lines : Lines]
  \cup [at : {"batch"}, pending : SUBSET Reading]
  \cup [at : {"verdict"}, reading : Reading, to : {"approved", "rejected", "flagged"}]
  \cup [at : {"verifyCorrect"}, reading : Reading, value : Value,
        seen : {"open", "closed"}]
  \cup [at : {"approveLocked"}]

Start(r, rec) == req[r] = Idle /\ req' = [req EXCEPT ![r] = rec]
Goto(r, rec)  == req' = [req EXCEPT ![r] = rec]
Finish(r)     == req' = [req EXCEPT ![r] = Idle]

(* Approval holds the shift row FOR UPDATE from its re-checks to its commit. *)
HoldsForUpdate(r) == req[r].at \in {"approveLocked", "approveSold"}

(* Bug: approval reads the shift without FOR UPDATE, so nothing waits. *)
ShiftRowNeverLocked == TRUE

ShiftRowFree == \A r \in Req : ~HoldsForUpdate(r)

ActiveClosing(n)  == {m \in Reading : closing[m] = "active" /\ nozzleOf[m] = n}
UnverifiedClosing == {m \in Reading : closing[m] = "active" /\ verdict[m] = "none"}
Verified == \A m \in Reading : closing[m] = "active" => verdict[m] \in Terminal

Init ==
  /\ shift = "open"
  /\ assigned = {}
  /\ dipped = {}
  /\ opening = [n \in Nozzle |-> NoValue]
  /\ closing = [m \in Reading |-> "none"]
  /\ nozzleOf = [m \in Reading |-> NoNozzle]
  /\ value = [m \in Reading |-> NoValue]
  /\ verdict = [m \in Reading |-> "none"]
  /\ final = [m \in Reading |-> NoValue]
  /\ line = NoLines
  /\ stock = NoLines
  /\ sales = NoLines
  /\ req = [r \in Req |-> Idle]

(* A refusal, an error or a lost client: the transaction rolls back. *)
Rollback(r) ==
  /\ req[r] # Idle
  /\ Finish(r)
  /\ UNCHANGED <<shift, assigned, dipped, opening, book, verif, line, posted>>

-----------------------------------------------------------------------------
(* Requests that need an open shift check it in the pool read only.        *)
OpenShiftRead(r, rec) ==
  /\ shift = "open"
  /\ Start(r, rec)
  /\ UNCHANGED <<shift, assigned, dipped, opening, book, verif, line, posted>>

AssignRead(r, n) == OpenShiftRead(r, [at |-> "assign", nozzle |-> n])

AssignNozzle(r) ==
  /\ req[r].at = "assign"
  /\ ShiftRowFree
  /\ req[r].nozzle \notin assigned
  /\ assigned' = assigned \cup {req[r].nozzle}
  /\ Finish(r)
  /\ UNCHANGED <<shift, dipped, opening, book, verif, line, posted>>

UnassignRead(r, n) ==
  n \in assigned /\ OpenShiftRead(r, [at |-> "unassign", nozzle |-> n])

(* A DELETE takes no lock on the shift row. *)
UnassignNozzle(r) ==
  /\ req[r].at = "unassign"
  /\ req[r].nozzle \in assigned
  /\ assigned' = assigned \ {req[r].nozzle}
  /\ Finish(r)
  /\ UNCHANGED <<shift, dipped, opening, book, verif, line, posted>>

DipRead(r, t) ==
  /\ \E n \in assigned : TankOf[n] = t
  /\ OpenShiftRead(r, [at |-> "dip", tank |-> t])

(* The closing dip.  Opening dips and corrections, which supersede and     *)
(* insert in one transaction, leave its presence as it is.                 *)
CaptureDip(r) ==
  /\ req[r].at = "dip"
  /\ ShiftRowFree
  /\ req[r].tank \notin dipped
  /\ dipped' = dipped \cup {req[r].tank}
  /\ Finish(r)
  /\ UNCHANGED <<shift, assigned, opening, book, verif, line, posted>>

-----------------------------------------------------------------------------
(* Opening readings.  The row a correction supersedes is looked up after   *)
(* the shift's status, so only the status can be stale in a new way.       *)
CaptureOpeningRead(r, n) ==
  n \in assigned /\ OpenShiftRead(r, [at |-> "captureOpening", nozzle |-> n])

CorrectOpeningRead(r, n) ==
  /\ n \in assigned
  /\ opening[n] # NoValue
  /\ OpenShiftRead(r, [at |-> "correctOpening", nozzle |-> n])

WriteOpening(r, x) ==
  /\ \/ req[r].at = "captureOpening" /\ opening[req[r].nozzle] = NoValue
     \/ req[r].at = "correctOpening"
  /\ ShiftRowFree
  /\ opening' = [opening EXCEPT ![req[r].nozzle] = x]
  /\ Finish(r)
  /\ UNCHANGED <<shift, assigned, dipped, book, verif, line, posted>>

CaptureClosingRead(r, n) ==
  n \in assigned /\ OpenShiftRead(r, [at |-> "captureClosing", nozzle |-> n])

InsertClosing(m, n, x, old) ==
  /\ ShiftRowFree
  /\ closing[m] = "none"
  /\ closing' = [k \in Reading |->
       CASE k = m -> "active" [] k \in old -> "superseded" [] OTHER -> closing[k]]
  /\ nozzleOf' = [nozzleOf EXCEPT ![m] = n]
  /\ value' = [value EXCEPT ![m] = x]

(* The partial unique index admits one active closing per nozzle. *)
CaptureClosing(r, m, x) ==
  /\ req[r].at = "captureClosing"
  /\ ActiveClosing(req[r].nozzle) = {}
  /\ InsertClosing(m, req[r].nozzle, x, {})
  /\ Finish(r)
  /\ UNCHANGED <<shift, assigned, dipped, opening, verif, line, posted>>

(* An attendant may correct a closing only after a rejection; a supervisor *)
(* may always.                                                             *)
CorrectClosingRead(r, m, override) ==
  /\ closing[m] = "active"
  /\ override \/ verdict[m] = "rejected"
  /\ nozzleOf[m] \in assigned
  /\ OpenShiftRead(r, [at |-> "correctClosing", reading |-> m])

(* Supersede, then Capture, in one transaction. *)
CorrectClosing(r, m, x) ==
  /\ req[r].at = "correctClosing"
  /\ closing[req[r].reading] = "active"
  /\ InsertClosing(m, nozzleOf[req[r].reading], x, {req[r].reading})
  /\ Finish(r)
  /\ UNCHANGED <<shift, assigned, dipped, opening, verif, line, posted>>

-----------------------------------------------------------------------------
(* upsertVerificationClearingHold: insert, or overwrite a hold in place.   *)
(* Only the insert checks the foreign key.  A terminal verdict refuses.    *)
UpsertVerification(m, to, x) ==
  /\ verdict[m] \notin Terminal
  /\ verdict[m] = "none" => ShiftRowFree
  /\ verdict' = [verdict EXCEPT ![m] = to]
  /\ final' = [final EXCEPT ![m] = x]

(* loadClosingForVerdict. *)
VerdictRead(r, m, to) ==
  /\ shift # "approved"
  /\ closing[m] = "active"
  /\ Start(r, [at |-> "verdict", reading |-> m, to |-> to])
  /\ UNCHANGED <<shift, assigned, dipped, opening, book, verif, line, posted>>

(* Approve, reject or flag: the final figure is the one submitted. *)
Verdict(r) ==
  /\ req[r].at = "verdict"
  /\ UpsertVerification(req[r].reading, req[r].to, value[req[r].reading])
  /\ Finish(r)
  /\ UNCHANGED <<shift, assigned, dipped, opening, book, line, posted>>

(* handleVerifyCorrectReading up to its Begin: the corrected figure is     *)
(* compared with the opening as it is now.                                 *)
VerifyCorrectRead(r, m, x) ==
  /\ shift # "approved"
  /\ closing[m] = "active"
  /\ opening[nozzleOf[m]] # NoValue => x >= opening[nozzleOf[m]]
  /\ Start(r, [at |-> "verifyCorrect", reading |-> m, value |-> x, seen |-> shift])
  /\ UNCHANGED <<shift, assigned, dipped, opening, book, verif, line, posted>>

(* RecomputeCloseLineClosing, when the shift was closed at the pool read:  *)
(* rewrites the nozzle's line, if there is one, from its frozen opening.   *)
Recompute(r, n) ==
  IF req[r].seen = "closed" /\ line[n] # NoLine
  THEN /\ req[r].value >= line[n].opening
       /\ line' = [line EXCEPT ![n].closing = req[r].value]
  ELSE UNCHANGED line

VerifyCorrect(r) ==
  /\ req[r].at = "verifyCorrect"
  /\ UpsertVerification(req[r].reading, "corrected", req[r].value)
  /\ Recompute(r, nozzleOf[req[r].reading])
  /\ Finish(r)
  /\ UNCHANGED <<shift, assigned, dipped, opening, book, posted>>

(* The batch endpoint checks no status; its work list is a pool read. *)
BatchRead(r) ==
  /\ UnverifiedClosing # {}
  /\ Start(r, [at |-> "batch", pending |-> UnverifiedClosing])
  /\ UNCHANGED <<shift, assigned, dipped, opening, book, verif, line, posted>>

BatchRaced(r) == \E m \in req[r].pending : verdict[m] # "none"

(* One transaction inserts an approval per pending reading.  The inserts   *)
(* run without a savepoint: a unique violation aborts the transaction, so  *)
(* the statements that follow it, and the commit, fail.                    *)
BatchVerify(r) ==
  /\ req[r].at = "batch"
  /\ ShiftRowFree
  /\ IF BatchRaced(r)
     THEN UNCHANGED verif
     ELSE /\ verdict' = [m \in Reading |->
               IF m \in req[r].pending THEN "approved" ELSE verdict[m]]
          /\ final' = [m \in Reading |->
               IF m \in req[r].pending THEN value[m] ELSE final[m]]
  /\ Finish(r)
  /\ UNCHANGED <<shift, assigned, dipped, opening, book, line, posted>>

-----------------------------------------------------------------------------
(* The figure a close freezes for a nozzle: the final figure where the     *)
(* active closing carries a verification of any status, else the figure    *)
(* submitted.                                                              *)
ClosingFigure(m) == IF verdict[m] = "none" THEN value[m] ELSE final[m]

Figures(n) ==
  IF opening[n] # NoValue /\ ActiveClosing(n) # {}
  THEN [opening |-> opening[n],
        closing |-> ClosingFigure(CHOOSE m \in ActiveClosing(n) : TRUE)]
  ELSE NoLine

(* handleCloseShift's pool reads: the assignments, the active readings     *)
(* and the final figures; every assigned nozzle needs both readings.       *)
CloseRead(r) ==
  /\ assigned # {}
  /\ \A n \in assigned : Figures(n) # NoLine
  /\ OpenShiftRead(r, [at |-> "closeRead", lines |->
       [n \in Nozzle |-> IF n \in assigned THEN Figures(n) ELSE NoLine]])

RolledBack(n) ==
  /\ opening[n] # NoValue
  /\ \E m \in ActiveClosing(n) : value[m] < opening[n]

(* The dips, and the rollback query, which compares the readings as        *)
(* submitted, not the figures the lines will carry.                        *)
CloseCheck(r) ==
  /\ req[r].at = "closeRead"
  /\ \A n \in Nozzle :
       req[r].lines[n] # NoLine => TankOf[n] \in dipped /\ ~RolledBack(n)
  /\ Goto(r, [req[r] EXCEPT !.at = "closeReady"])
  /\ UNCHANGED <<shift, assigned, dipped, opening, book, verif, line, posted>>

(* Lock, re-check, insert the lines, set the status, commit. *)
CloseShift(r) ==
  /\ req[r].at = "closeReady"
  /\ ShiftRowFree
  /\ shift = "open"
  /\ line' = req[r].lines
  /\ shift' = "closed"
  /\ Finish(r)
  /\ UNCHANGED <<assigned, dipped, opening, book, verif, posted>>

-----------------------------------------------------------------------------
(* handleApproveShift.  Its pool checks are all repeated under the lock,   *)
(* so the request starts there.                                            *)
ApproveLock(r) ==
  /\ shift = "closed"
  /\ ShiftRowFree
  /\ Verified
  /\ Start(r, [at |-> "approveLocked"])
  /\ UNCHANGED <<shift, assigned, dipped, opening, book, verif, line, posted>>

(* postShiftSales sums the committed lines through the pool. *)
ApproveSales(r) ==
  /\ req[r].at = "approveLocked"
  /\ Goto(r, [at |-> "approveSold", lines |-> line])
  /\ UNCHANGED <<shift, assigned, dipped, opening, book, verif, line, posted>>

(* recognizeShiftRevenue reads the lines in the transaction; then commit. *)
ApproveCommit(r) ==
  /\ req[r].at = "approveSold"
  /\ shift' = "approved"
  /\ stock' = req[r].lines
  /\ sales' = line
  /\ Finish(r)
  /\ UNCHANGED <<assigned, dipped, opening, book, verif, line>>

-----------------------------------------------------------------------------
NozzleRead(r, n) ==
  \/ AssignRead(r, n) \/ UnassignRead(r, n)
  \/ CaptureOpeningRead(r, n) \/ CorrectOpeningRead(r, n) \/ CaptureClosingRead(r, n)

SupervisorRead(r, m) ==
  \/ \E override \in BOOLEAN : CorrectClosingRead(r, m, override)
  \/ \E to \in {"approved", "rejected", "flagged"} : VerdictRead(r, m, to)
  \/ \E x \in Value : VerifyCorrectRead(r, m, x)

Write(r) ==
  \/ AssignNozzle(r) \/ UnassignNozzle(r) \/ CaptureDip(r)
  \/ \E x \in Value : WriteOpening(r, x)
  \/ \E m \in Reading, x \in Value : CaptureClosing(r, m, x) \/ CorrectClosing(r, m, x)
  \/ Verdict(r) \/ VerifyCorrect(r) \/ BatchVerify(r)

Next ==
  \E r \in Req :
    \/ \E n \in Nozzle : NozzleRead(r, n)
    \/ \E t \in Tank : DipRead(r, t)
    \/ \E m \in Reading : SupervisorRead(r, m)
    \/ BatchRead(r) \/ CloseRead(r) \/ CloseCheck(r) \/ CloseShift(r)
    \/ Write(r)
    \/ ApproveLock(r) \/ ApproveSales(r) \/ ApproveCommit(r)
    \/ Rollback(r)

Spec == Init /\ [][Next]_vars

-----------------------------------------------------------------------------
(* Type invariant. *)
TypeOK ==
  /\ shift \in {"open", "closed", "approved"}
  /\ assigned \subseteq Nozzle
  /\ dipped \subseteq Tank
  /\ opening \in [Nozzle -> Value \cup {NoValue}]
  /\ closing \in [Reading -> {"none", "active", "superseded"}]
  /\ nozzleOf \in [Reading -> Nozzle \cup {NoNozzle}]
  /\ value \in [Reading -> Value \cup {NoValue}]
  /\ verdict \in [Reading -> {"none"} \cup Terminal \cup Hold]
  /\ final \in [Reading -> Value \cup {NoValue}]
  /\ line \in Lines /\ stock \in Lines /\ sales \in Lines
  /\ req \in [Req -> Request]

(* A shift moves open, closed, approved, one step at a time and never      *)
(* back: of two closes, or two approvals, that overlap, the second finds   *)
(* the status changed under the lock (OPS-008, OPS-009).                   *)
ShiftMovesForward ==
  [][shift' # shift => <<shift, shift'>> \in {<<"open", "closed">>, <<"closed", "approved">>}]_vars

(* A terminal verdict, and its figure, are never decided again, whatever   *)
(* requests overlap (upsertVerificationClearingHold: "a hold can be        *)
(* re-decided, a final verdict cannot").                                   *)
VerdictIsFinal ==
  [][\A m \in Reading : verdict[m] \in Terminal =>
       verdict'[m] = verdict[m] /\ final'[m] = final[m]]_vars

(* What the approval gate saw still holds when approval posts: from its    *)
(* re-check to its commit every active closing carries a terminal verdict. *)
GateHolds == (\E r \in Req : HoldsForUpdate(r)) => shift = "closed" /\ Verified

(* What requests in flight may rely on: approvals exclude each other, the  *)
(* rows a request loaded stay in the tables with their figures, and the    *)
(* lines a close prepared are not empty.                                   *)
InFlightDiscipline ==
  /\ \A q, r \in Req : HoldsForUpdate(q) /\ HoldsForUpdate(r) => q = r
  /\ \A m \in Reading : closing[m] # "none" => nozzleOf[m] \in Nozzle /\ value[m] \in Value
  /\ \A m \in Reading : verdict[m] # "none" => final[m] \in Value
  /\ \A r \in Req : req[r].at \in {"correctClosing", "verdict", "verifyCorrect"}
       => closing[req[r].reading] # "none"
  /\ \A r \in Req : req[r].at = "batch" => \A m \in req[r].pending : closing[m] # "none"
  /\ \A r \in Req : req[r].at \in {"closeRead", "closeReady"} => req[r].lines # NoLines

(* Closing leaves at least one line, and only closing writes the first:    *)
(* lines exist exactly from the close on.                                  *)
ClosedShiftHasLines == shift # "open" <=> line # NoLines

-----------------------------------------------------------------------------
(* What comments of the handlers say of the code, and the code does not do *)
(* in every interleaving.                                                  *)

(* handleApproveShift: "a reading captured/corrected concurrently cannot   *)
(* slip past approval unverified."                                         *)
ApprovedIsVerified == shift = "approved" => Verified

(* handleVerifyCorrectReading: "Once approved, the shift's sales and       *)
(* revenue are posted from the frozen lines; a correction now would desync *)
(* approved facts."                                                        *)
PostedFromLines == shift = "approved" => stock = line /\ sales = line

(* handleVerifyCorrectReading: "A corrected closing below the nozzle's     *)
(* opening would drive litres negative -- reject it whether or not the     *)
(* shift has closed yet".                                                  *)
LitresNotNegative ==
  \A n \in Nozzle : line[n] # NoLine => line[n].closing >= line[n].opening

(* handleCloseShift: closings verified before the close "freeze the        *)
(* supervisor's final approved figure".                                    *)
LineCarriesFinal ==
  \A m \in Reading :
    closing[m] = "active" /\ verdict[m] = "corrected" /\ line[nozzleOf[m]] # NoLine
      => line[nozzleOf[m]].closing = final[m]

(* handleVerifyShiftReadings, of a reading verified meanwhile: "it is no   *)
(* longer pending, which is exactly what this batch wanted", and the loop  *)
(* continues with the others.                                              *)
BatchSkipsRaced ==
  [][\A r \in Req : BatchVerify(r) =>
       \A m \in req[r].pending : verdict'[m] # "none"]_vars

=============================================================================
