----------------------------- MODULE ShiftCash -----------------------------
(***************************************************************************)
(* The cash of one shift: the attendant's submission against the expected  *)
(* collection, the exception a large variance raises, the supervisor's     *)
(* collection receipt, and the approval that all of them gate.             *)
(*                                                                         *)
(* Submission and confirmation take the shift row FOR SHARE and read its   *)
(* status again; approval takes it FOR UPDATE and repeats every check.     *)
(* The close lines are seen through their total only, and the approval     *)
(* gate on verified readings is in ShiftReadings.                          *)
(***************************************************************************)
EXTENDS Integers

CONSTANTS
  Amount,      \* money amounts
  Threshold,   \* cashVarianceThreshold
  Req,         \* concurrent requests
  NoCash, NoReceipt

ASSUME CashAssumption ==
  /\ Amount \subseteq Nat /\ 0 \in Amount
  /\ Threshold \in Nat
  /\ NoCash \notin [expected : Amount, submitted : Amount]
  /\ NoReceipt \notin [status : {"received", "approved_with_difference", "rejected", "flagged"},
                       expected : Amount, received : Amount]

VARIABLES
  shift,       \* shifts.status
  total,       \* SUM(expected_value) over shift_close_lines
  cash,        \* the cash_submissions row
  exception,   \* status of the shift_exceptions row, "none" without one
  receipt,     \* the collection_receipts row
  req          \* each request: where it is and what it read

vars == <<shift, total, cash, exception, receipt, req>>

Cash     == [expected : Amount, submitted : Amount]
TerminalReceipt == {"received", "approved_with_difference"}
HeldReceipt     == {"rejected", "flagged"}
Receipt  == [status : TerminalReceipt \cup HeldReceipt, expected : Amount, received : Amount]

Idle == [at |-> "idle"]
Request ==
  [at : {"idle", "confirm", "confirmShared", "approveLocked", "approveCounted", "approveGated"}]
  \cup [at : {"submit", "submitShared"}, expected : Amount]
  \cup [at : {"correct"}, seen : {"open", "closed"}]

Start(r, rec) == req[r] = Idle /\ req' = [req EXCEPT ![r] = rec]
Goto(r, at)   == req' = [req EXCEPT ![r].at = at]
Finish(r)     == req' = [req EXCEPT ![r] = Idle]

HoldsForShare(r)  == req[r].at \in {"submitShared", "confirmShared"}
HoldsForUpdate(r) == req[r].at \in {"approveLocked", "approveCounted", "approveGated"}

Exceeds(c) == c.submitted - c.expected > Threshold \/ c.expected - c.submitted > Threshold

ReceiptIn(statuses) == receipt # NoReceipt /\ receipt.status \in statuses
Awaiting == cash # NoCash /\ ~ReceiptIn(TerminalReceipt)

Init ==
  /\ shift = "open"
  /\ total = 0
  /\ cash = NoCash
  /\ exception = "none"
  /\ receipt = NoReceipt
  /\ req = [r \in Req |-> Idle]

(* A refusal, an error or a lost client: the transaction rolls back. *)
Rollback(r) ==
  /\ req[r] # Idle
  /\ Finish(r)
  /\ UNCHANGED <<shift, total, cash, exception, receipt>>

-----------------------------------------------------------------------------
(* Closing checks the status and writes the lines under one lock of the    *)
(* shift row.                                                              *)
CloseShift(x) ==
  /\ shift = "open"
  /\ shift' = "closed"
  /\ total' = x
  /\ UNCHANGED <<cash, exception, receipt, req>>

(* A supervisor's correction of a closing reading: the shift's status is a *)
(* pool read, and decides whether the close line is recomputed.            *)
CorrectRead(r) ==
  /\ shift # "approved"
  /\ Start(r, [at |-> "correct", seen |-> shift])
  /\ UNCHANGED <<shift, total, cash, exception, receipt>>

(* Inserting the verification waits for FOR UPDATE on the shift row,       *)
(* overwriting a hold does not.  The lines change; the submission and the  *)
(* receipt computed from them do not.                                      *)
CorrectWrite(r, x, held) ==
  /\ req[r].at = "correct"
  /\ held \/ \A q \in Req : ~HoldsForUpdate(q)
  /\ total' = IF req[r].seen = "closed" THEN x ELSE total
  /\ Finish(r)
  /\ UNCHANGED <<shift, cash, exception, receipt>>

-----------------------------------------------------------------------------
(* handleSubmitCash: the expected cash is summed through the pool. *)
SubmitRead(r) ==
  /\ shift = "closed"
  /\ Start(r, [at |-> "submit", expected |-> total])
  /\ UNCHANGED <<shift, total, cash, exception, receipt>>

(* Bug: the transaction does not lock the shift row and re-check it. *)
SubmitShareUnlocked(r) ==
  /\ req[r].at = "submit"
  /\ Goto(r, "submitShared")
  /\ UNCHANGED <<shift, total, cash, exception, receipt>>

(* LockShiftStatusForShare and the check of the status it returns. *)
SubmitShare(r) ==
  /\ req[r].at = "submit"
  /\ \A q \in Req : ~HoldsForUpdate(q)
  /\ shift = "closed"
  /\ Goto(r, "submitShared")
  /\ UNCHANGED <<shift, total, cash, exception, receipt>>

(* The insert (one submission per shift), the reason an attendant owes for *)
(* a variance, and the exception a variance over the threshold raises.     *)
SubmitCash(r, x, override, notes) ==
  LET c == [expected |-> req[r].expected, submitted |-> x] IN
  /\ req[r].at = "submitShared"
  /\ cash = NoCash
  /\ override \/ notes \/ x = c.expected
  /\ cash' = c
  /\ exception' = IF Exceeds(c) THEN "open" ELSE exception
  /\ Finish(r)
  /\ UNCHANGED <<shift, total, receipt>>

(* ResolveException: one UPDATE of an open exception, at any shift status. *)
ResolveException ==
  /\ exception = "open"
  /\ exception' = "resolved"
  /\ UNCHANGED <<shift, total, cash, receipt, req>>

-----------------------------------------------------------------------------
(* handleConfirmCashSubmission.  A submission never changes, so what the   *)
(* pool read saw of it is still so in the transaction.                     *)
ConfirmRead(r) ==
  /\ shift = "closed"
  /\ cash # NoCash
  /\ Start(r, [at |-> "confirm"])
  /\ UNCHANGED <<shift, total, cash, exception, receipt>>

(* LockShiftStatusForShare again, before the receipt is written. *)
ConfirmShare(r) ==
  /\ req[r].at = "confirm"
  /\ \A q \in Req : ~HoldsForUpdate(q)
  /\ shift = "closed"
  /\ Goto(r, "confirmShared")
  /\ UNCHANGED <<shift, total, cash, exception, receipt>>

(* A hold stands whatever the figures; otherwise the difference decides. *)
ReceiptStatus(want, received) ==
  IF want \in HeldReceipt THEN want
  ELSE IF received = cash.expected THEN "received" ELSE "approved_with_difference"

(* Insert inside a savepoint, or overwrite a held receipt in place; a      *)
(* terminal receipt refuses.                                               *)
ConfirmCash(r, x, want) ==
  /\ req[r].at = "confirmShared"
  /\ ~ReceiptIn(TerminalReceipt)
  /\ receipt' = [status |-> ReceiptStatus(want, x), expected |-> cash.expected, received |-> x]
  /\ Finish(r)
  /\ UNCHANGED <<shift, total, cash, exception>>

-----------------------------------------------------------------------------
(* handleApproveShift.  Its pool checks are repeated under the lock, so    *)
(* the request starts there; the two gates are separate statements.        *)
ApproveLock(r) ==
  /\ \A q \in Req : ~HoldsForUpdate(q) /\ ~HoldsForShare(q)
  /\ shift = "closed"
  /\ Start(r, [at |-> "approveLocked"])
  /\ UNCHANGED <<shift, total, cash, exception, receipt>>

ApproveCount(r) ==
  /\ req[r].at = "approveLocked"
  /\ exception # "open"
  /\ Goto(r, "approveCounted")
  /\ UNCHANGED <<shift, total, cash, exception, receipt>>

ApproveGate(r) ==
  /\ req[r].at = "approveCounted"
  /\ ~Awaiting
  /\ Goto(r, "approveGated")
  /\ UNCHANGED <<shift, total, cash, exception, receipt>>

ApproveShift(r) ==
  /\ req[r].at = "approveGated"
  /\ shift' = "approved"
  /\ Finish(r)
  /\ UNCHANGED <<total, cash, exception, receipt>>

-----------------------------------------------------------------------------
RequestStep(r) ==
  \/ CorrectRead(r)
  \/ \E x \in Amount, held \in BOOLEAN : CorrectWrite(r, x, held)
  \/ SubmitRead(r) \/ SubmitShare(r)
  \/ \E x \in Amount, override, notes \in BOOLEAN : SubmitCash(r, x, override, notes)
  \/ ConfirmRead(r) \/ ConfirmShare(r)
  \/ \E x \in Amount, want \in {"received"} \cup HeldReceipt : ConfirmCash(r, x, want)
  \/ ApproveLock(r) \/ ApproveCount(r) \/ ApproveGate(r) \/ ApproveShift(r)
  \/ Rollback(r)

Next ==
  \/ \E x \in Amount : CloseShift(x)
  \/ ResolveException
  \/ \E r \in Req : RequestStep(r)

Spec == Init /\ [][Next]_vars

-----------------------------------------------------------------------------
(* Type invariant. *)
TypeOK ==
  /\ shift \in {"open", "closed", "approved"}
  /\ total \in Amount
  /\ cash \in Cash \cup {NoCash}
  /\ exception \in {"none", "open", "resolved"}
  /\ receipt \in Receipt \cup {NoReceipt}
  /\ req \in [Req -> Request]

(* What the locks and the re-checks under them establish, position by      *)
(* position: FOR UPDATE excludes every other lock, the row is closed while *)
(* it is locked, and each gate that approval passed still holds.           *)
GateDiscipline ==
  /\ \A q, r \in Req :
       HoldsForUpdate(q) /\ q # r => ~HoldsForUpdate(r) /\ ~HoldsForShare(r)
  /\ \A r \in Req : HoldsForUpdate(r) \/ HoldsForShare(r) => shift = "closed"
  /\ \A r \in Req : req[r].at \in {"approveCounted", "approveGated"} => exception # "open"
  /\ \A r \in Req : req[r].at = "approveGated" => ~Awaiting
  /\ \A r \in Req : req[r].at \in {"confirm", "confirmShared"} => cash # NoCash
  /\ cash # NoCash /\ Exceeds(cash) => exception # "none"

(* An approved shift whose cash is off by more than the threshold has had  *)
(* its exception resolved: the exception a submission raises cannot slip   *)
(* past an approval that runs at the same time (OPS-009).                  *)
ApprovedVarianceResolved ==
  shift = "approved" /\ cash # NoCash /\ Exceeds(cash) => exception = "resolved"

(* An approved shift with a cash submission carries a terminal receipt:    *)
(* neither a late submission nor a hold can slip past approval.            *)
ApprovedIsCollected == shift = "approved" => ~Awaiting

(* After approval neither the submission nor the receipt changes.          *)
CashFrozenByApproval ==
  [][shift = "approved" => cash' = cash /\ receipt' = receipt /\ shift' = shift]_vars

(* A receipt that was received, or approved with a difference, is never    *)
(* replaced, whatever confirmations overlap.  (One that was rejected or    *)
(* flagged is open to another confirmation: receipts.go:108.)              *)
ReceiptIsFinal ==
  [][ReceiptIn(TerminalReceipt) => receipt' = receipt]_vars

(* handleVerifyCorrectReading rewrites the close line "so expected         *)
(* collection follows the approved figure": the expected amount of the     *)
(* submission, which the receipt and the variance use, is the lines' sum.  *)
(* TLC refutes it: nothing recomputes a submission made before.            *)
ExpectedFollowsLines == cash # NoCash => cash.expected = total

=============================================================================
