-------------------------- MODULE ShiftCashProofs --------------------------
(***************************************************************************)
(* Proofs about ShiftCash for any number of requests and any amounts.      *)
(***************************************************************************)
EXTENDS ShiftCash, TLAPS

Inv == TypeOK /\ GateDiscipline /\ ApprovedVarianceResolved /\ ApprovedIsCollected

LEMMA InitInv == Init => Inv
BY CashAssumption
   DEF Init, Inv, TypeOK, GateDiscipline, ApprovedVarianceResolved, ApprovedIsCollected,
       HoldsForUpdate, HoldsForShare, Awaiting, Idle, Request

LEMMA NextTypeOK == Inv /\ [Next]_vars => TypeOK'
<1> SUFFICES ASSUME Inv, [Next]_vars PROVE TypeOK'
  OBVIOUS
<1> USE CashAssumption DEF Inv, TypeOK, Idle, Start, Goto, Finish
<1>1. ASSUME NEW x \in Amount, CloseShift(x) PROVE TypeOK'
  BY <1>1 DEF CloseShift
<1>2. CASE ResolveException
  BY <1>2 DEF ResolveException
<1>3. ASSUME NEW r \in Req, RequestStep(r) PROVE TypeOK'
  <2>1. CASE CorrectRead(r)
    BY <2>1 DEF CorrectRead, Request
  <2>2. ASSUME NEW x \in Amount, NEW held \in BOOLEAN, CorrectWrite(r, x, held) PROVE TypeOK'
    BY <2>2 DEF CorrectWrite, Request
  <2>3. CASE SubmitRead(r)
    BY <2>3 DEF SubmitRead, Request
  <2>4. CASE SubmitShare(r)
    BY <2>4 DEF SubmitShare, Request
  <2>5. ASSUME NEW x \in Amount, NEW override \in BOOLEAN, NEW notes \in BOOLEAN,
               SubmitCash(r, x, override, notes)
        PROVE  TypeOK'
    BY <2>5 DEF SubmitCash, Request, Cash
  <2>6. CASE ConfirmRead(r) \/ ConfirmShare(r)
    BY <2>6 DEF ConfirmRead, ConfirmShare, Request
  <2>7. ASSUME NEW x \in Amount, NEW want \in {"received"} \cup HeldReceipt, ConfirmCash(r, x, want)
        PROVE  TypeOK'
    BY <2>7 DEF ConfirmCash, Request, Cash, Receipt, ReceiptStatus, HeldReceipt, TerminalReceipt,
                GateDiscipline
  <2>8. CASE ApproveLock(r) \/ ApproveCount(r) \/ ApproveGate(r)
    BY <2>8 DEF ApproveLock, ApproveCount, ApproveGate, Request
  <2>9. CASE ApproveShift(r) \/ Rollback(r)
    BY <2>9 DEF ApproveShift, Rollback, Request
  <2> QED
    BY <1>3, <2>1, <2>2, <2>3, <2>4, <2>5, <2>6, <2>7, <2>8, <2>9 DEF RequestStep
<1>4. CASE UNCHANGED vars
  BY <1>4 DEF vars
<1> QED
  BY <1>1, <1>2, <1>3, <1>4 DEF Next

LEMMA NextInv == Inv /\ [Next]_vars => Inv'
<1> SUFFICES ASSUME Inv, [Next]_vars PROVE Inv'
  OBVIOUS
<1>0. TypeOK /\ TypeOK'
  BY NextTypeOK DEF Inv
<1> DEFINE Goal == GateDiscipline' /\ ApprovedVarianceResolved' /\ ApprovedIsCollected'
<1> SUFFICES Goal
  BY <1>0 DEF Inv
<1> USE <1>0, CashAssumption
    DEF Inv, TypeOK, GateDiscipline, ApprovedVarianceResolved, ApprovedIsCollected, HoldsForUpdate,
        HoldsForShare, Awaiting, ReceiptIn, Idle, Start, Goto, Finish
<1>1. ASSUME NEW x \in Amount, CloseShift(x) PROVE Goal
  BY <1>1 DEF CloseShift
<1>2. CASE ResolveException
  BY <1>2 DEF ResolveException
<1>3. ASSUME NEW r \in Req, RequestStep(r) PROVE Goal
  <2>1. CASE CorrectRead(r)
    BY <2>1 DEF CorrectRead
  <2>2. ASSUME NEW x \in Amount, NEW held \in BOOLEAN, CorrectWrite(r, x, held) PROVE Goal
    BY <2>2 DEF CorrectWrite
  <2>3. CASE SubmitRead(r)
    BY <2>3 DEF SubmitRead
  <2>4. CASE SubmitShare(r)
    BY <2>4 DEF SubmitShare, Request
  <2>5. ASSUME NEW x \in Amount, NEW override \in BOOLEAN, NEW notes \in BOOLEAN,
               SubmitCash(r, x, override, notes)
        PROVE  Goal
    BY <2>5 DEF SubmitCash
  <2>6. CASE ConfirmRead(r)
    BY <2>6 DEF ConfirmRead
  <2>7. CASE ConfirmShare(r)
    BY <2>7 DEF ConfirmShare, Request
  <2>8. ASSUME NEW x \in Amount, NEW want \in {"received"} \cup HeldReceipt, ConfirmCash(r, x, want)
        PROVE  Goal
    BY <2>8 DEF ConfirmCash
  <2>9. CASE ApproveLock(r)
    BY <2>9 DEF ApproveLock
  <2>10. CASE ApproveCount(r)
    BY <2>10 DEF ApproveCount, Request
  <2>11. CASE ApproveGate(r)
    BY <2>11 DEF ApproveGate, Request
  <2>12. CASE ApproveShift(r)
    BY <2>12 DEF ApproveShift
  <2>13. CASE Rollback(r)
    BY <2>13 DEF Rollback
  <2> QED
    BY <1>3, <2>1, <2>2, <2>3, <2>4, <2>5, <2>6, <2>7, <2>8, <2>9, <2>10, <2>11, <2>12, <2>13
       DEF RequestStep
<1>4. CASE UNCHANGED vars
  BY <1>4 DEF vars
<1> QED
  BY <1>1, <1>2, <1>3, <1>4 DEF Next

LEMMA Invariance == Spec => []Inv
BY InitInv, NextInv, PTL DEF Spec

(* However submissions, confirmations, exception resolutions and approvals *)
(* overlap, approval never leaves a cash variance over the threshold with  *)
(* its exception unresolved (OPS-009).                                     *)
THEOREM VarianceNeverSlips == Spec => []ApprovedVarianceResolved
BY Invariance, PTL DEF Inv

(* An approved shift's cash submission carries a terminal receipt.         *)
THEOREM CollectionNeverSlips == Spec => []ApprovedIsCollected
BY Invariance, PTL DEF Inv

(* No request changes the submission, the receipt or the status of an      *)
(* approved shift.                                                         *)
THEOREM ApprovalFreezesCash == Spec => CashFrozenByApproval
<1>1. Inv /\ [Next]_vars =>
        [shift = "approved" => cash' = cash /\ receipt' = receipt /\ shift' = shift]_vars
  <2> SUFFICES ASSUME Inv, Next, shift = "approved"
               PROVE  cash' = cash /\ receipt' = receipt /\ shift' = shift
    BY DEF vars
  <2> USE DEF Inv, GateDiscipline, HoldsForUpdate, HoldsForShare
  <2>1. ASSUME NEW r \in Req, RequestStep(r)
        PROVE  cash' = cash /\ receipt' = receipt /\ shift' = shift
    BY <2>1 DEF RequestStep, CorrectRead, CorrectWrite, SubmitRead, SubmitShare, SubmitCash,
                ConfirmRead, ConfirmShare, ConfirmCash, ApproveLock, ApproveCount, ApproveGate,
                ApproveShift, Rollback
  <2> QED
    BY <2>1 DEF Next, CloseShift, ResolveException
<1> QED
  BY <1>1, Invariance, PTL DEF Spec, CashFrozenByApproval

(* A receipt that was received, or approved with a difference, keeps its   *)
(* outcome, whatever confirmations overlap.                                *)
THEOREM ReceiptsAreFinal == Spec => ReceiptIsFinal
<1>1. Inv /\ [Next]_vars => [ReceiptIn(TerminalReceipt) => receipt' = receipt]_vars
  <2> SUFFICES ASSUME Next, ReceiptIn(TerminalReceipt) PROVE receipt' = receipt
    BY DEF vars
  <2>1. ASSUME NEW r \in Req, RequestStep(r) PROVE receipt' = receipt
    BY <2>1 DEF RequestStep, CorrectRead, CorrectWrite, SubmitRead, SubmitShare, SubmitCash,
                ConfirmRead, ConfirmShare, ConfirmCash, ApproveLock, ApproveCount, ApproveGate,
                ApproveShift, Rollback
  <2> QED
    BY <2>1 DEF Next, CloseShift, ResolveException
<1> QED
  BY <1>1, Invariance, PTL DEF Spec, ReceiptIsFinal

=============================================================================
