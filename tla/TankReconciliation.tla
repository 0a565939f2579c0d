------------------------- MODULE TankReconciliation -------------------------
(***************************************************************************)
(* Book-versus-physical reconciliation of one tank: drafts per operating   *)
(* day, the adjustments recorded against a draft, and the seal, which      *)
(* writes the residual variance off to the ledger and becomes the anchor   *)
(* the next period's book is summed from.                                  *)
(*                                                                         *)
(* The seal reads its anchor on the pool, sums the ledger inside its       *)
(* transaction without a lock, locks the tank only when it has a variance  *)
(* to write off, and reads the watermark after that.  Other requests move  *)
(* between those statements.  What the other posters check is StockLedger; *)
(* here they add a row when the tank is not locked.                        *)
(***************************************************************************)
EXTENDS Integers, Sequences, SequencesExt

CONSTANTS
  Day,        \* operating days
  Volume,     \* volumes a closing dip can show
  Kinds,      \* kinds of movement other requests post
  Litres,     \* quantities other requests post
  Tolerance,  \* the product's loss tolerance, in percent
  Req,        \* concurrent requests
  MaxRows,    \* bound on the rows other requests post
  NoDip,      \* a day whose shifts recorded no closing dip of the tank
  NoDay       \* a movement that is no write-off

ASSUME ReconciliationAssumption ==
  /\ Volume \subseteq Nat
  /\ Kinds \subseteq {"opening", "delivery", "sales", "adjustment", "transfer"}
  /\ Litres \subseteq Nat \ {0}
  /\ Tolerance \in Nat
  /\ MaxRows \in Nat
  /\ NoDip \notin Volume
  /\ NoDay \notin Day

VARIABLES
  ledger,     \* the tank's committed movements, in seq order
  approved,   \* days all of whose shifts are approved
  dip,        \* the latest active closing dip of each day
  recs,       \* tank_reconciliations, one per day
  req         \* each request: where it is and what it has read

vars == <<ledger, approved, dip, recs, req>>

(* writeoff: the day whose seal posted the row, from source_ref_id and notes. *)
Row == [type : Kinds \cup {"adjustment"}, litres : Int, writeoff : Day \cup {NoDay}]
Entry(type, x, d) == [type |-> type, litres |-> x, writeoff |-> d]

NoRec == [status |-> "none"]
Rec   == {NoRec} \cup [status : {"draft", "exception", "sealed"}, physical : Volume, through : Nat]

Idle == [at |-> "idle"]

(* persist, adjust, compute: the status has been read; writeoff: the       *)
(* figures have been computed; mark: the write-off is posted; seal: the    *)
(* watermark has been read.                                                *)
Request == {Idle}
  \cup [at : {"persist"}, day : Day]
  \cup [at : {"adjust"}, day : Day, litres : Int]
  \cup [at : {"compute"}, day : Day, opening : Int, from : Nat]
  \cup [at : {"writeoff", "mark"}, day : Day, physical : Volume, litres : Int]
  \cup [at : {"seal"}, day : Day, physical : Volume, litres : Int, through : Nat]

Goto(r, next) == req' = [req EXCEPT ![r] = next]

(* The tank's advisory lock: taken by PostWriteOff, kept until the end of  *)
(* the transaction.  A seal with nothing to write off never takes it.      *)
Locks(r)   == req[r].at \in {"mark", "seal"} /\ req[r].litres # 0
TankLocked == \E r \in Req : Locks(r)

IsSealed(d)   == recs[d].status = "sealed"
HasOpening    == \E i \in DOMAIN ledger : ledger[i].type = "opening"
SumOf(rows)   == FoldSeq(LAMBDA row, sum : sum + row.litres, 0, rows)

(* LastSealedForTank, ordered by through_seq; when there is none, the      *)
(* genesis opening; when there is none, zero.                              *)
LastSealed ==
  {d \in Day : IsSealed(d) /\ \A e \in Day : IsSealed(e) => recs[e].through <= recs[d].through}

Anchors ==
  IF LastSealed # {} THEN {[opening |-> recs[d].physical, from |-> recs[d].through] : d \in LastSealed}
  ELSE IF HasOpening
    THEN {[opening |-> ledger[i].litres, from |-> i] : i \in {j \in DOMAIN ledger : ledger[j].type = "opening"}}
    ELSE {[opening |-> 0, from |-> 0]}

(* Compute adds up the openings, deliveries, sales and adjustments after   *)
(* the anchor; a transfer is in none of its four sums.                     *)
InBook(row) == row.type # "transfer"
Book(rows, opening, from) == opening + SumOf(SelectSeq(SubSeq(rows, from + 1, Len(rows)), InBook))

Abs(n) == IF n < 0 THEN -n ELSE n
WithinTolerance(book, physical) == 100 * Abs(book - physical) <= Abs(book) * Tolerance

(* The guards of computeReconciliation. *)
CanCompute(d) == d \in approved /\ dip[d] # NoDip

Computed(rows, d, a) ==
  [status |-> IF WithinTolerance(Book(rows, a.opening, a.from), dip[d]) THEN "draft" ELSE "exception",
   physical |-> dip[d], through |-> Len(rows)]

(* UpsertDraft never overwrites a sealed row. *)
UpsertDraft(d, rec) == ~IsSealed(d) /\ recs' = [recs EXCEPT ![d] = rec]

Init ==
  /\ ledger = <<>>
  /\ approved = {}
  /\ dip = [d \in Day |-> NoDip]
  /\ recs = [d \in Day |-> NoRec]
  /\ req = [r \in Req |-> Idle]

(* A refusal, an error or a lost client: the transaction rolls back. *)
Rollback(r) ==
  /\ req[r] # Idle
  /\ Goto(r, Idle)
  /\ UNCHANGED <<ledger, approved, dip, recs>>

-----------------------------------------------------------------------------
(* The last shift of the day is approved; its closing dip, if it took one, *)
(* is the day's.  A further shift may open while the day is open.          *)
ApproveDay(d, v) ==
  /\ d \notin approved
  /\ approved' = approved \cup {d}
  /\ dip' = IF v = NoDip THEN dip ELSE [dip EXCEPT ![d] = v]
  /\ UNCHANGED <<ledger, recs, req>>

OpenShift(d) ==
  /\ d \in approved
  /\ approved' = approved \ {d}
  /\ UNCHANGED <<ledger, dip, recs, req>>

(* Any other poster, serialised on the tank's lock.  It occupies a request *)
(* slot, so with one slot requests follow one another.                     *)
PostMovement(r, type, x) ==
  /\ req[r] = Idle
  /\ ~TankLocked
  /\ Len(ledger) < MaxRows
  /\ CASE type = "opening"    -> ~HasOpening /\ x > 0
       [] type = "delivery"   -> HasOpening /\ x > 0
       [] type = "sales"      -> HasOpening /\ x < 0
       [] type = "adjustment" -> TRUE
       [] type = "transfer"   -> x > 0 \/ SumOf(ledger) + x >= 0
  /\ ledger' = Append(ledger, Entry(type, x, NoDay))
  /\ UNCHANGED <<approved, dip, recs, req>>

-----------------------------------------------------------------------------
(* Persist a draft. Its computation and its upsert are one step: the next  *)
(* computation overwrites a draft's figures, and a seal computes its own.  *)
PersistRead(r, d) ==
  /\ req[r] = Idle
  /\ ~IsSealed(d)
  /\ Goto(r, [at |-> "persist", day |-> d])
  /\ UNCHANGED <<ledger, approved, dip, recs>>

PersistReconciliation(r) ==
  LET d == req[r].day IN
  /\ req[r].at = "persist"
  /\ CanCompute(d)
  /\ \E a \in Anchors : UpsertDraft(d, Computed(ledger, d, a))
  /\ Goto(r, Idle)
  /\ UNCHANGED <<ledger, approved, dip>>

(* Record an adjustment against an unsealed reconciliation and recompute   *)
(* it, all in one transaction that has locked the tank.                    *)
AdjustRead(r, d, x) ==
  /\ req[r] = Idle
  /\ recs[d] # NoRec
  /\ ~IsSealed(d)
  /\ Goto(r, [at |-> "adjust", day |-> d, litres |-> x])
  /\ UNCHANGED <<ledger, approved, dip, recs>>

AdjustReconciliation(r) ==
  LET d    == req[r].day
      rows == Append(ledger, Entry("adjustment", req[r].litres, NoDay))
  IN
  /\ req[r].at = "adjust"
  /\ ~TankLocked
  /\ Len(ledger) < MaxRows
  /\ CanCompute(d)
  /\ \E a \in Anchors : UpsertDraft(d, Computed(rows, d, a))
  /\ ledger' = rows
  /\ Goto(r, Idle)
  /\ UNCHANGED <<approved, dip>>

-----------------------------------------------------------------------------
(* Seal.  The status and the anchor are read on the pool.  A seal of the   *)
(* same day that slips in between the two is refused by Seal itself.       *)
SealRead(r, d) ==
  /\ req[r] = Idle
  /\ recs[d] # NoRec
  /\ ~IsSealed(d)
  /\ d \in approved
  /\ \E a \in Anchors :
       Goto(r, [at |-> "compute", day |-> d, opening |-> a.opening, from |-> a.from])
  /\ UNCHANGED <<ledger, approved, dip, recs>>

SealCompute(r) ==
  LET d    == req[r].day
      book == Book(ledger, req[r].opening, req[r].from)
  IN
  /\ req[r].at = "compute"
  /\ dip[d] # NoDip
  /\ WithinTolerance(book, dip[d])
  /\ Goto(r, [at |-> "writeoff", day |-> d, physical |-> dip[d], litres |-> dip[d] - book])
  /\ UNCHANGED <<ledger, approved, dip, recs>>

(* The write-off, physical less book, takes the tank's lock; with nothing  *)
(* to write off, no lock.                                                  *)
PostWriteOff(r) ==
  /\ req[r].at = "writeoff"
  /\ req[r].litres # 0 => ~TankLocked
  /\ Goto(r, [at |-> "mark", day |-> req[r].day, physical |-> req[r].physical,
              litres |-> req[r].litres])
  /\ UNCHANGED <<ledger, approved, dip, recs>>

(* Bug: the watermark stops short of the seal's own write-off. *)
MaxSeqForTankShort(r) ==
  /\ req[r].at = "mark"
  /\ Goto(r, [at |-> "seal", day |-> req[r].day, physical |-> req[r].physical,
              litres |-> req[r].litres, through |-> Len(ledger)])
  /\ UNCHANGED <<ledger, approved, dip, recs>>

(* The transaction sees its own write-off. *)
MaxSeqForTank(r) ==
  /\ req[r].at = "mark"
  /\ Goto(r, [at |-> "seal", day |-> req[r].day, physical |-> req[r].physical,
              litres |-> req[r].litres,
              through |-> IF req[r].litres = 0 THEN Len(ledger) ELSE Len(ledger) + 1])
  /\ UNCHANGED <<ledger, approved, dip, recs>>

(* Seal updates a row that is not sealed, and the transaction commits. *)
Seal(r) ==
  LET d == req[r].day IN
  /\ req[r].at = "seal"
  /\ ~IsSealed(d)
  /\ recs' = [recs EXCEPT ![d] = [status |-> "sealed", physical |-> req[r].physical,
                                  through |-> req[r].through]]
  /\ ledger' = IF req[r].litres = 0 THEN ledger
               ELSE Append(ledger, Entry("adjustment", req[r].litres, d))
  /\ Goto(r, Idle)
  /\ UNCHANGED <<approved, dip>>

-----------------------------------------------------------------------------
Days ==
  \E d \in Day : OpenShift(d) \/ \E v \in Volume \cup {NoDip} : ApproveDay(d, v)

Movements ==
  \E r \in Req, type \in Kinds, x \in Litres : PostMovement(r, type, x) \/ PostMovement(r, type, -x)

Begin ==
  \E r \in Req, d \in Day :
    \/ PersistRead(r, d) \/ SealRead(r, d)
    \/ \E x \in Litres : AdjustRead(r, d, x) \/ AdjustRead(r, d, -x)

Continue ==
  \E r \in Req :
    \/ PersistReconciliation(r) \/ AdjustReconciliation(r)
    \/ SealCompute(r) \/ PostWriteOff(r) \/ MaxSeqForTank(r) \/ Seal(r) \/ Rollback(r)

Next == Days \/ Movements \/ Begin \/ Continue

Spec == Init /\ [][Next]_vars

-----------------------------------------------------------------------------
(* Every variable has its type; in particular a sealed figure is a volume  *)
(* that a closing dip showed, never one derived from the book.             *)
TypeOK ==
  /\ ledger \in Seq(Row)
  /\ approved \subseteq Day
  /\ dip \in [Day -> Volume \cup {NoDip}]
  /\ recs \in [Day -> Rec]
  /\ req \in [Req -> Request]

(* However seals, drafts and adjustments of the same day interleave, a     *)
(* write-off on the ledger belongs to a sealed reconciliation, there is at *)
(* most one for each, and the watermark covers it: the next period never   *)
(* counts a write-off that already brought the book to the anchor.         *)
WriteOffsBelongToSeals ==
  /\ \A i \in DOMAIN ledger : ledger[i].writeoff # NoDay =>
       IsSealed(ledger[i].writeoff) /\ i <= recs[ledger[i].writeoff].through
  /\ \A i, j \in DOMAIN ledger :
       ledger[i].writeoff # NoDay /\ ledger[i].writeoff = ledger[j].writeoff => i = j

(* No watermark runs ahead of the ledger, whatever was rolled back after   *)
(* it was read: a later movement always falls in a later period.           *)
WatermarkIsReached ==
  \A d \in Day : recs[d] # NoRec => recs[d].through <= Len(ledger)

(* A sealed reconciliation never changes: a draft or a seal that passed    *)
(* its status check before the seal committed is refused.                  *)
SealedIsFinal == [][\A d \in Day : IsSealed(d) => recs'[d] = recs[d]]_vars

(* handleSealReconciliation: "Write off the residual variance so the       *)
(* ledger lands exactly on the sealed physical figure".  Up to a seal's    *)
(* watermark the movements of a tank whose ledger begins with its opening  *)
(* sum to the physical figure that was sealed.  TLC refutes it, for one    *)
(* request after another when the period has a transfer.                   *)
SealLandsOnPhysical ==
  ledger # <<>> /\ ledger[1].type = "opening" =>
    \A d \in Day : IsSealed(d) => SumOf(SubSeq(ledger, 1, recs[d].through)) = recs[d].physical

(* Migration 0027: "At seal a variance write-off adjustment reconciles the *)
(* ledger to the physical figure, so the ledger never drifts from the      *)
(* sealed anchor."  The same, whatever the ledger begins with.  TLC        *)
(* refutes it: an adjustment before the opening is in no period.           *)
LedgerNeverDrifts ==
  \A d \in Day : IsSealed(d) => SumOf(SubSeq(ledger, 1, recs[d].through)) = recs[d].physical
=============================================================================
