----------------------- MODULE TankReconciliationProofs -----------------------
(***************************************************************************)
(* Proofs about TankReconciliation for any days, volumes, tolerance and    *)
(* requests.  The litres of a write-off come from a sum over the ledger,   *)
(* whose type needs induction; the proofs only ask whether they are zero.  *)
(***************************************************************************)
EXTENDS TankReconciliation, TLAPS

Shape ==
  /\ \E S : ledger \in Seq(S)
  /\ \A i \in DOMAIN ledger : ledger[i].writeoff \in Day \cup {NoDay}
  /\ recs = [d \in Day |-> recs[d]]
  /\ req = [r \in Req |-> req[r]]
  /\ \A d \in Day : recs[d] # NoRec => recs[d].through \in Nat
  /\ \A r \in Req : req[r] # Idle => req[r].day \in Day

(* Two seals with something to write off exclude each other, ... *)
OneLock == \A p, q \in Req : Locks(p) /\ Locks(q) => p = q

(* ... so nothing is posted between a watermark that counts a write-off    *)
(* and the commit of that write-off.                                       *)
WatermarkHolds ==
  \A r \in Req : req[r].at = "seal" =>
    /\ req[r].through \in Nat
    /\ req[r].litres = 0 => req[r].through <= Len(ledger)
    /\ req[r].litres # 0 => req[r].through = Len(ledger) + 1

Inv == Shape /\ OneLock /\ WatermarkHolds /\ WatermarkIsReached /\ WriteOffsBelongToSeals

LEMMA InitInv == Init => Inv
<1> SUFFICES ASSUME Init PROVE Inv
  OBVIOUS
<1> USE DEF Init, Idle, NoRec
<1>1. ledger \in Seq({})
  OBVIOUS
<1>2. Shape
  BY <1>1 DEF Shape
<1>3. OneLock /\ WatermarkHolds
  BY DEF OneLock, Locks, WatermarkHolds
<1>4. WatermarkIsReached /\ WriteOffsBelongToSeals
  BY DEF WatermarkIsReached, WriteOffsBelongToSeals
<1> QED
  BY <1>2, <1>3, <1>4 DEF Inv

(* What appending a row does to the ledger. *)
LEMMA Appending ==
  ASSUME Shape, NEW e
  PROVE  /\ \E S : Append(ledger, e) \in Seq(S)
         /\ Len(ledger) \in Nat /\ Len(Append(ledger, e)) = Len(ledger) + 1
         /\ DOMAIN ledger = 1 .. Len(ledger)
         /\ DOMAIN Append(ledger, e) = 1 .. (Len(ledger) + 1)
         /\ \A i \in 1 .. Len(ledger) : Append(ledger, e)[i] = ledger[i]
         /\ Append(ledger, e)[Len(ledger) + 1] = e
<1>1. PICK S : ledger \in Seq(S)
  BY DEF Shape
<1>2. ledger \in Seq(S \cup {e}) /\ e \in S \cup {e}
  BY <1>1
<1>3. Append(ledger, e) \in Seq(S \cup {e})
  BY <1>2
<1> QED
  BY <1>2, <1>3

(* A step that only moves request r, and not to a seal, keeps the          *)
(* invariant when r takes no lock another request has.                     *)
LEMMA Moving ==
  ASSUME Inv, NEW r \in Req, NEW next,
         Goto(r, next), UNCHANGED <<ledger, recs>>,
         next # Idle => next.day \in Day,
         next.at # "seal",
         next.at = "mark" /\ next.litres # 0 => ~TankLocked
  PROVE  Inv'
<1> USE DEF Inv
<1>1. /\ req' = [q \in Req |-> req'[q]]
      /\ req'[r] = next
      /\ \A q \in Req : q # r => req'[q] = req[q]
  BY DEF Goto, Shape
<1>2. Shape'
  BY <1>1 DEF Shape
<1>3. OneLock'
  BY <1>1 DEF OneLock, Locks, TankLocked
<1>4. WatermarkHolds'
  BY <1>1 DEF WatermarkHolds
<1>5. WatermarkIsReached' /\ WriteOffsBelongToSeals'
  BY DEF WatermarkIsReached, WriteOffsBelongToSeals, IsSealed
<1> QED
  BY <1>2, <1>3, <1>4, <1>5

(* A movement posted while the tank is not locked keeps the invariant. *)
LEMMA Posting ==
  ASSUME Inv, ~TankLocked, NEW e, e.writeoff = NoDay,
         ledger' = Append(ledger, e),
         recs' = [d \in Day |-> recs'[d]],
         \A d \in Day : IsSealed(d) => recs'[d] = recs[d],
         \A d \in Day : recs'[d] # NoRec /\ recs'[d] # recs[d] =>
           recs'[d].through = Len(ledger) + 1,
         req' = [q \in Req |-> req'[q]],
         \A q \in Req : req'[q] = req[q] \/ req'[q] = Idle
  PROVE  Inv'
<1> USE DEF Inv
<1>1. /\ \E S : ledger' \in Seq(S)
      /\ Len(ledger) \in Nat /\ Len(ledger') = Len(ledger) + 1
      /\ DOMAIN ledger = 1 .. Len(ledger) /\ DOMAIN ledger' = 1 .. (Len(ledger) + 1)
      /\ \A i \in 1 .. Len(ledger) : ledger'[i] = ledger[i]
      /\ ledger'[Len(ledger) + 1] = e
  BY Appending
<1>2. \A q \in Req : req'[q] # Idle => req'[q] = req[q]
  OBVIOUS
<1>3. Idle.at = "idle"
  BY DEF Idle
<1>4. Shape'
  <2>1. \A i \in DOMAIN ledger' : ledger'[i].writeoff \in Day \cup {NoDay}
    <3>1. \A i \in DOMAIN ledger' : i \in DOMAIN ledger \/ i = Len(ledger) + 1
      BY <1>1
    <3> QED
      BY <1>1, <3>1 DEF Shape
  <2>2. \A d \in Day : recs'[d] # NoRec => recs'[d].through \in Nat
    BY <1>1 DEF Shape
  <2>3. \A q \in Req : req'[q] # Idle => req'[q].day \in Day
    BY <1>2 DEF Shape
  <2> QED
    BY <1>1, <2>1, <2>2, <2>3 DEF Shape
<1>5. OneLock'
  BY <1>2, <1>3 DEF OneLock, Locks
<1>6. WatermarkHolds'
  BY <1>1, <1>2, <1>3 DEF WatermarkHolds, TankLocked, Locks
<1>7. WatermarkIsReached'
  BY <1>1 DEF WatermarkIsReached, Shape
<1>8. WriteOffsBelongToSeals'
  <2>1. ASSUME NEW i \in DOMAIN ledger', ledger'[i].writeoff # NoDay
        PROVE  i \in DOMAIN ledger /\ ledger'[i] = ledger[i]
    BY <1>1, <2>1
  <2>2. \A i \in DOMAIN ledger : ledger[i].writeoff # NoDay =>
          recs[ledger[i].writeoff].status = "sealed" /\ i <= recs[ledger[i].writeoff].through
    BY DEF WriteOffsBelongToSeals, IsSealed
  <2>3. \A d \in Day : recs[d].status = "sealed" => recs'[d] = recs[d]
    BY DEF IsSealed
  <2>4. \A i \in DOMAIN ledger : ledger[i].writeoff # NoDay => ledger[i].writeoff \in Day
    BY DEF Shape
  <2> QED
    BY <2>1, <2>2, <2>3, <2>4 DEF WriteOffsBelongToSeals, IsSealed
<1> QED
  BY <1>4, <1>5, <1>6, <1>7, <1>8

(* Every step of a request keeps the invariant. *)
LEMMA NextInv == Inv /\ [Next]_vars => Inv'
<1> SUFFICES ASSUME Inv, [Next]_vars PROVE Inv'
  OBVIOUS
<1> USE DEF Inv
<1>0. /\ Idle.at = "idle"
      /\ \A r \in Req : req[r] # Idle => req[r].day \in Day
      /\ Shape
  BY DEF Idle, Shape
<1>1. CASE UNCHANGED <<ledger, recs, req>>
  BY <1>1 DEF Shape, OneLock, Locks, WatermarkHolds, WatermarkIsReached, WriteOffsBelongToSeals,
              IsSealed
<1>2. CASE Days
  BY <1>1, <1>2 DEF Days, OpenShift, ApproveDay
<1>3. ASSUME NEW r \in Req, NEW type, NEW x, PostMovement(r, type, x) PROVE Inv'
  <2> DEFINE e == Entry(type, x, NoDay)
  <2>1. e.writeoff = NoDay
    BY DEF Entry
  <2>2. ledger' = Append(ledger, e) /\ UNCHANGED <<recs, req>> /\ ~TankLocked
    BY <1>3 DEF PostMovement
  <2> HIDE DEF e
  <2> QED
    BY <1>0, <2>1, <2>2, Posting DEF Shape
<1>4. CASE Begin
  <2>1. ASSUME NEW r \in Req, NEW d \in Day, PersistRead(r, d) PROVE Inv'
    BY <2>1, Moving DEF PersistRead
  <2>2. ASSUME NEW r \in Req, NEW d \in Day, NEW x, AdjustRead(r, d, x) PROVE Inv'
    BY <2>2, Moving DEF AdjustRead
  <2>3. ASSUME NEW r \in Req, NEW d \in Day, SealRead(r, d) PROVE Inv'
    <3>1. PICK a : Goto(r, [at |-> "compute", day |-> d, opening |-> a.opening, from |-> a.from])
      BY <2>3 DEF SealRead
    <3> QED
      BY <2>3, <3>1, Moving DEF SealRead
  <2> QED
    BY <1>4, <2>1, <2>2, <2>3 DEF Begin
<1>5. ASSUME NEW r \in Req, Rollback(r) \/ SealCompute(r) \/ PostWriteOff(r) PROVE Inv'
  <2>1. CASE Rollback(r)
    BY <1>0, <2>1, Moving DEF Rollback
  <2>2. CASE SealCompute(r)
    <3>1. req[r].day \in Day
      BY <1>0, <2>2 DEF SealCompute
    <3>2. PICK x : Goto(r, [at |-> "writeoff", day |-> req[r].day, physical |-> dip[req[r].day],
                            litres |-> x])
      BY <2>2 DEF SealCompute
    <3> QED
      BY <2>2, <3>1, <3>2, Moving DEF SealCompute
  <2>3. CASE PostWriteOff(r)
    <3> DEFINE next == [at |-> "mark", day |-> req[r].day, physical |-> req[r].physical,
                        litres |-> req[r].litres]
    <3>1. req[r].day \in Day
      BY <1>0, <2>3 DEF PostWriteOff
    <3>2. next.day \in Day /\ next.at = "mark" /\ next.litres = req[r].litres
      BY <3>1
    <3>3. Goto(r, next) /\ UNCHANGED <<ledger, recs>> /\ (req[r].litres # 0 => ~TankLocked)
      BY <2>3 DEF PostWriteOff
    <3> HIDE DEF next
    <3> QED
      BY <3>2, <3>3, Moving
  <2> QED
    BY <1>5, <2>1, <2>2, <2>3
<1>6. ASSUME NEW r \in Req, MaxSeqForTank(r) PROVE Inv'
  <2> DEFINE t == IF req[r].litres = 0 THEN Len(ledger) ELSE Len(ledger) + 1
             next == [at |-> "seal", day |-> req[r].day, physical |-> req[r].physical,
                      litres |-> req[r].litres, through |-> t]
  <2>1. Len(ledger) \in Nat
    BY <1>0, Appending
  <2>2. /\ next.at = "seal" /\ next.day \in Day /\ next.litres = req[r].litres
        /\ next.through \in Nat
        /\ req[r].litres = 0 => next.through = Len(ledger)
        /\ req[r].litres # 0 => next.through = Len(ledger) + 1
    BY <1>0, <1>6, <2>1 DEF MaxSeqForTank
  <2>3. Goto(r, next) /\ UNCHANGED <<ledger, recs>> /\ req[r].at = "mark"
    BY <1>6 DEF MaxSeqForTank
  <2> HIDE DEF next
  <2>4. /\ req' = [q \in Req |-> req'[q]] /\ req'[r] = next
        /\ \A q \in Req : q # r => req'[q] = req[q]
    BY <2>3 DEF Goto, Shape
  <2>5. Shape'
    BY <2>2, <2>3, <2>4 DEF Shape
  <2>6. OneLock'
    BY <2>2, <2>3, <2>4 DEF OneLock, Locks
  <2>7. WatermarkHolds'
    BY <2>1, <2>2, <2>3, <2>4 DEF WatermarkHolds
  <2>8. WatermarkIsReached' /\ WriteOffsBelongToSeals'
    BY <2>3 DEF WatermarkIsReached, WriteOffsBelongToSeals, IsSealed
  <2> QED
    BY <2>5, <2>6, <2>7, <2>8

<1>7. ASSUME NEW r \in Req, PersistReconciliation(r) PROVE Inv'
  <2>1. PICK a : LET d == req[r].day IN
          ~IsSealed(d) /\ recs' = [recs EXCEPT ![d] = Computed(ledger, d, a)]
    BY <1>7 DEF PersistReconciliation, UpsertDraft
  <2> DEFINE d == req[r].day
             rec == Computed(ledger, d, a)
  <2>2. d \in Day /\ Len(ledger) \in Nat /\ DOMAIN ledger = 1 .. Len(ledger)
    BY <1>0, <1>7, Appending DEF PersistReconciliation
  <2>3. rec.through = Len(ledger)
    BY DEF Computed
  <2>4. Goto(r, Idle) /\ UNCHANGED ledger
    BY <1>7 DEF PersistReconciliation
  <2>5. /\ req' = [q \in Req |-> req'[q]]
        /\ \A q \in Req : req'[q] = req[q] \/ req'[q] = Idle
    BY <2>4 DEF Goto, Shape
  <2>6. /\ recs' = [e \in Day |-> recs'[e]] /\ recs'[d] = rec /\ recs[d].status # "sealed"
        /\ \A e \in Day : e # d => recs'[e] = recs[e]
    BY <2>1, <2>2 DEF Shape, IsSealed
  <2> HIDE DEF d, rec
  <2>7. Shape'
    BY <2>2, <2>3, <2>4, <2>5, <2>6 DEF Shape
  <2>8. OneLock' /\ WatermarkHolds'
    BY <1>0, <2>4, <2>5 DEF OneLock, Locks, WatermarkHolds
  <2>9. WatermarkIsReached'
    BY <2>2, <2>3, <2>4, <2>6 DEF WatermarkIsReached
  <2>10. WriteOffsBelongToSeals'
    BY <1>0, <2>4, <2>6 DEF WriteOffsBelongToSeals, IsSealed, Shape
  <2> QED
    BY <2>7, <2>8, <2>9, <2>10
<1>8. ASSUME NEW r \in Req, AdjustReconciliation(r) PROVE Inv'
  <2> DEFINE d == req[r].day
             e == Entry("adjustment", req[r].litres, NoDay)
  <2>1. PICK a : ~IsSealed(d) /\ recs' = [recs EXCEPT ![d] = Computed(Append(ledger, e), d, a)]
    BY <1>8 DEF AdjustReconciliation, UpsertDraft
  <2> DEFINE rec == Computed(Append(ledger, e), d, a)
  <2>2. d \in Day /\ e.writeoff = NoDay
    BY <1>0, <1>8 DEF AdjustReconciliation, Entry
  <2>3. rec.through = Len(ledger) + 1
    BY <1>0, Appending DEF Computed
  <2>4. Goto(r, Idle) /\ ledger' = Append(ledger, e) /\ ~TankLocked
    BY <1>8 DEF AdjustReconciliation
  <2>5. /\ req' = [q \in Req |-> req'[q]]
        /\ \A q \in Req : req'[q] = req[q] \/ req'[q] = Idle
    BY <2>4 DEF Goto, Shape
  <2>6. /\ recs' = [f \in Day |-> recs'[f]] /\ recs'[d] = rec
        /\ \A f \in Day : f # d => recs'[f] = recs[f]
    BY <2>1, <2>2 DEF Shape
  <2> HIDE DEF d, e, rec
  <2>7. /\ \A f \in Day : IsSealed(f) => recs'[f] = recs[f]
        /\ \A f \in Day : recs'[f] # NoRec /\ recs'[f] # recs[f] =>
             recs'[f].through = Len(ledger) + 1
    BY <2>1, <2>3, <2>6
  <2> QED
    BY <2>2, <2>4, <2>5, <2>6, <2>7, Posting
<1>9. ASSUME NEW r \in Req, Seal(r) PROVE Inv'
  <2> DEFINE d == req[r].day
             rec == [status |-> "sealed", physical |-> req[r].physical, through |-> req[r].through]
             e == Entry("adjustment", req[r].litres, d)
  <2>1. d \in Day /\ e.writeoff = d /\ recs[d].status # "sealed" /\ req[r].at = "seal"
    BY <1>0, <1>9 DEF Seal, Entry, IsSealed
  <2>2. rec.through = req[r].through /\ rec.status = "sealed"
    OBVIOUS
  <2>3. Goto(r, Idle) /\ recs' = [recs EXCEPT ![d] = rec]
    BY <1>9 DEF Seal
  <2>4. ledger' = IF req[r].litres = 0 THEN ledger ELSE Append(ledger, e)
    BY <1>9 DEF Seal
  <2> HIDE DEF rec, e
  <2>5. /\ req' = [q \in Req |-> req'[q]] /\ req'[r] = Idle
        /\ \A q \in Req : q # r => req'[q] = req[q]
    BY <2>3 DEF Goto, Shape
  <2>6. /\ recs' = [f \in Day |-> recs'[f]] /\ recs'[d] = rec
        /\ \A f \in Day : f # d => recs'[f] = recs[f]
    BY <2>1, <2>3 DEF Shape
  <2>7. /\ Len(ledger) \in Nat /\ DOMAIN ledger = 1 .. Len(ledger)
        /\ req[r].through \in Nat
        /\ req[r].litres = 0 => req[r].through <= Len(ledger)
        /\ req[r].litres # 0 => req[r].through = Len(ledger) + 1
    BY <1>0, <2>1, Appending DEF WatermarkHolds
  <2>8. OneLock'
    BY <1>0, <2>5 DEF OneLock, Locks
  <2>9. \A i \in DOMAIN ledger : ledger[i].writeoff # NoDay =>
          /\ ledger[i].writeoff \in Day /\ ledger[i].writeoff # d
          /\ recs[ledger[i].writeoff].status = "sealed"
          /\ i <= recs[ledger[i].writeoff].through
    BY <2>1 DEF WriteOffsBelongToSeals, IsSealed, Shape
  <2>10. CASE req[r].litres = 0
    <3>1. UNCHANGED ledger
      BY <2>4, <2>10
    <3>2. Shape'
      BY <1>0, <2>2, <2>5, <2>6, <2>7, <3>1 DEF Shape
    <3>3. WatermarkHolds'
      BY <1>0, <2>5, <3>1 DEF WatermarkHolds
    <3>4. WatermarkIsReached'
      BY <2>2, <2>6, <2>7, <2>10, <3>1 DEF WatermarkIsReached
    <3>5. WriteOffsBelongToSeals'
      BY <2>6, <2>9, <3>1 DEF WriteOffsBelongToSeals, IsSealed
    <3> QED
      BY <2>8, <3>2, <3>3, <3>4, <3>5
  <2>11. CASE req[r].litres # 0
    <3>1. /\ \E S : ledger' \in Seq(S)
          /\ Len(ledger') = Len(ledger) + 1 /\ DOMAIN ledger' = 1 .. (Len(ledger) + 1)
          /\ \A i \in 1 .. Len(ledger) : ledger'[i] = ledger[i]
          /\ ledger'[Len(ledger) + 1] = e
      BY <1>0, <2>4, <2>11, Appending
    <3>2. Shape'
      <4>1. \A i \in DOMAIN ledger' : i \in DOMAIN ledger \/ i = Len(ledger) + 1
        BY <2>7, <3>1
      <4>2. \A i \in DOMAIN ledger' : ledger'[i].writeoff \in Day \cup {NoDay}
        BY <1>0, <2>1, <2>7, <3>1, <4>1 DEF Shape
      <4>3. \A f \in Day : recs'[f] # NoRec => recs'[f].through \in Nat
        BY <1>0, <2>2, <2>6, <2>7 DEF Shape
      <4>4. \A q \in Req : req'[q] # Idle => req'[q].day \in Day
        BY <1>0, <2>5
      <4> QED
        BY <2>5, <2>6, <3>1, <4>2, <4>3, <4>4 DEF Shape
    <3>3. WatermarkHolds'
      <4>1. ASSUME NEW q \in Req, req'[q].at = "seal" PROVE q # r /\ req[q].litres = 0
        BY <1>0, <2>1, <2>5, <2>11, <4>1 DEF OneLock, Locks
      <4> QED
        BY <2>5, <2>7, <3>1, <4>1 DEF WatermarkHolds
    <3>4. WatermarkIsReached'
      BY <2>2, <2>6, <2>7, <2>11, <3>1 DEF WatermarkIsReached, Shape
    <3>5. WriteOffsBelongToSeals'
      <4>1. \A i \in 1 .. (Len(ledger) + 1) :
              (i \in DOMAIN ledger /\ ledger'[i] = ledger[i]) \/ (i = Len(ledger) + 1 /\ ledger'[i] = e)
        BY <2>7, <3>1
      <4>2. ASSUME NEW i \in DOMAIN ledger', ledger'[i].writeoff # NoDay
            PROVE  /\ recs'[ledger'[i].writeoff].status = "sealed"
                   /\ i <= recs'[ledger'[i].writeoff].through
        <5>1. CASE i \in DOMAIN ledger /\ ledger'[i] = ledger[i]
          <6>1. ledger[i].writeoff \in Day /\ ledger[i].writeoff # d
            BY <2>9, <4>2, <5>1
          <6>2. recs'[ledger[i].writeoff] = recs[ledger[i].writeoff]
            BY <2>6, <6>1
          <6> QED
            BY <2>9, <4>2, <5>1, <6>2
        <5>2. CASE i = Len(ledger) + 1 /\ ledger'[i] = e
          BY <2>1, <2>2, <2>6, <2>7, <2>11, <5>2
        <5> QED
          BY <3>1, <4>1, <5>1, <5>2
      <4>3. ASSUME NEW i \in DOMAIN ledger', NEW j \in DOMAIN ledger',
                   ledger'[i].writeoff # NoDay, ledger'[i].writeoff = ledger'[j].writeoff
            PROVE  i = j
        BY <2>1, <2>9, <3>1, <4>1, <4>3 DEF WriteOffsBelongToSeals
      <4> QED
        BY <4>2, <4>3 DEF WriteOffsBelongToSeals, IsSealed
    <3> QED
      BY <2>8, <3>2, <3>3, <3>4, <3>5
  <2> QED
    BY <2>10, <2>11
<1>10. CASE UNCHANGED vars
  BY <1>1, <1>10 DEF vars
<1> QED
  BY <1>2, <1>3, <1>4, <1>5, <1>6, <1>7, <1>8, <1>9, <1>10 DEF Next, Movements, Continue

(* handleSealReconciliation and handlePersistReconciliation: once sealed,  *)
(* a reconciliation keeps its figures and its watermark.                   *)
LEMMA SealedStays == Inv /\ [Next]_vars => \A d \in Day : IsSealed(d) => recs'[d] = recs[d]
<1> SUFFICES ASSUME Inv, [Next]_vars, NEW d \in Day, IsSealed(d) PROVE recs'[d] = recs[d]
  OBVIOUS
<1>1. CASE UNCHANGED recs
  BY <1>1
<1>2. CASE Days \/ Movements \/ Begin
  BY <1>1, <1>2 DEF Days, OpenShift, ApproveDay, Movements, PostMovement, Begin, PersistRead,
                    SealRead, AdjustRead
<1>3. ASSUME NEW r \in Req, PersistReconciliation(r) \/ AdjustReconciliation(r) \/ Seal(r)
      PROVE  recs'[d] = recs[d]
  <2>1. PICK rec : ~IsSealed(req[r].day) /\ recs' = [recs EXCEPT ![req[r].day] = rec]
    BY <1>3 DEF PersistReconciliation, AdjustReconciliation, Seal, UpsertDraft
  <2>2. recs = [e \in Day |-> recs[e]]
    BY DEF Inv, Shape
  <2> QED
    BY <2>1, <2>2 DEF IsSealed
<1>4. ASSUME NEW r \in Req, SealCompute(r) \/ PostWriteOff(r) \/ MaxSeqForTank(r) \/ Rollback(r)
      PROVE  recs'[d] = recs[d]
  BY <1>4 DEF SealCompute, PostWriteOff, MaxSeqForTank, Rollback
<1>5. CASE UNCHANGED vars
  BY <1>5 DEF vars
<1> QED
  BY <1>2, <1>3, <1>4, <1>5 DEF Next, Continue

-----------------------------------------------------------------------------
(* PostWriteOff, MaxSeqForTank and Seal: every write-off on the ledger is  *)
(* covered by the watermark of the one sealed reconciliation it belongs    *)
(* to, for any number of concurrent seals.                                 *)
THEOREM WriteOffsCounted == Spec => []WriteOffsBelongToSeals
<1>1. Inv => WriteOffsBelongToSeals
  BY DEF Inv
<1> QED
  BY InitInv, NextInv, <1>1, PTL DEF Spec

(* MaxSeqForTank reads its own uncommitted write-off, and still no         *)
(* committed watermark is ahead of the committed ledger.                   *)
THEOREM WatermarksReached == Spec => []WatermarkIsReached
<1>1. Inv => WatermarkIsReached
  BY DEF Inv
<1> QED
  BY InitInv, NextInv, <1>1, PTL DEF Spec

(* UpsertDraft and Seal: a sealed reconciliation never changes. *)
THEOREM SealsAreFinal == Spec => SealedIsFinal
<1>1. Inv /\ [Next]_vars => [\A d \in Day : IsSealed(d) => recs'[d] = recs[d]]_vars
  BY SealedStays
<1> QED
  BY InitInv, NextInv, <1>1, PTL DEF Spec, SealedIsFinal
===============================================================================
