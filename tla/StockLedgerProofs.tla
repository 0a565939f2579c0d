------------------------- MODULE StockLedgerProofs -------------------------
(***************************************************************************)
(* Proofs about StockLedger for any tanks, shifts, quantities and          *)
(* requests.  The balance of a row is a sum over the ledger, whose type    *)
(* needs induction: the proofs therefore take rows from some set S and     *)
(* look only at their type and ref.                                        *)
(***************************************************************************)
EXTENDS StockLedger, SequenceTheorems, TLAPS

Shape(S) ==
  /\ ledger \in [Tank -> Seq(S)]
  /\ pending \in [Req -> [Tank -> Seq(S)]]
  /\ adj \in [Adj -> Adjustments]
  /\ osr \in [Osr -> OpeningRequests]
  /\ req \in [Req -> Request]

Typed == \E S : Shape(S)

(* A request inserts at most one row per tank, for what it works on. *)
OwnRows ==
  \A r \in Req :
    /\ req[r] = Idle => pending[r] = NoRows
    /\ \A t \in Tank : Holds(r, t) =>
         Len(pending[r][t]) = 1 /\ pending[r][t][1].ref = req[r].ref

(* The row a request works on is its own until it commits. *)
OwnsRef(r) ==
  req[r] # Idle =>
    /\ req[r].type = "sales" \/ req[r].at = "check" => req[r].ref \in Shift
    /\ req[r].ref \in Adj => adj[req[r].ref].status = "approved"
    /\ req[r].ref \in Osr => osr[req[r].ref].status = "draft"
    /\ req[r].ref \in Adj \cup Osr /\ req[r].todo = {} => \E t \in Tank : Holds(r, t)

RefsApart ==
  \A r, q \in Req :
    q # r /\ req[q] # Idle /\ req[r] # Idle /\ req[q].ref = req[r].ref => req[r].ref = NoRef

OwnRef == RefsApart /\ \A r \in Req : OwnsRef(r)

Inv ==
  /\ Typed /\ OwnRows /\ OwnRef
  /\ StillAdmitted /\ OneOpening /\ FlowsFollowOpening /\ LifecycleMatchesLedger

LEMMA InitInv == Init => Inv
<1> SUFFICES ASSUME Init PROVE Inv
  OBVIOUS
<1> USE LedgerAssumption DEF Init, Idle, NoRows
<1>1. Shape({})
  BY DEF Shape, Adjustments, OpeningRequests, Request
<1>2. OwnRows /\ OwnRef /\ StillAdmitted /\ OneOpening /\ FlowsFollowOpening
  BY DEF OwnRows, OwnRef, RefsApart, OwnsRef, Holds, StillAdmitted, OneOpening, FlowsFollowOpening
<1>3. LifecycleMatchesLedger
  BY DEF LifecycleMatchesLedger, OnLedger
<1> QED
  BY <1>1, <1>2, <1>3 DEF Inv, Typed

-----------------------------------------------------------------------------
(* The lifecycle rows and the requests keep their type when some of their  *)
(* fields change.                                                          *)
LEMMA AdjustmentMoves ==
  ASSUME NEW x \in Adjustments, x.status # "none",
         NEW s \in {"requested", "approved", "posted", "rejected"}
  PROVE  /\ x.tank \in Tank /\ x.litres \in Int
         /\ [x EXCEPT !.status = s] \in Adjustments
         /\ [x EXCEPT !.status = s].status = s
BY DEF Adjustments

LEMMA OpeningRequestMoves ==
  ASSUME NEW x \in OpeningRequests, x.status # "none",
         NEW s \in {"draft", "approved", "rejected"}
  PROVE  /\ x.tank \in Tank /\ x.litres \in Litres
         /\ [x EXCEPT !.status = s] \in OpeningRequests
         /\ [x EXCEPT !.status = s].status = s
BY DEF OpeningRequests

(* How the steps of a request that is under way change it. *)
LEMMA RequestSteps ==
  ASSUME Typed, NEW r \in Req, NEW t \in Tank, CheckOpening(r, t) \/ PostMovement(r, t)
  PROVE  /\ req' \in [Req -> Request]
         /\ \A q \in Req : q # r => req'[q] = req[q]
         /\ req[r] # Idle /\ req'[r] # Idle
         /\ req'[r].ref = req[r].ref /\ req'[r].type = req[r].type
         /\ req'[r].at = "check" => req[r].at = "check" \/ req[r].type = "sales"
         /\ CheckOpening(r, t) => req[r].at = "check"
<1>0. PICK S : Shape(S)
  BY DEF Typed
<1> DEFINE Posting == [at : {"check", "post"}, type : {"opening", "delivery", "sales", "adjustment"},
                       ref : Ref, litres : Int, todo : SUBSET Tank]
<1>1. req \in [Req -> Request] /\ req[r].at \in {"check", "post"}
  BY <1>0 DEF Shape, CheckOpening, PostMovement
<1>2. req[r] \in Posting /\ req[r] # Idle
  BY <1>1 DEF Request, Idle
<1>3. PICK at \in {"check", "post"}, T \in SUBSET req[r].todo :
        /\ Continue(r, at, T)
        /\ at = "check" => req[r].at = "check" \/ req[r].type = "sales"
  BY DEF PostMovement, CheckOpening
<1> DEFINE q == [at |-> at, type |-> req[r].type, ref |-> req[r].ref, litres |-> req[r].litres,
                 todo |-> T]
<1>4. q \in Posting /\ q.at = at
  BY <1>2
<1>5. q \in Request /\ q # Idle /\ q.ref = req[r].ref /\ q.type = req[r].type
  BY <1>4 DEF Request, Idle
<1>6. req' = [req EXCEPT ![r] = q]
  BY <1>3 DEF Continue
<1> HIDE DEF q
<1>7. req' \in [Req -> Request] /\ req'[r] = q /\ \A p \in Req : p # r => req'[p] = req[p]
  BY <1>1, <1>5, <1>6
<1> QED
  BY <1>2, <1>3, <1>4, <1>5, <1>7 DEF CheckOpening

LEMMA NextTyped == Inv /\ [Next]_vars => Typed'
<1> SUFFICES ASSUME Inv, [Next]_vars PROVE Typed'
  OBVIOUS
<1> USE LedgerAssumption
<1>0. PICK S : Shape(S)
  BY DEF Inv, Typed
<1>8. \A x \in Litres : x \in Int /\ -x \in Int
  OBVIOUS
<1> USE DEF Shape, Typed
<1>1. CASE UNCHANGED vars
  BY <1>0, <1>1 DEF vars
<1>2. CASE Lifecycle
  <2>1. ASSUME NEW a \in Adj, NEW t \in Tank, NEW x \in Litres,
               RequestAdjustment(a, t, x) \/ RequestAdjustment(a, t, -x)
        PROVE  Shape(S)'
    BY <1>0, <2>1 DEF RequestAdjustment, Adjustments
  <2>2. ASSUME NEW a \in Adj, ApproveAdjustment(a) \/ RejectAdjustment(a) PROVE Shape(S)'
    <3>1. PICK s \in {"approved", "rejected"} :
            adj' = [adj EXCEPT ![a] = [adj[a] EXCEPT !.status = s]] /\ adj[a].status # "none"
      BY <2>2 DEF ApproveAdjustment, RejectAdjustment
    <3>2. [adj[a] EXCEPT !.status = s] \in Adjustments
      BY <1>0, <3>1, AdjustmentMoves
    <3> QED
      BY <1>0, <2>2, <3>1, <3>2 DEF ApproveAdjustment, RejectAdjustment
  <2>3. ASSUME NEW o \in Osr, NEW t \in Tank, NEW x \in Litres, RequestOpeningStock(o, t, x)
        PROVE  Shape(S)'
    BY <1>0, <2>3 DEF RequestOpeningStock, OpeningRequests
  <2>4. ASSUME NEW o \in Osr, RejectOpeningStock(o) PROVE Shape(S)'
    <3>1. [osr[o] EXCEPT !.status = "rejected"] \in OpeningRequests
      BY <1>0, <2>4, OpeningRequestMoves DEF RejectOpeningStock
    <3> QED
      BY <1>0, <2>4, <3>1 DEF RejectOpeningStock
  <2> QED
    BY <1>2, <2>1, <2>2, <2>3, <2>4 DEF Lifecycle
<1>3. ASSUME NEW r \in Req, Begin(r) PROVE Typed'
  <2> USE <1>0 DEF Start, Request, Ref
  <2>1. ASSUME NEW a \in Adj, PostAdjustment(r, a) PROVE Shape(S)'
    <3>1. adj[a].tank \in Tank /\ adj[a].litres \in Int
      BY <2>1, AdjustmentMoves DEF PostAdjustment
    <3> QED
      BY <2>1, <3>1 DEF PostAdjustment
  <2>2. ASSUME NEW o \in Osr, ApproveOpeningStock(r, o) PROVE Shape(S)'
    <3>1. osr[o] \in OpeningRequests /\ osr[o].status = "draft"
      BY <2>2 DEF ApproveOpeningStock
    <3>2. osr[o].tank \in Tank /\ osr[o].litres \in Litres
      BY <3>1, OpeningRequestMoves
    <3>3. osr[o].litres \in Int
      BY <3>2, <1>8
    <3> QED
      BY <2>2, <3>2, <3>3 DEF ApproveOpeningStock
  <2>3. ASSUME NEW t \in Tank, NEW x \in Litres, SetOpeningBalance(r, t, x) \/ ReceiveDelivery(r, t, x)
        PROVE  Shape(S)'
    BY <2>3 DEF SetOpeningBalance, ReceiveDelivery
  <2>4. ASSUME NEW s \in Shift, NEW x \in Litres, PostSalesForShift(r, s, x) PROVE Shape(S)'
    <3>1. Sold[s] \subseteq Tank /\ -x \in Int
      OBVIOUS
    <3> QED
      BY <2>4, <3>1 DEF PostSalesForShift
  <2> QED
    BY <1>3, <2>1, <2>2, <2>3, <2>4 DEF Begin
<1>4. ASSUME NEW r \in Req, NEW t \in Tank, CheckOpening(r, t) PROVE Typed'
  BY <1>0, <1>4, RequestSteps DEF CheckOpening
<1>5. ASSUME NEW r \in Req, NEW t \in Tank, PostMovement(r, t) PROVE Typed'
  <2> DEFINE row == [type |-> req[r].type, ref |-> req[r].ref, litres |-> req[r].litres,
                     balance |-> SumLitres(ledger[t]) + req[r].litres]
  <2> DEFINE T == S \cup {row}
  <2>1. Seq(S) \subseteq Seq(T)
    BY SeqMonotonic
  <2>2. ledger' \in [Tank -> Seq(T)] /\ UNCHANGED <<adj, osr>>
    BY <1>0, <1>5, <2>1 DEF PostMovement
  <2>3. <<row>> \in Seq(T)
    OBVIOUS
  <2>4. pending' = [pending EXCEPT ![r] = [pending[r] EXCEPT ![t] = <<row>>]]
    BY <1>5 DEF PostMovement
  <2> HIDE DEF row, T
  <2>5. pending' \in [Req -> [Tank -> Seq(T)]]
    BY <1>0, <2>1, <2>3, <2>4
  <2>6. req' \in [Req -> Request]
    BY <1>0, <1>5, RequestSteps
  <2> QED
    BY <1>0, <2>2, <2>5, <2>6
<1>6. ASSUME NEW r \in Req, Commit(r) PROVE Typed'
  <2>1. ledger' \in [Tank -> Seq(S)]
    BY <1>0, <1>6 DEF Commit
  <2>2. adj' \in [Adj -> Adjustments] /\ osr' \in [Osr -> OpeningRequests]
    <3>1. \A a \in Adj : a = req[r].ref => adj[a].status = "approved"
      BY <1>6 DEF Commit, Inv, OwnRef, OwnsRef
    <3>2. \A o \in Osr : o = req[r].ref => osr[o].status = "draft"
      BY <1>6 DEF Commit, Inv, OwnRef, OwnsRef
    <3>3. \A a \in Adj : adj'[a] \in Adjustments
      BY <1>0, <1>6, <3>1, AdjustmentMoves DEF Commit
    <3>4. \A o \in Osr : osr'[o] \in OpeningRequests
      BY <1>0, <1>6, <3>2, OpeningRequestMoves DEF Commit
    <3> QED
      BY <1>6, <3>3, <3>4 DEF Commit
  <2>3. req' \in [Req -> Request] /\ pending' \in [Req -> [Tank -> Seq(S)]]
    BY <1>0, <1>6 DEF Commit, Request, Idle, NoRows
  <2> QED
    BY <2>1, <2>2, <2>3
<1>7. ASSUME NEW r \in Req, Rollback(r) PROVE Typed'
  <2>1. Idle \in Request /\ NoRows \in [Tank -> Seq(S)]
    BY DEF Request, NoRows
  <2> QED
    BY <1>0, <1>7, <2>1 DEF Rollback
<1> QED
  BY <1>1, <1>2, <1>3, <1>4, <1>5, <1>6, <1>7 DEF Next

-----------------------------------------------------------------------------
(* Facts about the steps of one request that every conjunct needs. *)
LEMMA StepFrame ==
  ASSUME Inv, Next
  PROVE  \/ Lifecycle /\ UNCHANGED <<ledger, req, pending>>
         \/ \E r \in Req :
              \/ Begin(r) /\ req[r] = Idle /\ UNCHANGED <<ledger, adj, osr, pending>>
              \/ \E t \in Tank : CheckOpening(r, t) /\ UNCHANGED <<ledger, adj, osr, pending>>
              \/ \E t \in Tank : PostMovement(r, t) /\ UNCHANGED <<ledger, adj, osr>>
              \/ Commit(r)
              \/ Rollback(r) /\ UNCHANGED <<ledger, adj, osr>>
<1>1. ASSUME Lifecycle PROVE UNCHANGED <<ledger, req, pending>>
  BY <1>1 DEF Lifecycle, RequestAdjustment, ApproveAdjustment, RejectAdjustment,
              RequestOpeningStock, RejectOpeningStock
<1>2. ASSUME NEW r \in Req, Begin(r) PROVE req[r] = Idle /\ UNCHANGED <<ledger, adj, osr, pending>>
  BY <1>2 DEF Begin, PostAdjustment, ApproveOpeningStock, SetOpeningBalance, ReceiveDelivery,
              PostSalesForShift, Start
<1>3. ASSUME NEW r \in Req, NEW t \in Tank, CheckOpening(r, t)
      PROVE  UNCHANGED <<ledger, adj, osr, pending>>
  BY <1>3 DEF CheckOpening
<1>4. ASSUME NEW r \in Req, NEW t \in Tank, PostMovement(r, t) PROVE UNCHANGED <<ledger, adj, osr>>
  BY <1>4 DEF PostMovement
<1>5. ASSUME NEW r \in Req, Rollback(r) PROVE UNCHANGED <<ledger, adj, osr>>
  BY <1>5 DEF Rollback
<1> QED
  BY <1>1, <1>2, <1>3, <1>4, <1>5 DEF Next

(* Concatenating a sequence of one row appends it. *)
LEMMA ConcatOne ==
  ASSUME NEW S, NEW s \in Seq(S), NEW p \in Seq(S), Len(p) = 1
  PROVE  /\ Len(s \o p) = Len(s) + 1
         /\ DOMAIN (s \o p) = 1 .. (Len(s) + 1)
         /\ DOMAIN s = 1 .. Len(s)
         /\ \A i \in DOMAIN s : (s \o p)[i] = s[i]
         /\ (s \o p)[Len(s) + 1] = p[1]
<1>3. Len(s) \in Nat /\ DOMAIN s = 1 .. Len(s)
  BY LenProperties
<1>4. /\ s \o p \in Seq(S)
      /\ Len(s \o p) = Len(s) + Len(p)
      /\ \A i \in 1 .. Len(s) + Len(p) :
           (s \o p)[i] = IF i <= Len(s) THEN s[i] ELSE p[i - Len(s)]
  BY ConcatProperties
<1>5. DOMAIN (s \o p) = 1 .. Len(s \o p)
  BY <1>4, LenProperties
<1> QED
  BY <1>3, <1>4, <1>5

(* A commit appends at most one row to each tank. *)
LEMMA CommitAppends ==
  ASSUME Inv, NEW r \in Req, Commit(r), NEW t \in Tank
  PROVE  /\ ~Holds(r, t) => ledger'[t] = ledger[t]
         /\ Holds(r, t) =>
              /\ Len(ledger'[t]) = Len(ledger[t]) + 1
              /\ DOMAIN ledger'[t] = 1 .. (Len(ledger[t]) + 1)
              /\ DOMAIN ledger[t] = 1 .. Len(ledger[t])
              /\ \A i \in DOMAIN ledger[t] : ledger'[t][i] = ledger[t][i]
              /\ ledger'[t][Len(ledger[t]) + 1] = pending[r][t][1]
<1>0. PICK S : Shape(S)
  BY DEF Inv, Typed
<1>1. ledger[t] \in Seq(S) /\ pending[r][t] \in Seq(S)
  BY <1>0 DEF Shape
<1>2. ledger'[t] = ledger[t] \o pending[r][t]
  BY DEF Commit
<1>3. CASE ~Holds(r, t)
  BY <1>1, <1>2, <1>3, ConcatEmptySeq DEF Holds
<1>4. CASE Holds(r, t)
  <2>1. Len(pending[r][t]) = 1
    BY <1>4 DEF Inv, OwnRows
  <2> DEFINE s == ledger[t]
             p == pending[r][t]
  <2>2. /\ Len(s \o p) = Len(s) + 1
        /\ DOMAIN (s \o p) = 1 .. (Len(s) + 1)
        /\ DOMAIN s = 1 .. Len(s)
        /\ \A i \in DOMAIN s : (s \o p)[i] = s[i]
        /\ (s \o p)[Len(s) + 1] = p[1]
    BY <1>1, <2>1, ConcatOne
  <2> QED
    BY <1>2, <1>4, <2>2, Zenon
<1> QED
  BY <1>3, <1>4

-----------------------------------------------------------------------------
LEMMA NextOwnRows == ASSUME Inv, Next PROVE OwnRows'
<1> USE DEF Inv, OwnRows, Holds
<1>0. PICK S : Shape(S)
  BY DEF Typed
<1>1. CASE UNCHANGED <<req, pending>>
  BY <1>1
<1>2. ASSUME NEW r \in Req, req[r] = Idle, Begin(r), UNCHANGED pending PROVE OwnRows'
  <2>1. \A q \in Req : q # r => req'[q] = req[q]
    BY <1>0, <1>2 DEF Shape, Begin, PostAdjustment, ApproveOpeningStock, SetOpeningBalance,
                      ReceiveDelivery, PostSalesForShift, Start
  <2>2. \A t \in Tank : pending[r][t] = <<>>
    BY <1>2 DEF NoRows
  <2>3. pending[r] = NoRows
    BY <1>2
  <2> QED
    BY <1>2, <2>1, <2>2, <2>3
<1>3. ASSUME NEW r \in Req, NEW t \in Tank, CheckOpening(r, t) PROVE OwnRows'
  <2>1. /\ \A q \in Req : q # r => req'[q] = req[q]
        /\ req[r] # Idle /\ req'[r] # Idle /\ req'[r].ref = req[r].ref
    BY <1>3, RequestSteps
  <2>2. UNCHANGED pending
    BY <1>3 DEF CheckOpening
  <2> QED
    BY <2>1, <2>2
<1>4. ASSUME NEW r \in Req, NEW t \in Tank, PostMovement(r, t) PROVE OwnRows'
  <2> DEFINE row == [type |-> req[r].type, ref |-> req[r].ref, litres |-> req[r].litres,
                     balance |-> SumLitres(ledger[t]) + req[r].litres]
  <2>1. /\ \A q \in Req : q # r => req'[q] = req[q] /\ pending'[q] = pending[q]
        /\ \A u \in Tank : u # t => pending'[r][u] = pending[r][u]
        /\ pending'[r][t] = <<row>>
    BY <1>0, <1>4, RequestSteps DEF PostMovement, Shape
  <2>2. req[r] # Idle /\ req'[r] # Idle /\ req'[r].ref = req[r].ref
    BY <1>4, RequestSteps
  <2>3. row.ref = req[r].ref /\ Len(<<row>>) = 1 /\ <<row>>[1] = row
    OBVIOUS
  <2> HIDE DEF row
  <2>4. \A u \in Tank : pending'[r][u] # <<>> =>
          Len(pending'[r][u]) = 1 /\ pending'[r][u][1].ref = req'[r].ref
    <3>1. Len(pending'[r][t]) = 1 /\ pending'[r][t][1].ref = req'[r].ref
      BY <2>1, <2>2, <2>3
    <3>2. ASSUME NEW u \in Tank, u # t, pending'[r][u] # <<>>
          PROVE  Len(pending'[r][u]) = 1 /\ pending'[r][u][1].ref = req'[r].ref
      BY <2>1, <2>2, <3>2
    <3> QED
      BY <3>1, <3>2
  <2> QED
    BY <2>1, <2>2, <2>4
<1>5. ASSUME NEW r \in Req, Commit(r) \/ Rollback(r) PROVE OwnRows'
  <2>1. /\ \A q \in Req : q # r => req'[q] = req[q] /\ pending'[q] = pending[q]
        /\ pending'[r] = NoRows
    BY <1>0, <1>5 DEF Commit, Rollback, Shape
  <2> QED
    BY <2>1 DEF NoRows
<1> QED
  BY StepFrame, <1>1, <1>2, <1>3, <1>4, <1>5

LEMMA NextStillAdmitted == ASSUME Inv, Next PROVE StillAdmitted'
<1> USE DEF Inv, StillAdmitted
<1>0. PICK S : Shape(S)
  BY DEF Typed
<1>1. CASE UNCHANGED <<ledger, pending>>
  BY <1>1 DEF Holds, Admits, HasOpening, SalePosted
<1>2. ASSUME NEW r \in Req, NEW t \in Tank, PostMovement(r, t), UNCHANGED ledger PROVE StillAdmitted'
  <2> DEFINE row == [type |-> req[r].type, ref |-> req[r].ref, litres |-> req[r].litres,
                     balance |-> SumLitres(ledger[t]) + req[r].litres]
  <2>1. /\ \A q \in Req : q # r => pending'[q] = pending[q]
        /\ \A u \in Tank : u # t => pending'[r][u] = pending[r][u]
        /\ pending'[r][t] = <<row>>
    BY <1>0, <1>2 DEF PostMovement, Shape
  <2>2. Admits(row.type, row.ref, t) /\ \A q \in Req : q # r => ~Holds(q, t)
    BY <1>2 DEF PostMovement, TankFree
  <2> HIDE DEF row
  <2>3. \A type, ref : \A u \in Tank : Admits(type, ref, u)' <=> Admits(type, ref, u)
    <3> HIDE DEF Inv, StillAdmitted
    <3> QED
      BY <1>2 DEF Admits, HasOpening, SalePosted
  <2>4. \A q \in Req : \A u \in Tank :
          (q # r \/ u # t) => pending'[q][u] = pending[q][u] /\ (Holds(q, u)' <=> Holds(q, u))
    BY <2>1 DEF Holds
  <2>5. \A q \in Req : \A u \in Tank : Holds(q, u)' =>
          Admits(pending'[q][u][1].type, pending'[q][u][1].ref, u)
    BY <2>1, <2>2, <2>4
  <2>6. \A q, p \in Req : \A u \in Tank : Holds(q, u)' /\ p # q => ~Holds(p, u)'
    BY <2>2, <2>4
  <2> QED
    BY <2>3, <2>5, <2>6
<1>3. ASSUME NEW r \in Req, Commit(r) \/ (Rollback(r) /\ UNCHANGED ledger) PROVE StillAdmitted'
  <2>1. /\ \A q \in Req : q # r => pending'[q] = pending[q]
        /\ pending'[r] = NoRows
    BY <1>0, <1>3 DEF Commit, Rollback, Shape
  <2>2. \A t \in Tank : ~Holds(r, t)'
    BY <2>1 DEF Holds, NoRows
  <2>3. \A q \in Req : \A t \in Tank : q # r => (Holds(q, t)' <=> Holds(q, t))
    BY <2>1 DEF Holds
  <2>4. \A q \in Req : \A t \in Tank : q # r /\ Holds(q, t) => ledger'[t] = ledger[t]
    BY <1>3, CommitAppends
  <2>5. ASSUME NEW q \in Req, NEW t \in Tank, Holds(q, t)'
        PROVE  Admits(pending[q][t][1].type, pending[q][t][1].ref, t)'
    <3>1. q # r /\ Holds(q, t) /\ pending'[q] = pending[q] /\ ledger'[t] = ledger[t]
      BY <2>1, <2>2, <2>3, <2>4, <2>5
    <3>2. Admits(pending[q][t][1].type, pending[q][t][1].ref, t)
      BY <3>1
    <3> QED
      BY <3>1, <3>2 DEF Admits, HasOpening, SalePosted
  <2> QED
    BY <2>2, <2>3, <2>5
<1> QED
  BY StepFrame, <1>1, <1>2, <1>3

(* What a request that has just begun works on. *)
LEMMA BeginFacts ==
  ASSUME NEW S, Shape(S), NEW r \in Req, Begin(r)
  PROVE  /\ req'[r] # Idle
         /\ req'[r].type = "sales" \/ req'[r].at = "check" => req'[r].ref \in Shift
         /\ req'[r].ref \in Adj => adj[req'[r].ref].status = "approved"
         /\ req'[r].ref \in Osr => osr[req'[r].ref].status = "draft"
         /\ req'[r].ref \in Adj \cup Osr => req'[r].todo # {}
         /\ InFlight(req'[r].ref) => req'[r].ref = NoRef
         /\ \A q \in Req : q # r => req'[q] = req[q]
<1> USE LedgerAssumption
<1>0. \A q \in Req : q # r => req'[q] = req[q]
  BY DEF Shape, Begin, PostAdjustment, ApproveOpeningStock, SetOpeningBalance, ReceiveDelivery,
         PostSalesForShift, Start
<1>1. ASSUME NEW a \in Adj, PostAdjustment(r, a)
      PROVE  /\ req'[r] # Idle /\ req'[r].type # "sales" /\ req'[r].at # "check"
             /\ req'[r].ref = a /\ req'[r].todo # {}
             /\ adj[a].status = "approved" /\ ~InFlight(a)
  BY <1>1 DEF PostAdjustment, Shape, Start, Idle
<1>2. ASSUME NEW o \in Osr, ApproveOpeningStock(r, o)
      PROVE  /\ req'[r] # Idle /\ req'[r].type # "sales" /\ req'[r].at # "check"
             /\ req'[r].ref = o /\ req'[r].todo # {}
             /\ osr[o].status = "draft" /\ ~InFlight(o)
  BY <1>2 DEF ApproveOpeningStock, Shape, Start, Idle
<1>3. ASSUME NEW t \in Tank, NEW x \in Litres, SetOpeningBalance(r, t, x) \/ ReceiveDelivery(r, t, x)
      PROVE  /\ req'[r] # Idle /\ req'[r].type # "sales" /\ req'[r].at # "check"
             /\ req'[r].ref = NoRef
  <2>1. PICK type \in {"opening", "delivery"} : Start(r, type, NoRef, x, {t}, "post")
    BY <1>3 DEF SetOpeningBalance, ReceiveDelivery
  <2>2. req'[r] = [at |-> "post", type |-> type, ref |-> NoRef, litres |-> x, todo |-> {t}]
    BY <2>1 DEF Start, Shape
  <2> QED
    BY <2>2 DEF Idle
<1>4. ASSUME NEW s \in Shift, NEW x \in Litres, PostSalesForShift(r, s, x)
      PROVE  req'[r] # Idle /\ req'[r].ref = s /\ ~InFlight(s)
  BY <1>4 DEF PostSalesForShift, Shape, Start, Idle
<1> QED
  BY <1>0, <1>1, <1>2, <1>3, <1>4 DEF Begin

(* A request keeps what it owns through a step that leaves it, its rows and *)
(* the state it relies on alone.                                            *)
LEMMA Untouched ==
  ASSUME NEW q \in Req, OwnsRef(q), req'[q] = req[q], pending'[q] = pending[q],
         req[q] # Idle /\ req[q].ref \in Adj /\ adj[req[q].ref].status = "approved" =>
           adj'[req[q].ref].status = "approved",
         req[q] # Idle /\ req[q].ref \in Osr /\ osr[req[q].ref].status = "draft" =>
           osr'[req[q].ref].status = "draft"
  PROVE  OwnsRef(q)'
BY DEF OwnsRef, Holds, Idle

(* References stay apart as long as no request takes a new one. *)
LEMMA StillApart ==
  ASSUME RefsApart,
         \A q \in Req : req'[q] # Idle => req[q] # Idle /\ req'[q].ref = req[q].ref
  PROVE  RefsApart'
BY DEF RefsApart, Idle

LEMMA NextOwnRef == ASSUME Inv, Next PROVE OwnRef'
<1> USE LedgerAssumption
<1>0. PICK S : Shape(S)
  BY DEF Inv, Typed
<1>a. Typed /\ RefsApart /\ \A q \in Req : OwnsRef(q)
  BY DEF Inv, OwnRef
<1>1. CASE Lifecycle /\ UNCHANGED <<req, pending>>
  <2>1. \A a \in Adj : InFlight(a) /\ adj[a].status = "approved" => adj'[a].status = "approved"
    BY <1>0, <1>1 DEF Lifecycle, RequestAdjustment, ApproveAdjustment, RejectAdjustment,
                      RequestOpeningStock, RejectOpeningStock, Shape
  <2>2. \A o \in Osr : InFlight(o) /\ osr[o].status = "draft" => osr'[o].status = "draft"
    BY <1>0, <1>1 DEF Lifecycle, RequestAdjustment, ApproveAdjustment, RejectAdjustment,
                      RequestOpeningStock, RejectOpeningStock, Shape
  <2>3. ASSUME NEW q \in Req PROVE OwnsRef(q)'
    <3>1. req[q] # Idle => InFlight(req[q].ref)
      BY DEF InFlight
    <3> QED
      BY <1>1, <1>a, <2>1, <2>2, <3>1, Untouched
  <2>4. RefsApart'
    BY <1>1, <1>a, StillApart
  <2> QED
    BY <2>3, <2>4 DEF OwnRef
<1>2. ASSUME NEW r \in Req, req[r] = Idle, Begin(r), UNCHANGED <<adj, osr, pending>> PROVE OwnRef'
  <2>1. /\ req'[r] # Idle
        /\ req'[r].type = "sales" \/ req'[r].at = "check" => req'[r].ref \in Shift
        /\ req'[r].ref \in Adj => adj[req'[r].ref].status = "approved"
        /\ req'[r].ref \in Osr => osr[req'[r].ref].status = "draft"
        /\ req'[r].ref \in Adj \cup Osr => req'[r].todo # {}
        /\ InFlight(req'[r].ref) => req'[r].ref = NoRef
        /\ \A q \in Req : q # r => req'[q] = req[q]
    BY <1>0, <1>2, BeginFacts
  <2>2. OwnsRef(r)'
    BY <1>2, <2>1 DEF OwnsRef
  <2>3. ASSUME NEW q \in Req, q # r PROVE OwnsRef(q)'
    BY <1>2, <1>a, <2>1, <2>3, Untouched
  <2>4. \A q \in Req : q # r /\ req'[q] # Idle /\ req'[q].ref = req'[r].ref => req'[r].ref = NoRef
    BY <2>1 DEF InFlight
  <2>5. RefsApart'
    BY <1>a, <2>1, <2>4 DEF RefsApart, Idle
  <2> QED
    BY <2>2, <2>3, <2>5 DEF OwnRef
<1>3. ASSUME NEW r \in Req, NEW t \in Tank, CheckOpening(r, t), UNCHANGED <<adj, osr, pending>>
      PROVE  OwnRef'
  <2>1. /\ \A q \in Req : q # r => req'[q] = req[q]
        /\ req[r] # Idle /\ req'[r].ref = req[r].ref /\ req'[r].type = req[r].type
        /\ req[r].at = "check"
    BY <1>3, <1>a, RequestSteps
  <2>2. req[r].ref \in Shift
    BY <1>a, <2>1 DEF OwnsRef
  <2>3. OwnsRef(r)'
    BY <2>1, <2>2 DEF OwnsRef
  <2>4. ASSUME NEW q \in Req, q # r PROVE OwnsRef(q)'
    BY <1>3, <1>a, <2>1, <2>4, Untouched
  <2>5. RefsApart'
    BY <1>a, <2>1, StillApart
  <2> QED
    BY <2>3, <2>4, <2>5 DEF OwnRef
<1>4. ASSUME NEW r \in Req, NEW t \in Tank, PostMovement(r, t), UNCHANGED <<adj, osr>>
      PROVE  OwnRef'
  <2>1. /\ \A q \in Req : q # r => req'[q] = req[q]
        /\ req[r] # Idle /\ req'[r].ref = req[r].ref /\ req'[r].type = req[r].type
        /\ req'[r].at = "check" => req[r].at = "check" \/ req[r].type = "sales"
    BY <1>4, <1>a, RequestSteps
  <2>2. Holds(r, t)' /\ \A q \in Req : q # r => pending'[q] = pending[q]
    <3>1. \A x : <<x>> # <<>>
      OBVIOUS
    <3> QED
      BY <1>0, <1>4, <3>1 DEF PostMovement, Shape, Holds
  <2>3. OwnsRef(r)'
    BY <1>4, <1>a, <2>1, <2>2 DEF OwnsRef
  <2>4. ASSUME NEW q \in Req, q # r PROVE OwnsRef(q)'
    BY <1>4, <1>a, <2>1, <2>2, <2>4, Untouched
  <2>5. RefsApart'
    BY <1>a, <2>1, StillApart
  <2> QED
    BY <2>3, <2>4, <2>5 DEF OwnRef
<1>5. ASSUME NEW r \in Req, Commit(r) \/ (Rollback(r) /\ UNCHANGED <<adj, osr>>) PROVE OwnRef'
  <2>1. /\ \A q \in Req : q # r => req'[q] = req[q] /\ pending'[q] = pending[q]
        /\ req'[r] = Idle /\ req[r] # Idle
        /\ \A a \in Adj : a # req[r].ref => adj'[a] = adj[a]
        /\ \A o \in Osr : o # req[r].ref => osr'[o] = osr[o]
    BY <1>0, <1>5 DEF Commit, Rollback, Shape
  <2>2. \A q \in Req : q # r /\ req[q] # Idle /\ req[q].ref \in Adj \cup Osr => req[q].ref # req[r].ref
    BY <1>a, <2>1 DEF RefsApart
  <2>3. OwnsRef(r)'
    BY <2>1 DEF OwnsRef, Idle
  <2>4. ASSUME NEW q \in Req, q # r PROVE OwnsRef(q)'
    BY <1>a, <2>1, <2>2, <2>4, Untouched
  <2>5. RefsApart'
    BY <1>a, <2>1, StillApart
  <2> QED
    BY <2>3, <2>4, <2>5 DEF OwnRef
<1> QED
  BY StepFrame, <1>1, <1>2, <1>3, <1>4, <1>5

-----------------------------------------------------------------------------
LEMMA NextOneOpening == ASSUME Inv, Next PROVE OneOpening'
<1> USE DEF Inv, OneOpening
<1>1. CASE UNCHANGED ledger
  BY <1>1
<1>2. ASSUME NEW r \in Req, Commit(r) PROVE OneOpening'
  <2> SUFFICES ASSUME NEW t \in Tank, NEW i \in DOMAIN ledger'[t], NEW j \in DOMAIN ledger'[t],
                      ledger'[t][i].type = "opening", ledger'[t][j].type = "opening"
               PROVE  i = j
    OBVIOUS
  <2>1. CASE ~Holds(r, t)
    <3> HIDE DEF Inv
    <3>1. ledger'[t] = ledger[t]
      BY <1>2, <2>1, CommitAppends
    <3> QED
      BY <3>1 DEF Inv
  <2>2. CASE Holds(r, t)
    <3> DEFINE n == Len(ledger[t])
    <3>1. /\ DOMAIN ledger'[t] = 1 .. (n + 1) /\ DOMAIN ledger[t] = 1 .. n
          /\ \A k \in DOMAIN ledger[t] : ledger'[t][k] = ledger[t][k]
          /\ ledger'[t][n + 1] = pending[r][t][1]
      <4> HIDE DEF Inv
      <4> QED
        BY <1>2, <2>2, CommitAppends
    <3>2. n \in Nat
      <4>1. PICK S : Shape(S)
        BY DEF Typed
      <4> QED
        BY <4>1, LenProperties DEF Shape
    <3>3. ledger'[t][n + 1].type = "opening" =>
            \A k \in DOMAIN ledger[t] : ledger[t][k].type # "opening"
      <4>1. pending[r][t][1].type = "opening" => ~HasOpening(t)
        BY <2>2 DEF StillAdmitted, Admits
      <4> HIDE DEF Inv, OneOpening
      <4> QED
        BY <3>1, <4>1 DEF HasOpening
    <3>4. \A k \in 1 .. (n + 1) : k # n + 1 => k \in 1 .. n
      BY <3>2
    <3> QED
      BY <3>1, <3>3, <3>4
  <2> QED
    BY <2>1, <2>2
<1> QED
  BY StepFrame, <1>1, <1>2

LEMMA NextFlowsFollowOpening == ASSUME Inv, Next PROVE FlowsFollowOpening'
<1> USE DEF Inv, FlowsFollowOpening
<1>1. CASE UNCHANGED ledger
  BY <1>1 DEF RequiresOpening
<1>2. ASSUME NEW r \in Req, Commit(r) PROVE FlowsFollowOpening'
  <2> SUFFICES ASSUME NEW t \in Tank, NEW i \in DOMAIN ledger'[t],
                      RequiresOpening(ledger'[t][i].type)
               PROVE  \E j \in 1..(i - 1) : ledger'[t][j].type = "opening"
    BY DEF RequiresOpening
  <2>1. CASE ~Holds(r, t)
    <3> HIDE DEF Inv
    <3>1. ledger'[t] = ledger[t]
      BY <1>2, <2>1, CommitAppends
    <3> QED
      BY <3>1 DEF Inv
  <2>2. CASE Holds(r, t)
    <3> DEFINE n == Len(ledger[t])
    <3>1. /\ DOMAIN ledger'[t] = 1 .. (n + 1) /\ DOMAIN ledger[t] = 1 .. n
          /\ \A k \in DOMAIN ledger[t] : ledger'[t][k] = ledger[t][k]
          /\ ledger'[t][n + 1] = pending[r][t][1]
      <4> HIDE DEF Inv
      <4> QED
        BY <1>2, <2>2, CommitAppends
    <3>2. n \in Nat
      <4>1. PICK S : Shape(S)
        BY DEF Typed
      <4> QED
        BY <4>1, LenProperties DEF Shape
    <3>3. CASE i = n + 1
      <4>1. PICK j \in 1 .. n : ledger[t][j].type = "opening"
        BY <2>2, <3>1, <3>3 DEF StillAdmitted, Admits, HasOpening
      <4>2. j \in 1 .. (i - 1)
        BY <3>2, <3>3
      <4> QED
        BY <3>1, <4>1, <4>2
    <3>4. CASE i # n + 1
      <4>1. i \in 1 .. n
        BY <3>1, <3>2, <3>4
      <4>2. PICK j \in 1 .. (i - 1) : ledger[t][j].type = "opening"
        BY <3>1, <4>1
      <4>3. j \in 1 .. n
        BY <3>2, <4>1
      <4> QED
        BY <3>1, <4>2, <4>3
    <3> QED
      BY <3>3, <3>4
  <2> QED
    BY <2>1, <2>2
<1> QED
  BY StepFrame, <1>1, <1>2

LEMMA NextLifecycle == ASSUME Inv, Next PROVE LifecycleMatchesLedger'
<1> USE LedgerAssumption DEF Inv, LifecycleMatchesLedger
<1>0. PICK S : Shape(S)
  BY DEF Typed
<1>1. CASE UNCHANGED <<ledger, adj, osr>>
  <2>1. \A ref : OnLedger(ref)' <=> OnLedger(ref)
    BY <1>1 DEF OnLedger
  <2> QED
    BY <1>1, <2>1
<1>2. CASE Lifecycle /\ UNCHANGED ledger
  <2>0. \A ref : OnLedger(ref)' <=> OnLedger(ref)
    BY <1>2 DEF OnLedger
  <2> DEFINE Kept == /\ \A a \in Adj : adj'[a].status = "posted" <=> adj[a].status = "posted"
                     /\ \A o \in Osr : osr'[o].status = "approved" <=> osr[o].status = "approved"
  <2>1. ASSUME NEW a \in Adj, NEW t \in Tank, NEW x \in Litres,
               RequestAdjustment(a, t, x) \/ RequestAdjustment(a, t, -x)
        PROVE  Kept
    <3>1. PICK y : RequestAdjustment(a, t, y)
      BY <2>1
    <3>2. /\ \A b \in Adj : b # a => adj'[b] = adj[b]
          /\ adj[a].status = "none" /\ adj'[a].status = "requested" /\ UNCHANGED osr
      BY <1>0, <3>1 DEF RequestAdjustment, Shape
    <3> QED
      BY <3>2
  <2>2. ASSUME NEW a \in Adj, ApproveAdjustment(a) \/ RejectAdjustment(a) PROVE Kept
    <3>1. PICK s \in {"approved", "rejected"} :
            adj' = [adj EXCEPT ![a] = [adj[a] EXCEPT !.status = s]]
      BY <2>2 DEF ApproveAdjustment, RejectAdjustment
    <3>2. adj[a] \in Adjustments /\ adj[a].status \in {"requested", "approved"} /\ UNCHANGED osr
      BY <1>0, <2>2 DEF ApproveAdjustment, RejectAdjustment, Shape
    <3>3. [adj[a] EXCEPT !.status = s].status = s
      BY <3>2, AdjustmentMoves
    <3> QED
      BY <1>0, <3>1, <3>2, <3>3 DEF Shape
  <2>3. ASSUME NEW o \in Osr, NEW t \in Tank, NEW x \in Litres, RequestOpeningStock(o, t, x)
        PROVE  Kept
    BY <1>0, <2>3 DEF RequestOpeningStock, Shape
  <2>4. ASSUME NEW o \in Osr, RejectOpeningStock(o) PROVE Kept
    <3>1. osr' = [osr EXCEPT ![o] = [osr[o] EXCEPT !.status = "rejected"]] /\ UNCHANGED adj
      BY <2>4 DEF RejectOpeningStock
    <3>2. osr[o] \in OpeningRequests /\ osr[o].status = "draft"
      BY <1>0, <2>4 DEF RejectOpeningStock, Shape
    <3>3. [osr[o] EXCEPT !.status = "rejected"].status = "rejected"
      BY <3>2, OpeningRequestMoves
    <3> QED
      BY <1>0, <3>1, <3>2, <3>3 DEF Shape
  <2>5. Kept
    BY <1>2, <2>1, <2>2, <2>3, <2>4 DEF Lifecycle
  <2> QED
    BY <2>0, <2>5
<1>3. ASSUME NEW r \in Req, Commit(r) PROVE LifecycleMatchesLedger'
  <2>0. req[r] # Idle /\ req[r].todo = {}
    BY <1>3 DEF Commit
  <2>1. \A ref : OnLedger(ref)' <=>
          OnLedger(ref) \/ (ref = req[r].ref /\ \E t \in Tank : Holds(r, t))
    <3>1. ASSUME NEW ref, NEW t \in Tank
          PROVE  (\E i \in DOMAIN ledger'[t] : ledger'[t][i].ref = ref) <=>
                   \/ \E i \in DOMAIN ledger[t] : ledger[t][i].ref = ref
                   \/ ref = req[r].ref /\ Holds(r, t)
      <4>1. CASE ~Holds(r, t)
        <5> HIDE DEF Inv, LifecycleMatchesLedger
        <5>1. ledger'[t] = ledger[t]
          BY <1>3, <4>1, CommitAppends
        <5> QED
          BY <4>1, <5>1
      <4>2. CASE Holds(r, t)
        <5> DEFINE n == Len(ledger[t])
        <5>1. /\ DOMAIN ledger'[t] = 1 .. (n + 1) /\ DOMAIN ledger[t] = 1 .. n
              /\ \A k \in DOMAIN ledger[t] : ledger'[t][k] = ledger[t][k]
              /\ ledger'[t][n + 1] = pending[r][t][1]
          <6> HIDE DEF Inv, LifecycleMatchesLedger
          <6> QED
            BY <1>3, <4>2, CommitAppends
        <5>2. n \in Nat
          BY <1>0, LenProperties DEF Shape
        <5>3. pending[r][t][1].ref = req[r].ref
          BY <4>2 DEF OwnRows
        <5>4. 1 .. (n + 1) = (1 .. n) \cup {n + 1}
          BY <5>2
        <5> HIDE DEF n, Inv, LifecycleMatchesLedger
        <5>5. ASSUME NEW i \in DOMAIN ledger'[t], ledger'[t][i].ref = ref
              PROVE  (\E k \in DOMAIN ledger[t] : ledger[t][k].ref = ref) \/ ref = req[r].ref
          <6>1. CASE i \in 1 .. n
            BY <5>1, <5>5, <6>1
          <6>2. CASE i = n + 1
            BY <5>1, <5>3, <5>5, <6>2
          <6> QED
            BY <5>1, <5>4, <6>1, <6>2
        <5>6. ASSUME NEW k \in DOMAIN ledger[t], ledger[t][k].ref = ref
              PROVE  \E i \in DOMAIN ledger'[t] : ledger'[t][i].ref = ref
          BY <5>1, <5>4, <5>6
        <5>7. n + 1 \in DOMAIN ledger'[t] /\ ledger'[t][n + 1].ref = req[r].ref
          BY <5>1, <5>3, <5>4
        <5> QED
          BY <4>2, <5>5, <5>6, <5>7
      <4> QED
        BY <4>1, <4>2
    <3> HIDE DEF Inv, LifecycleMatchesLedger
    <3> QED
      BY <3>1, Zenon DEF OnLedger
  <2>2. ASSUME NEW a \in Adj PROVE adj'[a].status = "posted" <=> OnLedger(a)'
    <3>1. CASE a = req[r].ref
      <4>1. adj[a].status = "approved" /\ \E t \in Tank : Holds(r, t)
        BY <2>0, <3>1 DEF OwnRef, OwnsRef
      <4>2. adj'[a] = [adj[a] EXCEPT !.status = "posted"] /\ adj[a] \in Adjustments
        BY <1>0, <1>3, <3>1 DEF Commit, Shape
      <4>3. adj'[a].status = "posted"
        BY <4>1, <4>2 DEF Adjustments
      <4> QED
        BY <2>1, <3>1, <4>1, <4>3
    <3>2. CASE a # req[r].ref
      BY <1>3, <2>1, <3>2 DEF Commit
    <3> QED
      BY <3>1, <3>2
  <2>3. ASSUME NEW o \in Osr PROVE osr'[o].status = "approved" <=> OnLedger(o)'
    <3>1. CASE o = req[r].ref
      <4>1. osr[o].status = "draft" /\ \E t \in Tank : Holds(r, t)
        BY <2>0, <3>1 DEF OwnRef, OwnsRef
      <4>2. osr'[o] = [osr[o] EXCEPT !.status = "approved"] /\ osr[o] \in OpeningRequests
        BY <1>0, <1>3, <3>1 DEF Commit, Shape
      <4>3. osr'[o].status = "approved"
        BY <4>1, <4>2 DEF OpeningRequests
      <4> QED
        BY <2>1, <3>1, <4>1, <4>3
    <3>2. CASE o # req[r].ref
      BY <1>3, <2>1, <3>2 DEF Commit
    <3> QED
      BY <3>1, <3>2
  <2> QED
    BY <2>2, <2>3
<1> QED
  BY StepFrame, <1>1, <1>2, <1>3

LEMMA NextInv == Inv /\ [Next]_vars => Inv'
<1> SUFFICES ASSUME Inv, [Next]_vars PROVE Inv'
  OBVIOUS
<1>1. CASE UNCHANGED vars
  <2>1. Typed'
    BY NextTyped
  <2>2. OwnRows'
    BY <1>1 DEF vars, Inv, OwnRows, Holds
  <2>3. OwnRef'
    BY <1>1 DEF vars, Inv, OwnRef, OwnsRef, RefsApart, Holds
  <2>4. StillAdmitted'
    <3>1. \A type, ref, t : Admits(type, ref, t) => Admits(type, ref, t)'
      BY <1>1 DEF vars, Admits, HasOpening, SalePosted
    <3>2. pending' = pending /\ \A r, t : Holds(r, t)' <=> Holds(r, t)
      BY <1>1 DEF vars, Holds
    <3> QED
      BY <3>1, <3>2 DEF Inv, StillAdmitted
  <2>5. OneOpening' /\ FlowsFollowOpening'
    BY <1>1 DEF vars, Inv, OneOpening, FlowsFollowOpening
  <2>6. LifecycleMatchesLedger'
    BY <1>1 DEF vars, Inv, LifecycleMatchesLedger, OnLedger
  <2> QED
    BY <2>1, <2>2, <2>3, <2>4, <2>5, <2>6 DEF Inv
<1>2. CASE Next
  BY <1>2, NextTyped, NextOwnRows, NextOwnRef, NextStillAdmitted, NextOneOpening,
     NextFlowsFollowOpening, NextLifecycle DEF Inv
<1> QED
  BY <1>1, <1>2

LEMMA Invariance == Spec => []Inv
BY InitInv, NextInv, PTL DEF Spec

(* What a request checked under the tank's lock stays true until it        *)
(* commits.                                                                *)
THEOREM ChecksHoldToCommit == Spec => []StillAdmitted
BY Invariance, PTL DEF Inv

(* A tank is never opened twice, whoever races to open it. *)
THEOREM TankOpenedOnce == Spec => []OneOpening
BY Invariance, PTL DEF Inv

(* No delivery and no sale is on the ledger before its tank's opening. *)
THEOREM FlowsNeedOpening == Spec => []FlowsFollowOpening
BY Invariance, PTL DEF Inv

(* Adjustments and opening-stock requests never disagree with the ledger. *)
THEOREM LedgerAndLifecycleAgree == Spec => []LifecycleMatchesLedger
BY Invariance, PTL DEF Inv

=============================================================================
