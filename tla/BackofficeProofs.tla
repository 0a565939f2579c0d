-------------------------- MODULE BackofficeProofs --------------------------
(***************************************************************************)
(* Separation of duties in enterprise governance, for any sets of users,   *)
(* policies, requests and periods: an approved request was approved by     *)
(* enough different people and by nobody against it, and a closed period   *)
(* has one pending change at most, never decided by its author.  And the   *)
(* forecourt's composite keys, for any master data: a nozzle stands at its *)
(* pump's and its tank's station and sells its tank's product.  And the    *)
(* price of a fleet customer: its active agreements quote one at most.     *)
(***************************************************************************)
EXTENDS Governance, MasterData, Fleet, FiniteSetTheorems, TLAPS

RequestRow(a) ==
  a = [status |-> a.status, amount |-> a.amount, required |-> a.required, approvals |-> a.approvals, by |-> a.by]

(* The counter a request carries is the number of its approvers: the       *)
(* decision rows and the counter are written together.                     *)
Counted(q) ==
  /\ RequestRow(approval[q])
  /\ approval[q].status \in {"requested", "approved", "rejected"}
  /\ approval[q].approvals = Cardinality(Approvers(q))
  /\ \A u \in Users : u = approval[q].by => decision[q][u] = "none"
  /\ approval[q].status # "rejected" => \A u \in Users : decision[q][u] # "reject"
  /\ approval[q].status = "approved" => approval[q].approvals >= approval[q].required

Undecided(q) == \A u \in Users : decision[q][u] = "none"

ApprovalInv ==
  /\ approval = [q \in ApprovalIds |-> approval[q]]
  /\ decision \in [ApprovalIds -> [Users -> {"none", "approve", "reject"}]]
  /\ \A q \in ApprovalIds : (approval[q] = Unset /\ Undecided(q)) \/ (approval[q] # Unset /\ Counted(q))

ChangeRow(x) == x = [period |-> x.period, type |-> x.type, status |-> x.status, by |-> x.by, decider |-> x.decider]

ChangeInv ==
  /\ change = [c \in ChangeIds |-> change[c]]
  /\ \A c \in ChangeIds : change[c] # Unset =>
       /\ ChangeRow(change[c])
       /\ change[c].status \in {"requested", "approved", "rejected"}
       /\ change[c].by \notin change[c].decider
  /\ \A d \in Periods : \A c1, c2 \in Pending(d) : c1 = c2

----------------------------------------------------------------------------
(* A row that is there has a status of its own.                            *)
LEMMA UnsetStatus == Unset.status = "unset"
BY DEF Unset

(* The approvers of a request are finitely many, and one more approver     *)
(* makes one more.                                                         *)
LEMMA OneMore ==
  ASSUME NEW A, NEW B, IsFiniteSet(A), NEW u, u \notin A, B = A \cup {u}
  PROVE  Cardinality(B) = Cardinality(A) + 1 /\ Cardinality(A) \in Nat
BY FS_AddElement, FS_CardinalityType

(* Raising a request starts its count at zero (RaiseRequest).              *)
LEMMA RaiseKeepsCount ==
  ASSUME ApprovalInv, NEW q \in ApprovalIds, NEW a \in Amounts, NEW by \in Users,
         handleRaiseApprovalRequest(q, a, by)
  PROVE  ApprovalInv'
<1> USE DEF handleRaiseApprovalRequest, RaiseRequest
<1>1. approval' = [x \in ApprovalIds |-> approval'[x]] /\ decision' = decision
  BY DEF ApprovalInv
<1>2. ASSUME NEW x \in ApprovalIds, x # q
      PROVE  approval'[x] = approval[x]
  BY <1>2 DEF ApprovalInv
<1>3. approval'[q] = [status |-> "requested", amount |-> a, required |-> resolvePolicy(a), approvals |-> 0, by |-> by]
  BY DEF ApprovalInv
<1>4. Undecided(q)
  BY DEF ApprovalInv
<1>5. Approvers(q)' = {}
  BY <1>1, <1>4 DEF Approvers, Undecided
<1>6. Counted(q)' /\ approval'[q] # Unset
  BY <1>1, <1>3, <1>4, <1>5, FS_EmptySet DEF Counted, RequestRow, Undecided, Unset
<1>7. ASSUME NEW x \in ApprovalIds, x # q
      PROVE  ((approval[x] = Unset /\ Undecided(x)) \/ (approval[x] # Unset /\ Counted(x)))'
  <2>1. Approvers(x)' = Approvers(x)
    BY <1>1 DEF Approvers
  <2>2. (approval[x] = Unset /\ Undecided(x)) \/ (approval[x] # Unset /\ Counted(x))
    BY DEF ApprovalInv
  <2> QED
    BY <1>1, <1>2, <1>7, <2>1, <2>2 DEF Undecided, Counted, RequestRow
<1> QED
  BY <1>1, <1>6, <1>7 DEF ApprovalInv

(* A decision adds its row and its approval together (Decide).             *)
LEMMA DecideKeepsCount ==
  ASSUME ApprovalInv, NEW q \in ApprovalIds, NEW by \in Users, NEW d \in {"approve", "reject"},
         handleDecideApproval(q, by, d)
  PROVE  ApprovalInv'
<1> USE DEF handleDecideApproval, Decide
<1>1. /\ approval' = [x \in ApprovalIds |-> approval'[x]]
      /\ decision' \in [ApprovalIds -> [Users -> {"none", "approve", "reject"}]]
      /\ decision'[q] = [decision[q] EXCEPT ![by] = d]
  BY DEF ApprovalInv
<1>2. ASSUME NEW x \in ApprovalIds, x # q
      PROVE  approval'[x] = approval[x] /\ decision'[x] = decision[x]
  BY <1>2 DEF ApprovalInv
<1>3. approval[q] # Unset /\ Counted(q) /\ MayDecide(q, by)
  BY DEF ApprovalInv
<1>4. \A u \in Users : decision'[q][u] = IF u = by THEN d ELSE decision[q][u]
  BY <1>1 DEF ApprovalInv
<1>5. by \notin Approvers(q) /\ IsFiniteSet(Approvers(q))
  BY <1>3, FS_Subset, GovernanceAssumption DEF Approvers, MayDecide
<1>6. ASSUME d = "reject" PROVE Counted(q)' /\ approval'[q] # Unset
  <2>1. approval'[q] = [approval[q] EXCEPT !.status = "rejected"]
    BY <1>6 DEF ApprovalInv
  <2>2. Approvers(q)' = Approvers(q)
    BY <1>3, <1>4, <1>6 DEF Approvers, MayDecide
  <2> QED
    BY <1>3, <1>4, <1>6, <2>1, <2>2 DEF Counted, RequestRow, MayDecide, Unset
<1>7. ASSUME d = "approve" PROVE Counted(q)' /\ approval'[q] # Unset
  <2>1. /\ approval'[q].status = IF approval[q].approvals + 1 >= approval[q].required THEN "approved" ELSE "requested"
        /\ approval'[q].approvals = approval[q].approvals + 1
        /\ approval'[q].required = approval[q].required /\ approval'[q].by = approval[q].by
        /\ RequestRow(approval'[q])
    BY <1>3, <1>7 DEF ApprovalInv, Counted, RequestRow
  <2>2. Approvers(q)' = Approvers(q) \cup {by}
    BY <1>4, <1>7 DEF Approvers
  <2>3. Cardinality(Approvers(q)') = Cardinality(Approvers(q)) + 1
    BY <1>5, <2>2, OneMore
  <2>4. \A u \in Users : decision'[q][u] # "reject"
    BY <1>3, <1>4, <1>7 DEF Counted, MayDecide
  <2>5. \A u \in Users : u = approval'[q].by => decision'[q][u] = "none"
    BY <1>3, <1>4, <2>1 DEF Counted, MayDecide
  <2>6. approval'[q].approvals = Cardinality(Approvers(q)')
    BY <1>3, <2>1, <2>3 DEF Counted
  <2>7. approval'[q].status = "approved" => approval'[q].approvals >= approval'[q].required
    BY <2>1
  <2>8. approval'[q].status \in {"requested", "approved"}
    BY <2>1
  <2>9. approval'[q] # Unset
    BY <2>8, UnsetStatus
  <2> QED
    BY <2>1, <2>4, <2>5, <2>6, <2>7, <2>8, <2>9 DEF Counted, RequestRow
<1>8. ASSUME NEW x \in ApprovalIds, x # q
      PROVE  ((approval[x] = Unset /\ Undecided(x)) \/ (approval[x] # Unset /\ Counted(x)))'
  <2>1. Approvers(x)' = Approvers(x)
    BY <1>2, <1>8 DEF Approvers
  <2>2. (approval[x] = Unset /\ Undecided(x)) \/ (approval[x] # Unset /\ Counted(x))
    BY DEF ApprovalInv
  <2> QED
    BY <1>2, <1>8, <2>1, <2>2 DEF Undecided, Counted, RequestRow
<1> QED
  BY <1>1, <1>6, <1>7, <1>8 DEF ApprovalInv

(* The other handlers leave the requests and the decisions alone.          *)
LEMMA ApprovalInvKept ==
  ASSUME ApprovalInv, approval' = approval, decision' = decision
  PROVE  ApprovalInv'
<1>1. \A q \in ApprovalIds : Approvers(q)' = Approvers(q)
  BY DEF Approvers
<1> QED
  BY <1>1 DEF ApprovalInv, Counted, RequestRow, Undecided

LEMMA ApprovalStep == ApprovalInv /\ [GovernanceNext]_governanceTables => ApprovalInv'
<1> SUFFICES ASSUME ApprovalInv, [GovernanceNext]_governanceTables
             PROVE  ApprovalInv'
  OBVIOUS
<1>1. CASE ScopeNext
  BY <1>1, ApprovalInvKept
     DEF ScopeNext, handleCreateStationGroup, handleAddGroupMember, handleGrantScope, approvalTables
<1>2. CASE ApprovalNext
  <2>1. CASE \E p \in Policies, min \in Amounts, n \in Quorums :
               handleCreateApprovalPolicy(p, min, n) \/ handleUpdateApprovalPolicy(p, min, n)
    BY <2>1, ApprovalInvKept DEF handleCreateApprovalPolicy, handleUpdateApprovalPolicy
  <2>2. CASE \E p \in Policies, s \in {"active", "archived"} : handleSetApprovalPolicyStatus(p, s)
    BY <2>2, ApprovalInvKept DEF handleSetApprovalPolicyStatus
  <2>3. CASE \E q \in ApprovalIds, a \in Amounts, u \in Users : handleRaiseApprovalRequest(q, a, u)
    BY <2>3, RaiseKeepsCount
  <2>4. CASE \E q \in ApprovalIds, u \in Users, d \in {"approve", "reject"} : handleDecideApproval(q, u, d)
    BY <2>4, DecideKeepsCount
  <2> QED
    BY <1>2, <2>1, <2>2, <2>3, <2>4 DEF ApprovalNext
<1>3. CASE RetentionNext
  BY <1>3, ApprovalInvKept
     DEF RetentionNext, handleCreateRetentionPolicy, handleUpdateRetentionPolicy, handleDeleteRetentionPolicy,
         MovePeriod, handleRequestPeriodChange, decidePeriodChange, approvalTables
<1>4. CASE UNCHANGED governanceTables
  BY <1>4, ApprovalInvKept DEF governanceTables, approvalTables
<1> QED
  BY <1>1, <1>2, <1>3, <1>4 DEF GovernanceNext

(* The counter reaches what was asked for only when that many people, none *)
(* of them the author, have approved and nobody has rejected.              *)
LEMMA CountIsEnough == ApprovalInv => ApprovedByEnough
<1> SUFFICES ASSUME ApprovalInv, NEW q \in ApprovalIds, approval[q] # Unset, approval[q].status = "approved"
             PROVE  /\ Cardinality(Approvers(q)) >= approval[q].required
                    /\ approval[q].by \notin Approvers(q)
                    /\ \A u \in Users : decision[q][u] # "reject"
  BY DEF ApprovedByEnough
<1>1. Counted(q)
  BY DEF ApprovalInv
<1>2. Cardinality(Approvers(q)) >= approval[q].required
  BY <1>1 DEF Counted
<1>3. approval[q].by \notin Approvers(q) /\ \A u \in Users : decision[q][u] # "reject"
  BY <1>1 DEF Counted, Approvers
<1> QED
  BY <1>2, <1>3

(* In every reachable state an approved request has as many different      *)
(* approvers as it asked for when it was raised, its author not among      *)
(* them, and nobody against it (Decide, RaiseRequest).                     *)
THEOREM EnoughApprove == GovernanceSpec => []ApprovedByEnough
<1>1. GovernanceInit => ApprovalInv
  <2> SUFFICES ASSUME GovernanceInit
               PROVE  ApprovalInv
    OBVIOUS
  <2>1. approval = [q \in ApprovalIds |-> Unset] /\ decision = [q \in ApprovalIds |-> [u \in Users |-> "none"]]
    BY DEF GovernanceInit
  <2>2. decision \in [ApprovalIds -> [Users -> {"none", "approve", "reject"}]]
    BY <2>1
  <2>3. \A q \in ApprovalIds : approval[q] = Unset /\ Undecided(q)
    BY <2>1 DEF Undecided
  <2>4. approval = [q \in ApprovalIds |-> approval[q]]
    BY <2>1
  <2> QED
    BY <2>2, <2>3, <2>4 DEF ApprovalInv
<1> QED
  BY <1>1, ApprovalStep, CountIsEnough, PTL DEF GovernanceSpec

----------------------------------------------------------------------------
(* Two elements of a set that are never different make one at most.        *)
LEMMA AtMostOne ==
  ASSUME NEW A, \A x, y \in A : x = y
  PROVE  Cardinality(A) <= 1
<1>1. CASE A = {}
  BY <1>1, FS_EmptySet
<1>2. CASE A # {}
  <2>1. PICK x : x \in A
    BY <1>2
  <2>2. A = {x}
    BY <2>1
  <2> QED
    BY <2>2, FS_Singleton
<1> QED
  BY <1>1, <1>2

(* A new request meets no pending one of its period (uq_cpcr_pending).     *)
LEMMA RequestKeepsOne ==
  ASSUME ChangeInv, NEW c \in ChangeIds, NEW d \in Periods, NEW by \in Users, NEW type,
         handleRequestPeriodChange(c, d, by, type)
  PROVE  ChangeInv'
<1> USE DEF handleRequestPeriodChange, RequestChange
<1>1. /\ change' = [x \in ChangeIds |-> change'[x]]
      /\ change'[c] = [period |-> d, type |-> type, status |-> "requested", by |-> by, decider |-> {}]
      /\ \A x \in ChangeIds \ {c} : change'[x] = change[x]
  BY DEF ChangeInv
<1>2. ASSUME NEW x \in ChangeIds, change'[x] # Unset
      PROVE  /\ ChangeRow(change'[x])
             /\ change'[x].status \in {"requested", "approved", "rejected"}
             /\ change'[x].by \notin change'[x].decider
  <2>1. CASE x = c
    BY <1>1, <2>1 DEF ChangeRow
  <2>2. CASE x # c
    BY <1>1, <1>2, <2>2 DEF ChangeInv, ChangeRow
  <2> QED
    BY <2>1, <2>2
<1>3. ASSUME NEW e \in Periods, NEW c1 \in Pending(e)', NEW c2 \in Pending(e)'
      PROVE  c1 = c2
  <2>1. ASSUME NEW x \in Pending(e)', x # c
        PROVE  x \in Pending(e)
    BY <1>1, <2>1 DEF Pending
  <2>2. c \in Pending(e)' => e = d
    BY <1>1 DEF Pending
  <2> QED
    BY <2>1, <2>2 DEF NonePending, ChangeInv
<1> QED
  BY <1>1, <1>2, <1>3 DEF ChangeInv, ChangeRow

(* A decision names another user than the author (decideChange).           *)
LEMMA DecisionKeepsOne ==
  ASSUME ChangeInv, NEW c \in ChangeIds, NEW by \in Users, decidePeriodChange(c, by)
  PROVE  ChangeInv'
<1>1. PICK to \in {"approved", "rejected"} : decideChange(c, by, to)
  BY DEF decidePeriodChange, ApproveChange, RejectChange
<1>2. ChangeRow(change[c]) /\ change[c].by # by
  BY <1>1 DEF ChangeInv, decideChange
<1>3. /\ change' = [x \in ChangeIds |-> change'[x]]
      /\ change'[c] = [change[c] EXCEPT !.status = to, !.decider = {by}]
      /\ \A x \in ChangeIds \ {c} : change'[x] = change[x]
  BY <1>1 DEF ChangeInv, decideChange
<1>4. change'[c] = [period |-> change[c].period, type |-> change[c].type, status |-> to,
                    by |-> change[c].by, decider |-> {by}]
  BY <1>2, <1>3 DEF ChangeRow
<1>5. ASSUME NEW x \in ChangeIds, change'[x] # Unset
      PROVE  /\ ChangeRow(change'[x])
             /\ change'[x].status \in {"requested", "approved", "rejected"}
             /\ change'[x].by \notin change'[x].decider
  <2>1. CASE x = c
    BY <1>2, <1>4, <2>1 DEF ChangeRow
  <2>2. CASE x # c
    BY <1>3, <1>5, <2>2 DEF ChangeInv, ChangeRow
  <2> QED
    BY <2>1, <2>2
<1>6. ASSUME NEW e \in Periods, NEW x \in Pending(e)'
      PROVE  x \in Pending(e)
  BY <1>3, <1>4, <1>6 DEF Pending
<1> QED
  BY <1>3, <1>5, <1>6 DEF ChangeInv, ChangeRow

(* The other handlers leave the change requests alone.                     *)
LEMMA ChangeInvKept ==
  ASSUME ChangeInv, change' = change
  PROVE  ChangeInv'
BY DEF ChangeInv, ChangeRow, Pending

LEMMA ChangeStep == ChangeInv /\ [GovernanceNext]_governanceTables => ChangeInv'
<1> SUFFICES ASSUME ChangeInv, [GovernanceNext]_governanceTables
             PROVE  ChangeInv'
  OBVIOUS
<1>1. CASE ScopeNext
  BY <1>1, ChangeInvKept
     DEF ScopeNext, handleCreateStationGroup, handleAddGroupMember, handleGrantScope, retentionTables
<1>2. CASE ApprovalNext
  BY <1>2, ChangeInvKept
     DEF ApprovalNext, handleCreateApprovalPolicy, handleUpdateApprovalPolicy, handleSetApprovalPolicyStatus,
         handleRaiseApprovalRequest, handleDecideApproval, retentionTables
<1>3. CASE RetentionNext
  <2>1. CASE \E s \in RetentionScopes : \/ handleDeleteRetentionPolicy(s)
                                        \/ \E days \in {1, 2} : \/ handleCreateRetentionPolicy(s, days)
                                                                \/ handleUpdateRetentionPolicy(s, days)
    BY <2>1, ChangeInvKept
       DEF handleCreateRetentionPolicy, handleUpdateRetentionPolicy, handleDeleteRetentionPolicy,
           CreateRetentionPolicy, UpdateRetentionPolicy, DeleteRetentionPolicy, RetainFor
  <2>2. CASE \E d \in Periods, s \in {"open", "closed", "locked"} : MovePeriod(d, s)
    BY <2>2, ChangeInvKept DEF MovePeriod
  <2>3. CASE \E c \in ChangeIds, d \in Periods, u \in Users, t \in {"reopen", "relock"} :
               handleRequestPeriodChange(c, d, u, t)
    BY <2>3, RequestKeepsOne
  <2>4. CASE \E c \in ChangeIds, u \in Users : decidePeriodChange(c, u)
    BY <2>4, DecisionKeepsOne
  <2> QED
    BY <1>3, <2>1, <2>2, <2>3, <2>4 DEF RetentionNext
<1>4. CASE UNCHANGED governanceTables
  BY <1>4, ChangeInvKept DEF governanceTables, retentionTables
<1> QED
  BY <1>1, <1>2, <1>3, <1>4 DEF GovernanceNext

(* In every reachable state a closed period has one pending request at     *)
(* most and no request is decided by its author (RequestChange,            *)
(* decideChange).                                                          *)
THEOREM IndependentChanges == GovernanceSpec => []ChangesAreIndependent
<1>1. GovernanceInit => ChangeInv
  BY DEF GovernanceInit, ChangeInv, Pending
<1>2. ChangeInv => ChangesAreIndependent
  BY AtMostOne DEF ChangeInv, ChangesAreIndependent
<1> QED
  BY <1>1, <1>2, ChangeStep, PTL DEF GovernanceSpec

----------------------------------------------------------------------------
TankRow(x) == x = [status |-> x.status, station |-> x.station, product |-> x.product]
PumpRow(x) == x = [status |-> x.status, station |-> x.station, number |-> x.number]
NozzleRow(x) == x = [status |-> x.status, station |-> x.station, pump |-> x.pump, tank |-> x.tank,
                     product |-> x.product, number |-> x.number]

Tabled ==
  /\ tanks = [t \in TankIds |-> tanks[t]] /\ \A t \in TankIds : tanks[t] # Row => TankRow(tanks[t])
  /\ pumps = [p \in PumpIds |-> pumps[p]] /\ \A p \in PumpIds : pumps[p] # Row => PumpRow(pumps[p])
  /\ nozzles = [n \in NozzleIds |-> nozzles[n]]

(* What both keys say of a nozzle's row, and that the rows it names exist. *)
Keyed(x) ==
  /\ NozzleRow(x)
  /\ x.pump \in PumpIds /\ pumps[x.pump] # Row /\ pumps[x.pump].station = x.station
  /\ x.tank \in TankIds /\ tanks[x.tank] # Row /\ tanks[x.tank].station = x.station /\ tanks[x.tank].product = x.product

(* A nozzle waiting to be written is a whole row.                          *)
Prepared == \A q \in pending : q[1] = "nozzle" => NozzleRow(q[3])

KeyInv == Tabled /\ Prepared /\ \A n \in NozzleIds : nozzles[n] # Row => Keyed(nozzles[n])

(* Rows the keys refer to are there before and after, with the same keys.  *)
KeysStay ==
  /\ \A p \in PumpIds : pumps[p] # Row => pumps'[p] # Row /\ pumps'[p].station = pumps[p].station
  /\ \A t \in TankIds : tanks[t] # Row =>
       /\ tanks'[t] # Row /\ tanks'[t].station = tanks[t].station
       /\ tanks'[t].product = tanks[t].product \/ ~ \E n \in NozzleIds : nozzles[n] # Row /\ nozzles[n].tank = t

LEMMA KeyedKept ==
  ASSUME KeyInv, KeysStay, Tabled', Prepared', nozzles' = nozzles
  PROVE  KeyInv'
<1> SUFFICES ASSUME NEW n \in NozzleIds, nozzles[n] # Row
             PROVE  Keyed(nozzles[n])'
  BY DEF KeyInv
<1>1. Keyed(nozzles[n])
  BY DEF KeyInv
<1> QED
  BY <1>1 DEF Keyed, KeysStay, NozzleRow

(* A request accepted, other than a nozzle's creation, or ended keeps      *)
(* every waiting nozzle whole.                                             *)
LEMMA WaitingStaysWhole ==
  ASSUME Prepared, \/ UNCHANGED pending
                   \/ \E q : Accepted(q) /\ q[1] # "nozzle"
                   \/ \E q : Performed(q)
  PROVE  Prepared'
BY DEF Prepared, Accepted, Performed, NozzleRow

LEMMA AcceptedStaysWhole ==
  ASSUME Prepared, NEW q, Accepted(q), q[1] # "nozzle"
  PROVE  Prepared'
BY WaitingStaysWhole

LEMMA PerformedStaysWhole ==
  ASSUME Prepared, NEW q, Performed(q)
  PROVE  Prepared'
BY WaitingStaysWhole

(* Handlers that write none of the three tables.                           *)
LEMMA OthersKeepKeys ==
  ASSUME KeyInv, UNCHANGED <<tanks, pumps, nozzles>>, Prepared'
  PROVE  KeyInv'
<1>1. Tabled' /\ KeysStay
  BY DEF KeyInv, Tabled, KeysStay, TankRow, PumpRow
<1> QED
  BY <1>1, KeyedKept

(* Companies, regions and stations.                                        *)
LEMMA EstateKeepsKeys ==
  ASSUME KeyInv, EstateNext
  PROVE  KeyInv'
<1> USE DEF forecourtTables
<1>1. UNCHANGED <<tanks, pumps, nozzles>>
  BY DEF EstateNext, handleCreateCompany, handleUpdateCompany, handleDeleteCompany, handleCreateRegion,
         handleUpdateRegion, handleDeleteRegion, handleCreateStation, handleUpdateStation, handleDeleteStation, Dropped
<1>2. \/ UNCHANGED pending
      \/ \E q : Accepted(q) /\ q[1] # "nozzle"
      \/ \E q : Performed(q)
  <2>1. CASE \E g \in AreaIds, c \in FirmIds : handleCreateRegion(g, c)
    BY <2>1 DEF handleCreateRegion
  <2>2. CASE \E s \in PitchIds, c \in FirmIds, gs \in {{}} \cup {{g} : g \in AreaIds} : handleCreateStation(s, c, gs)
    BY <2>2 DEF handleCreateStation
  <2>3. CASE Dropped
    BY <2>3 DEF Dropped, Performed
  <2> QED
    BY <2>1, <2>2, <2>3
       DEF EstateNext, handleCreateCompany, handleUpdateCompany, handleDeleteCompany,
           handleUpdateRegion, handleDeleteRegion, handleUpdateStation, handleDeleteStation
<1> QED
  BY <1>1, <1>2, WaitingStaysWhole, OthersKeepKeys DEF KeyInv

(* Charts and dips.                                                        *)
LEMMA DipsKeepKeys ==
  ASSUME KeyInv, DipNext
  PROVE  KeyInv'
<1> USE DEF forecourtTables
<1>1. UNCHANGED <<tanks, pumps, nozzles>>
  BY DEF DipNext, handleUploadCalibrationChart, handleCaptureDipReading, handleCorrectDipReading, WatchEnds, Dropped
<1>2. \/ UNCHANGED pending
      \/ \E q : Accepted(q) /\ q[1] # "nozzle"
      \/ \E q : Performed(q)
  <2>1. ASSUME NEW t, NEW ty, NEW d, handleCaptureDipReading(t, ty, d)
        PROVE  (\E q : Accepted(q) /\ q[1] # "nozzle") \/ (\E q : Performed(q))
    <3>1. CASE \E v \in Lookup(t, d) : Accepted(<<"dip", t, ty, d, v>>)
      <4>1. PICK v \in Lookup(t, d) : Accepted(<<"dip", t, ty, d, v>>)
        BY <3>1
      <4>2. (<<"dip", t, ty, d, v>>)[1] # "nozzle"
        OBVIOUS
      <4> QED
        BY <4>1, <4>2
    <3>2. CASE \E q \in pending : Performed(q)
      BY <3>2
    <3> QED
      BY <2>1, <3>1, <3>2 DEF handleCaptureDipReading
  <2>2. ASSUME NEW i, NEW d, handleCorrectDipReading(i, d)
        PROVE  (\E q : Accepted(q) /\ q[1] # "nozzle") \/ (\E q : Performed(q))
    <3>1. CASE \E v \in Lookup(dips[i].tank, d) : Accepted(<<"correct", i, d, v>>)
      <4>1. PICK v \in Lookup(dips[i].tank, d) : Accepted(<<"correct", i, d, v>>)
        BY <3>1
      <4>2. (<<"correct", i, d, v>>)[1] # "nozzle"
        OBVIOUS
      <4> QED
        BY <4>1, <4>2
    <3>2. CASE \E q \in pending : Performed(q)
      BY <3>2
    <3> QED
      BY <2>2, <3>1, <3>2 DEF handleCorrectDipReading
  <2>3. CASE Dropped
    BY <2>3 DEF Dropped, Performed
  <2> QED
    BY <2>1, <2>2, <2>3 DEF DipNext, handleUploadCalibrationChart, WatchEnds
<1> QED
  BY <1>1, <1>2, WaitingStaysWhole, OthersKeepKeys DEF KeyInv

(* A written tank keeps its station, and its product when a nozzle names   *)
(* it; a written pump keeps its station.                                   *)
LEMMA TankWriteKeepsKeys ==
  ASSUME KeyInv, NEW t \in TankIds, NEW r, tanks' = [tanks EXCEPT ![t] = r], UNCHANGED <<pumps, nozzles>>, Prepared',
         TankRow(r), r.status # "none",
         tanks[t] # Row => r.station = tanks[t].station,
         tanks[t] # Row => \/ r.product = tanks[t].product
                          \/ ~ \E n \in NozzleIds : nozzles[n] # Row /\ nozzles[n].tank = t
  PROVE  KeyInv'
<1>1. r # Row
  <2>1. Row.status = "none"
    BY DEF Row
  <2> QED
    BY <2>1
<1>2. tanks'[t] = r /\ \A x \in TankIds \ {t} : tanks'[x] = tanks[x]
  BY DEF KeyInv, Tabled
<1>3. Tabled'
  BY <1>2 DEF KeyInv, Tabled, TankRow, PumpRow
<1>4. KeysStay
  BY <1>1, <1>2 DEF KeysStay
<1> QED
  BY <1>3, <1>4, KeyedKept

LEMMA PumpWriteKeepsKeys ==
  ASSUME KeyInv, NEW p \in PumpIds, NEW r, pumps' = [pumps EXCEPT ![p] = r], UNCHANGED <<tanks, nozzles>>, Prepared',
         PumpRow(r), r.status # "none",
         pumps[p] # Row => r.station = pumps[p].station
  PROVE  KeyInv'
<1>1. r # Row
  <2>1. Row.status = "none"
    BY DEF Row
  <2> QED
    BY <2>1
<1>2. pumps'[p] = r /\ \A x \in PumpIds \ {p} : pumps'[x] = pumps[x]
  BY DEF KeyInv, Tabled
<1>3. Tabled'
  BY <1>2 DEF KeyInv, Tabled, TankRow, PumpRow
<1>4. KeysStay
  BY <1>1, <1>2 DEF KeysStay
<1> QED
  BY <1>3, <1>4, KeyedKept

(* A row with another status keeps its other columns.                      *)
LEMMA StatusWrites ==
  ASSUME KeyInv, NEW st
  PROVE  /\ \A t \in TankIds : tanks[t] # Row =>
              [tanks[t] EXCEPT !.status = st] = [status |-> st, station |-> tanks[t].station, product |-> tanks[t].product]
         /\ \A p \in PumpIds : pumps[p] # Row =>
              [pumps[p] EXCEPT !.status = st] = [status |-> st, station |-> pumps[p].station, number |-> pumps[p].number]
BY DEF KeyInv, Tabled, TankRow, PumpRow

LEMMA ListedIsThere ==
  ASSUME NEW x, Listed(x)
  PROVE  x # Row
BY DEF Listed, Row

(* The tank's handlers.                                                    *)
LEMMA TanksKeepKeys ==
  ASSUME KeyInv, NEW t \in TankIds,
         \/ \E s \in PitchIds, p \in GradeIds : handleCreateTank(t, s, p)
         \/ \E ps \in {{}} \cup {{p} : p \in GradeIds} : handleUpdateTank(t, ps)
         \/ \E st \in Lifecycle : handleUpdateTankStatus(t, st)
         \/ handleDeleteTank(t)
  PROVE  KeyInv'
<1>1. ASSUME NEW s, NEW p, handleCreateTank(t, s, p) PROVE KeyInv'
  <2>1. UNCHANGED <<pumps, nozzles>> /\ Prepared'
    <3>1. (<<"tank", t, s, p>>)[1] # "nozzle"
      OBVIOUS
    <3> QED
      BY <1>1, <3>1, AcceptedStaysWhole, PerformedStaysWhole DEF handleCreateTank, KeyInv
  <2>2. CASE UNCHANGED tanks
    BY <2>1, <2>2, OthersKeepKeys
  <2>3. CASE CreateTank(t, s, p)
    <3> DEFINE r == [status |-> "active", station |-> s, product |-> p]
    <3>1. TankRow(r) /\ r.status # "none"
      BY DEF TankRow
    <3>2. tanks[t] = Row /\ tanks' = [tanks EXCEPT ![t] = r]
      BY <2>3 DEF CreateTank
    <3> HIDE DEF r
    <3> QED
      BY <2>1, <3>1, <3>2, TankWriteKeepsKeys
  <2> QED
    BY <1>1, <2>2, <2>3 DEF handleCreateTank
<1>2. ASSUME NEW ps \in {{}} \cup {{p} : p \in GradeIds}, handleUpdateTank(t, ps) PROVE KeyInv'
  <2>1. UNCHANGED <<pumps, nozzles>> /\ Prepared'
    <3>1. (<<"set tank", t, ps>>)[1] # "nozzle"
      OBVIOUS
    <3> QED
      BY <1>2, <3>1, AcceptedStaysWhole, PerformedStaysWhole DEF handleUpdateTank, KeyInv
  <2>2. CASE UNCHANGED tanks
    BY <2>1, <2>2, OthersKeepKeys
  <2>3. CASE UpdateTank(t, ps)
    <3> DEFINE new == IF ps = {} THEN tanks[t].product ELSE CHOOSE p \in ps : TRUE
               r == [status |-> tanks[t].status, station |-> tanks[t].station, product |-> new]
    <3>1. tanks[t] # Row /\ tanks[t].status # "none"
      BY <2>3, ListedIsThere DEF UpdateTank, GetTank, Listed
    <3>2. tanks' = [tanks EXCEPT ![t] = r]
      <4>1. tanks' = [tanks EXCEPT ![t] = [tanks[t] EXCEPT !.product = new]]
        BY <2>3 DEF UpdateTank
      <4> HIDE DEF new
      <4>2. [tanks[t] EXCEPT !.product = new] = r
        BY <3>1 DEF KeyInv, Tabled, TankRow
      <4> QED
        BY <4>1, <4>2
    <3>3. ASSUME NEW n \in NozzleIds, nozzles[n] # Row, nozzles[n].tank = t
          PROVE  new = tanks[t].product
      BY <2>3, <3>3 DEF UpdateTank, KeyInv, Keyed
    <3>4. TankRow(r) /\ r.status # "none" /\ r.station = tanks[t].station
      BY <3>1 DEF TankRow
    <3> QED
      BY <2>1, <3>2, <3>3, <3>4, TankWriteKeepsKeys
  <2> QED
    BY <1>2, <2>2, <2>3 DEF handleUpdateTank
<1>3. ASSUME NEW st \in Lifecycle \cup {"deleted"}, GetTank(t), tanks' = [tanks EXCEPT ![t].status = st],
             UNCHANGED <<pumps, nozzles>>, Prepared'
      PROVE  KeyInv'
  <2> DEFINE r == [status |-> st, station |-> tanks[t].station, product |-> tanks[t].product]
  <2>1. tanks[t] # Row
    BY <1>3, ListedIsThere DEF GetTank
  <2>2. tanks' = [tanks EXCEPT ![t] = r]
    BY <1>3, <2>1, StatusWrites
  <2>3. TankRow(r) /\ r.status # "none" /\ r.station = tanks[t].station /\ r.product = tanks[t].product
    BY DEF TankRow, Lifecycle
  <2> QED
    BY <1>3, <2>2, <2>3, TankWriteKeepsKeys
<1>4. ASSUME NEW st \in Lifecycle, handleUpdateTankStatus(t, st) PROVE KeyInv'
  <2>1. UNCHANGED <<pumps, nozzles>> /\ Prepared'
    <3>1. (<<"tank status", t, st>>)[1] # "nozzle"
      OBVIOUS
    <3> QED
      BY <1>4, <3>1, AcceptedStaysWhole, PerformedStaysWhole DEF handleUpdateTankStatus, KeyInv
  <2> QED
    BY <1>3, <1>4, <2>1, OthersKeepKeys DEF handleUpdateTankStatus, UpdateTankStatus
<1>5. ASSUME handleDeleteTank(t) PROVE KeyInv'
  <2>1. UNCHANGED <<pumps, nozzles>> /\ Prepared'
    <3>1. (<<"drop tank", t>>)[1] # "nozzle"
      OBVIOUS
    <3> QED
      BY <1>5, <3>1, AcceptedStaysWhole, PerformedStaysWhole DEF handleDeleteTank, KeyInv
  <2> QED
    BY <1>3, <1>5, <2>1, OthersKeepKeys DEF handleDeleteTank, SoftDeleteTank
<1> QED
  BY <1>1, <1>2, <1>4, <1>5

(* The pump's handlers.                                                    *)
LEMMA PumpsKeepKeys ==
  ASSUME KeyInv, NEW p \in PumpIds,
         \/ \E s \in PitchIds, k \in Numbers : handleCreatePump(p, s, k)
         \/ \E k \in Numbers : handleUpdatePump(p, k)
         \/ \E st \in Lifecycle : handleUpdatePumpStatus(p, st)
         \/ handleDeletePump(p)
  PROVE  KeyInv'
<1>1. ASSUME NEW s, NEW k, handleCreatePump(p, s, k) PROVE KeyInv'
  <2>1. UNCHANGED <<tanks, nozzles>> /\ Prepared'
    <3>1. (<<"pump", p, s, k>>)[1] # "nozzle"
      OBVIOUS
    <3> QED
      BY <1>1, <3>1, AcceptedStaysWhole, PerformedStaysWhole DEF handleCreatePump, KeyInv
  <2>2. CASE UNCHANGED pumps
    BY <2>1, <2>2, OthersKeepKeys
  <2>3. CASE CreatePump(p, s, k)
    <3> DEFINE r == [status |-> "active", station |-> s, number |-> k]
    <3>1. PumpRow(r) /\ r.status # "none"
      BY DEF PumpRow
    <3>2. pumps[p] = Row /\ pumps' = [pumps EXCEPT ![p] = r]
      BY <2>3 DEF CreatePump
    <3> HIDE DEF r
    <3> QED
      BY <2>1, <3>1, <3>2, PumpWriteKeepsKeys
  <2> QED
    BY <1>1, <2>2, <2>3 DEF handleCreatePump
<1>2. ASSUME NEW k, handleUpdatePump(p, k) PROVE KeyInv'
  <2> DEFINE r == [status |-> pumps[p].status, station |-> pumps[p].station, number |-> k]
  <2>1. UNCHANGED <<tanks, nozzles>> /\ Prepared'
    BY <1>2, WaitingStaysWhole DEF handleUpdatePump, KeyInv
  <2>2. pumps[p] # Row /\ pumps[p].status # "none"
    BY <1>2, ListedIsThere DEF handleUpdatePump, UpdatePump, GetPump, Listed
  <2>3. pumps' = [pumps EXCEPT ![p] = [pumps[p] EXCEPT !.number = k]]
    BY <1>2 DEF handleUpdatePump, UpdatePump
  <2>4. [pumps[p] EXCEPT !.number = k] = r
    BY <2>2 DEF KeyInv, Tabled, PumpRow
  <2>5. PumpRow(r) /\ r.status # "none" /\ r.station = pumps[p].station
    BY <2>2 DEF PumpRow
  <2> HIDE DEF r
  <2> QED
    BY <2>1, <2>3, <2>4, <2>5, PumpWriteKeepsKeys
<1>3. ASSUME NEW st \in Lifecycle \cup {"deleted"}, GetPump(p), pumps' = [pumps EXCEPT ![p].status = st],
             UNCHANGED <<tanks, nozzles>>, Prepared'
      PROVE  KeyInv'
  <2> DEFINE r == [status |-> st, station |-> pumps[p].station, number |-> pumps[p].number]
  <2>1. pumps[p] # Row
    BY <1>3, ListedIsThere DEF GetPump
  <2>2. pumps' = [pumps EXCEPT ![p] = r]
    BY <1>3, <2>1, StatusWrites
  <2>3. PumpRow(r) /\ r.status # "none" /\ r.station = pumps[p].station
    BY DEF PumpRow, Lifecycle
  <2> QED
    BY <1>3, <2>2, <2>3, PumpWriteKeepsKeys
<1>4. ASSUME NEW st \in Lifecycle, handleUpdatePumpStatus(p, st) PROVE KeyInv'
  <2>1. UNCHANGED <<tanks, nozzles>> /\ Prepared'
    <3>1. (<<"pump status", p, st>>)[1] # "nozzle"
      OBVIOUS
    <3> QED
      BY <1>4, <3>1, AcceptedStaysWhole, PerformedStaysWhole DEF handleUpdatePumpStatus, KeyInv
  <2> QED
    BY <1>3, <1>4, <2>1, OthersKeepKeys DEF handleUpdatePumpStatus, UpdatePumpStatus
<1>5. ASSUME handleDeletePump(p) PROVE KeyInv'
  <2>1. UNCHANGED <<tanks, nozzles>> /\ Prepared'
    <3>1. (<<"drop pump", p>>)[1] # "nozzle"
      OBVIOUS
    <3> QED
      BY <1>5, <3>1, AcceptedStaysWhole, PerformedStaysWhole DEF handleDeletePump, KeyInv
  <2> QED
    BY <1>3, <1>5, <2>1, OthersKeepKeys DEF handleDeletePump, SoftDeletePump
<1> QED
  BY <1>1, <1>2, <1>4, <1>5

(* A nozzle's row is written whole and meets both keys.                    *)
LEMMA NozzleWriteKeepsKeys ==
  ASSUME KeyInv, NEW n \in NozzleIds, NEW r, nozzles' = [nozzles EXCEPT ![n] = r], UNCHANGED <<tanks, pumps>>, Prepared',
         Keyed(r)
  PROVE  KeyInv'
<1>1. nozzles'[n] = r /\ \A x \in NozzleIds \ {n} : nozzles'[x] = nozzles[x]
  BY DEF KeyInv, Tabled
<1>2. Tabled'
  BY <1>1 DEF KeyInv, Tabled, TankRow, PumpRow
<1>3. ASSUME NEW x \in NozzleIds, nozzles'[x] # Row PROVE Keyed(nozzles[x])'
  <2>1. CASE x = n
    BY <1>1, <2>1 DEF Keyed, NozzleRow
  <2>2. CASE x # n
    <3>1. Keyed(nozzles[x]) /\ nozzles'[x] = nozzles[x]
      BY <1>1, <1>3, <2>2 DEF KeyInv
    <3> QED
      BY <3>1 DEF Keyed, NozzleRow
  <2> QED
    BY <2>1, <2>2
<1> QED
  BY <1>2, <1>3 DEF KeyInv

(* What a change of status makes of a nozzle's row.                        *)
LEMMA NozzleWrites ==
  ASSUME NEW x, NozzleRow(x), NEW st
  PROVE  [x EXCEPT !.status = st]
           = [status |-> st, station |-> x.station, pump |-> x.pump, tank |-> x.tank, product |-> x.product, number |-> x.number]
BY DEF NozzleRow

(* The nozzle's handlers. What the request read through the pool may be    *)
(* stale when it writes; the keys are checked on the row it writes.        *)
LEMMA NozzlesKeepKeys ==
  ASSUME KeyInv, NEW n \in NozzleIds,
         \/ \E p \in PumpIds, t \in TankIds, k \in Numbers : handleCreateNozzle(n, p, t, k)
         \/ \E ts \in {{}} \cup {{t} : t \in TankIds}, ks \in {{}} \cup {{k} : k \in Numbers} :
              \E st \in {"active", "inactive", "deleted"} : handleUpdateNozzle(n, ts, ks, st)
         \/ handleSetNozzleInitialMeter(n)
         \/ handleDeleteNozzle(n)
  PROVE  KeyInv'
<1>1. ASSUME NEW p \in PumpIds, NEW t \in TankIds, NEW k, handleCreateNozzle(n, p, t, k) PROVE KeyInv'
  <2>1. UNCHANGED <<tanks, pumps>>
    BY <1>1 DEF handleCreateNozzle
  <2> DEFINE r == [status |-> "active", station |-> pumps[p].station, pump |-> p, tank |-> t,
                   product |-> tanks[t].product, number |-> k]
  <2>2. CASE Accepted(<<"nozzle", n, r>>) /\ UNCHANGED nozzles
    <3>1. NozzleRow(r)
      BY DEF NozzleRow
    <3> HIDE DEF r
    <3>2. (<<"nozzle", n, r>>)[3] = r
      OBVIOUS
    <3>3. Prepared'
      BY <2>2, <3>1, <3>2 DEF KeyInv, Prepared, Accepted, NozzleRow
    <3> QED
      BY <2>1, <2>2, <3>3, OthersKeepKeys
  <2>3. ASSUME NEW q \in pending, q[1] = "nozzle", q[3].tank = t, Performed(q), CreateNozzle(n, q[3]) PROVE KeyInv'
    <3>1. Prepared'
      BY <2>3, PerformedStaysWhole DEF KeyInv
    <3>2. Keyed(q[3])
      BY <2>3 DEF KeyInv, Prepared, Keyed, CreateNozzle, nozzles_pump_fk, nozzles_tank_fk
    <3> QED
      BY <2>1, <2>3, <3>1, <3>2, NozzleWriteKeepsKeys DEF CreateNozzle
  <2> QED
    BY <1>1, <2>2, <2>3 DEF handleCreateNozzle
<1>2. ASSUME NEW ts \in {{}} \cup {{t} : t \in TankIds}, NEW ks, NEW st, handleUpdateNozzle(n, ts, ks, st) PROVE KeyInv'
  <2>1. UNCHANGED <<tanks, pumps>> /\ ts \subseteq TankIds
    BY <1>2 DEF handleUpdateNozzle
  <2> DEFINE rows == {[tank |-> t, station |-> tanks[t].station, product |-> tanks[t].product] : t \in ts}
  <2>2. CASE Accepted(<<"set nozzle", n, <<ks, st>>, rows>>) /\ UNCHANGED nozzles
    <3> HIDE DEF rows
    <3>1. (<<"set nozzle", n, <<ks, st>>, rows>>)[1] # "nozzle"
      OBVIOUS
    <3> QED
      BY <2>1, <2>2, <3>1, AcceptedStaysWhole, OthersKeepKeys DEF KeyInv
  <2>3. ASSUME NEW q \in pending, {x.tank : x \in q[4]} = ts, Performed(q), UpdateNozzle(n, q[4], ks, st) PROVE KeyInv'
    <3>1. Prepared'
      BY <2>3, PerformedStaysWhole DEF KeyInv
    <3> DEFINE from == IF q[4] = {} THEN nozzles[n] ELSE CHOOSE x \in q[4] : TRUE
               r == [status |-> st, station |-> from.station, pump |-> nozzles[n].pump, tank |-> from.tank,
                     product |-> from.product, number |-> IF ks = {} THEN nozzles[n].number ELSE CHOOSE k \in ks : TRUE]
    <3>2. nozzles[n] # Row
      BY <2>3, ListedIsThere DEF UpdateNozzle, GetNozzle
    <3>3. Keyed(nozzles[n])
      BY <3>2 DEF KeyInv
    <3>4. nozzles' = [nozzles EXCEPT ![n] = r] /\ nozzles_pump_fk(r) /\ nozzles_tank_fk(r)
      BY <2>3 DEF UpdateNozzle
    <3>5. r.tank \in TankIds
      <4>1. CASE q[4] = {}
        BY <3>3, <4>1 DEF Keyed
      <4>2. CASE q[4] # {}
        <5>1. from \in q[4]
          BY <4>2
        <5> HIDE DEF from
        <5> QED
          BY <2>1, <2>3, <5>1
      <4> QED
        BY <4>1, <4>2
    <3>6. NozzleRow(r)
      BY DEF NozzleRow
    <3> HIDE DEF r
    <3>7. Keyed(r)
      BY <3>4, <3>5, <3>6 DEF Keyed, nozzles_pump_fk, nozzles_tank_fk
    <3> QED
      BY <2>1, <3>1, <3>4, <3>7, NozzleWriteKeepsKeys
  <2> QED
    BY <1>2, <2>2, <2>3 DEF handleUpdateNozzle
<1>3. ASSUME handleSetNozzleInitialMeter(n) PROVE KeyInv'
  BY <1>3, WaitingStaysWhole, OthersKeepKeys DEF handleSetNozzleInitialMeter, KeyInv
<1>4. ASSUME handleDeleteNozzle(n) PROVE KeyInv'
  <2> DEFINE r == [status |-> "deleted", station |-> nozzles[n].station, pump |-> nozzles[n].pump, tank |-> nozzles[n].tank,
                   product |-> nozzles[n].product, number |-> nozzles[n].number]
  <2>1. UNCHANGED <<tanks, pumps>> /\ Prepared'
    BY <1>4, WaitingStaysWhole DEF handleDeleteNozzle, KeyInv
  <2>2. Keyed(nozzles[n])
    BY <1>4, ListedIsThere DEF handleDeleteNozzle, SoftDeleteNozzle, GetNozzle, KeyInv
  <2>3. [nozzles[n] EXCEPT !.status = "deleted"] = r
    BY <2>2, NozzleWrites DEF Keyed
  <2>4. nozzles' = [nozzles EXCEPT ![n] = r]
    BY <1>4, <2>3 DEF handleDeleteNozzle, SoftDeleteNozzle
  <2>5. Keyed(r)
    BY <2>2 DEF Keyed, NozzleRow
  <2> HIDE DEF r
  <2> QED
    BY <2>1, <2>4, <2>5, NozzleWriteKeepsKeys
<1> QED
  BY <1>1, <1>2, <1>3, <1>4

(* Products, and the records kept once of a tank or a pump.                *)
LEMMA RecordsKeepKeys ==
  ASSUME KeyInv,
         \/ \E p \in GradeIds : handleCreateProduct(p) \/ handleDeleteProduct(p)
         \/ \E p \in GradeIds, st \in {"active", "inactive", "deleted"} : handleUpdateProduct(p, st)
         \/ \E t \in TankIds : handleSetTankOpeningBalance(t)
         \/ \E p \in PumpIds : handleCreatePumpCalibration(p)
         \/ Dropped
  PROVE  KeyInv'
<1> USE DEF forecourtTables
<1>1. UNCHANGED <<tanks, pumps, nozzles>>
  BY DEF handleCreateProduct, handleDeleteProduct, handleUpdateProduct, handleSetTankOpeningBalance,
         handleCreatePumpCalibration, Dropped
<1>2. ASSUME NEW p, handleDeleteProduct(p) PROVE Prepared'
  <2>1. (<<"drop product", p>>)[1] # "nozzle"
    OBVIOUS
  <2> QED
    BY <1>2, <2>1, AcceptedStaysWhole, PerformedStaysWhole DEF handleDeleteProduct, KeyInv
<1>3. ASSUME Dropped PROVE Prepared'
  BY <1>3, PerformedStaysWhole DEF Dropped, Performed, KeyInv
<1>4. Prepared'
  BY <1>2, <1>3, WaitingStaysWhole
     DEF handleCreateProduct, handleUpdateProduct, handleSetTankOpeningBalance, handleCreatePumpCalibration, KeyInv
<1> QED
  BY <1>1, <1>4, OthersKeepKeys

(* THEOREM: a nozzle, live or deleted, stands at its pump's and its tank's *)
(* station and sells its tank's product, for any estate and any number of  *)
(* requests in flight. The handlers of nozzles_handlers.go and             *)
(* tanks_handlers.go decide on rows read through the pool before they      *)
(* write; what makes the property hold is that each write re-checks the    *)
(* composite keys of migration 0011, which KeyInv states of every row.     *)
THEOREM KeysHold == MasterDataSpec => []NozzleMatchesTank
<1>1. MasterDataInit => KeyInv
  BY DEF MasterDataInit, KeyInv, Tabled, Prepared
<1>2. KeyInv /\ [MasterDataNext]_masterTables => KeyInv'
  <2> SUFFICES ASSUME KeyInv, [MasterDataNext]_masterTables PROVE KeyInv'
    OBVIOUS
  <2>1. CASE PlantNext
    BY <2>1, TanksKeepKeys, PumpsKeepKeys, RecordsKeepKeys DEF PlantNext
  <2>2. CASE NozzleNext
    BY <2>2, TanksKeepKeys, PumpsKeepKeys, NozzlesKeepKeys, RecordsKeepKeys DEF NozzleNext
  <2>3. CASE UNCHANGED masterTables
    BY <2>3, WaitingStaysWhole, OthersKeepKeys DEF masterTables, forecourtTables, KeyInv
  <2> QED
    BY <2>1, <2>2, <2>3, EstateKeepsKeys, DipsKeepKeys DEF MasterDataNext
<1>3. KeyInv => NozzleMatchesTank
  BY DEF KeyInv, Keyed, NozzleMatchesTank
<1> QED
  BY <1>1, <1>2, <1>3, PTL DEF MasterDataSpec

-----------------------------------------------------------------------------
(* Price agreements: an id has one row, and no two rows are active for the *)
(* same station or both for all of them.                                   *)
AgreementRow(x) ==
  x = [status |-> x.status, terms |-> x.terms, station |-> x.station, from |-> x.from, to |-> x.to]

PriceInv ==
  /\ agreement = [a \in Agreements |-> agreement[a]]
  /\ \A a \in Agreements : \A r \in agreement[a] : AgreementRow(r) /\ agreement[a] = {r}
  /\ \A a, b \in Agreements : \A r \in agreement[a], o \in agreement[b] :
       a # b => ~ (r.status = "active" /\ o.status = "active" /\ r.station = o.station)

LEMMA PriceInvKept ==
  ASSUME PriceInv, UNCHANGED agreement
  PROVE  PriceInv'
BY DEF PriceInv, AgreementRow

(* One agreement is rewritten; if it is active, its scope was free.        *)
LEMMA AgreementWritten ==
  ASSUME PriceInv, NEW a \in Agreements, NEW x, AgreementRow(x), agreement' = [agreement EXCEPT ![a] = {x}],
         x.status = "active" => ScopeFree(a, x)
  PROVE  PriceInv'
<1>1. agreement'[a] = {x} /\ \A b \in Agreements \ {a} : agreement'[b] = agreement[b]
  BY DEF PriceInv
<1>2. agreement' = [b \in Agreements |-> agreement'[b]]
  BY DEF PriceInv
<1>3. \A b \in Agreements : \A r \in agreement'[b] : AgreementRow(r) /\ agreement'[b] = {r}
  BY <1>1 DEF PriceInv, AgreementRow
<1>4. ASSUME NEW b \in Agreements, NEW c \in Agreements, NEW r \in agreement'[b], NEW o \in agreement'[c], b # c,
             r.status = "active", o.status = "active", r.station = o.station
      PROVE  FALSE
  <2>1. CASE b = a
    BY <1>1, <1>4, <2>1 DEF ScopeFree
  <2>2. CASE c = a
    BY <1>1, <1>4, <2>2 DEF ScopeFree
  <2>3. CASE b # a /\ c # a
    BY <1>1, <1>4, <2>3 DEF PriceInv
  <2> QED
    BY <2>1, <2>2, <2>3
<1> QED
  BY <1>2, <1>3, <1>4 DEF PriceInv

LEMMA PriceStep ==
  ASSUME PriceInv, [FleetNext]_fleetTables
  PROVE  PriceInv'
<1>1. ASSUME NEW a \in Agreements, NEW terms, NEW station, NEW w,
             handleCreatePriceAgreement(a, terms, station, w)
      PROVE  PriceInv'
  <2> DEFINE x == [status |-> "draft", terms |-> terms, station |-> station, from |-> w.from, to |-> w.to]
  <2>1. AgreementRow(x) /\ x.status # "active"
    BY DEF AgreementRow
  <2>2. agreement' = [agreement EXCEPT ![a] = {x}]
    BY <1>1 DEF handleCreatePriceAgreement, CreatePriceAgreement
  <2> HIDE DEF x
  <2> QED
    BY <2>1, <2>2, AgreementWritten
<1>2. ASSUME NEW a \in Agreements, NEW to, handleTransitionPriceAgreement(a, to) PROVE PriceInv'
  <2>1. PICK r \in agreement[a] : /\ to = "active" => ScopeFree(a, r)
                                  /\ agreement' = [agreement EXCEPT ![a] = {[r EXCEPT !.status = to]}]
    BY <1>2 DEF handleTransitionPriceAgreement, TransitionPriceAgreement
  <2> DEFINE x == [status |-> to, terms |-> r.terms, station |-> r.station, from |-> r.from, to |-> r.to]
  <2>2. [r EXCEPT !.status = to] = x
    BY DEF PriceInv, AgreementRow
  <2>3. AgreementRow(x) /\ x.status = to /\ x.station = r.station
    BY DEF AgreementRow
  <2>4. to = "active" => ScopeFree(a, x)
    BY <2>1, <2>3 DEF ScopeFree
  <2> HIDE DEF x
  <2> QED
    BY <2>1, <2>2, <2>3, <2>4, AgreementWritten
<1>3. ASSUME RegistryNext \/ OdometerNext PROVE UNCHANGED agreement
  BY <1>3 DEF RegistryNext, OdometerNext, handleCreateCustomerContact, handleDeleteCustomerContact, handleCreateVehicle,
              handleSetVehicleStatus, handleCreateDriver, handleResetDriverPIN, handleSetDriverStatus, SeeOdometer,
              handleRecordOdometer, paperTables
<1>4. ASSUME StatementNext PROVE UNCHANGED agreement
  BY <1>4 DEF StatementNext, BeginEntry, PostEntry, RefuseEntry, DayPasses, handleGenerateStatement, handleIssueStatement
<1>5. ASSUME UNCHANGED fleetTables PROVE UNCHANGED agreement
  BY <1>5 DEF fleetTables
<1>6. ASSUME DayPasses PROVE UNCHANGED agreement
  BY <1>6 DEF DayPasses
<1> QED
  BY <1>1, <1>2, <1>3, <1>4, <1>5, <1>6, PriceInvKept DEF FleetNext, AgreementNext

(* At most one row decides the price of a scope.                           *)
LEMMA OneActive ==
  ASSUME PriceInv, NEW s, NEW r \in ActiveFor(s)
  PROVE  ActiveFor(s) = {r}
BY DEF PriceInv, ActiveFor

(* THEOREM: whichever agreements were drafted, approved, activated, expired *)
(* or cancelled, and on every date, the lookup of a customer's price has    *)
(* one answer (an agreement's price, none because the agreement gives no    *)
(* price, or no agreement), for any set of agreements, windows and          *)
(* stations: price_agreements.go:194-198 takes one row of the first scope   *)
(* that has any, and the partial indexes of migration 0052 leave one.       *)
THEOREM PriceIsUnique == FleetSpec => []OnePrice
<1>1. FleetInit => PriceInv
  BY DEF FleetInit, PriceInv
<1>2. PriceInv /\ [FleetNext]_fleetTables => PriceInv'
  BY PriceStep
<1>3. PriceInv => OnePrice
  <2> SUFFICES ASSUME PriceInv, NEW p \in FleetPitches PROVE Cardinality(ResolveCustomerPrice(p)) = 1
    BY DEF OnePrice
  <2>1. \E x : ResolveCustomerPrice(p) = {x}
    <3>1. CASE ActiveFor({p}) # {}
      <4>1. PICK r : ActiveFor({p}) = {r}
        BY <3>1, OneActive
      <4>2. {[agreed |-> TRUE, price |-> PriceUnder(x.terms)] : x \in {r}} = {[agreed |-> TRUE, price |-> PriceUnder(r.terms)]}
        OBVIOUS
      <4> QED
        BY <3>1, <4>1, <4>2 DEF ResolveCustomerPrice
    <3>2. CASE ActiveFor({p}) = {} /\ ActiveFor({}) # {}
      <4>1. PICK r : ActiveFor({}) = {r}
        BY <3>2, OneActive
      <4>2. {[agreed |-> TRUE, price |-> PriceUnder(x.terms)] : x \in {r}} = {[agreed |-> TRUE, price |-> PriceUnder(r.terms)]}
        OBVIOUS
      <4> QED
        BY <3>2, <4>1, <4>2 DEF ResolveCustomerPrice
    <3> QED
      BY <3>1, <3>2 DEF ResolveCustomerPrice
  <2> QED
    BY <2>1, FS_Singleton
<1> QED
  BY <1>1, <1>2, <1>3, PTL DEF FleetSpec
=============================================================================
