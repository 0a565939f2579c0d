----------------------------- MODULE Governance -----------------------------
(***************************************************************************)
(* Enterprise governance: station groups and the scopes granted to users,  *)
(* approval policies and the requests decided under them, retention        *)
(* policies, and the requests to change a closed accounting period.        *)
(*                                                                         *)
(* Every operation is one transaction.  Decide and decideChange lock the   *)
(* row they decide, so each is one step.                                   *)
(***************************************************************************)
EXTENDS Integers, FiniteSets

CONSTANTS
  Users, Stations, Groups, Regions, Companies,
  RegionOf,         \* the region of each station
  CompanyOf,        \* the company of each station
  MaxGrants,        \* bound on the grants
  Policies,         \* ids of approval_policies
  ApprovalIds,      \* ids of approval_requests
  Amounts,          \* amounts of requests and thresholds of policies
  Quorums,          \* required_approvals a policy may be given
  ChangeIds,        \* ids of closed_period_change_requests
  Periods,
  RetentionScopes

ASSUME GovernanceAssumption ==
  /\ IsFiniteSet(Users)
  /\ Amounts \subseteq Nat
  /\ Quorums \subseteq Nat

VARIABLES
  member,           \* station_group_memberships of the groups that exist
  grants,           \* enterprise_scope_grants
  policy,           \* approval_policies
  approval,         \* approval_requests
  decision,         \* approval_decisions, by request and decider
  retention,        \* retention_policies: the days kept, by scope; 0 for none
  periodStatus,     \* accounting_periods.status
  change            \* closed_period_change_requests

scopeTables == <<member, grants>>
approvalTables == <<policy, approval, decision>>
retentionTables == <<retention, periodStatus, change>>
governanceTables == <<scopeTables, approvalTables, retentionTables>>

Unset == [status |-> "unset"]  \* no row

GovernanceInit ==
  /\ member = [g \in {} |-> {}]
  /\ grants = {}
  /\ policy = [p \in Policies |-> Unset]
  /\ approval = [q \in ApprovalIds |-> Unset]
  /\ decision = [q \in ApprovalIds |-> [u \in Users |-> "none"]]
  /\ retention = [s \in RetentionScopes |-> 0]
  /\ periodStatus = [d \in Periods |-> "open"]
  /\ change = [c \in ChangeIds |-> Unset]

----------------------------------------------------------------------------
\* Station groups and scopes.
CreateGroup(g) == g \notin DOMAIN member /\ member' = [x \in DOMAIN member \cup {g} |-> IF x = g THEN {} ELSE member[x]]

handleCreateStationGroup(g) == CreateGroup(g) /\ UNCHANGED <<grants, approvalTables, retentionTables>>

\* A membership that exists already is left as it is.
AddGroupMember(g, s) == g \in DOMAIN member /\ member' = [member EXCEPT ![g] = @ \cup {s}]

handleAddGroupMember(g, s) == AddGroupMember(g, s) /\ UNCHANGED <<grants, approvalTables, retentionTables>>

Scopes == {<<"tenant", "all">>} \cup ({"region"} \X Regions) \cup ({"company"} \X Companies) \cup ({"group"} \X Groups) \cup ({"station"} \X Stations)

ScopeTargetExists(s) == s[1] = "group" => s[2] \in DOMAIN member

GrantScope(u, s) == ScopeTargetExists(s) /\ grants' = grants \cup {<<u, s>>}

handleGrantScope(u, s) == GrantScope(u, s) /\ UNCHANGED <<member, approvalTables, retentionTables>>

ScopesOf(u) == {g[2] : g \in {x \in grants : x[1] = u}}

TenantWide(u) == <<"tenant", "all">> \in ScopesOf(u)

StationsIn(s) ==
  CASE s[1] = "station" -> {s[2]}
    [] s[1] = "region" -> {x \in Stations : RegionOf[x] = s[2]}
    [] s[1] = "company" -> {x \in Stations : CompanyOf[x] = s[2]}
    [] s[1] = "group" -> member[s[2]]
    [] OTHER -> {}

\* The stations a user may see; everything when the scope is the tenant.
EffectiveStations(u) == IF TenantWide(u) THEN Stations ELSE UNION {StationsIn(s) : s \in ScopesOf(u)}

\* The scopes a user may pick, each with the number of its stations.
UserScopes(u) == IF TenantWide(u) THEN {} ELSE {<<s, Cardinality(StationsIn(s))>> : s \in ScopesOf(u)}

----------------------------------------------------------------------------
\* Approval policies and requests.
AtLeastOne(n) == IF n < 1 THEN 1 ELSE n

CreatePolicy(p, min, n) ==
  /\ policy[p] = Unset
  /\ policy' = [policy EXCEPT ![p] = [min |-> min, required |-> AtLeastOne(n), status |-> "active"]]

handleCreateApprovalPolicy(p, min, n) == CreatePolicy(p, min, n) /\ UNCHANGED <<scopeTables, approval, decision, retentionTables>>

UpdatePolicy(p, min, n) ==
  /\ policy[p] # Unset
  /\ policy' = [policy EXCEPT ![p].min = min, ![p].required = AtLeastOne(n)]

handleUpdateApprovalPolicy(p, min, n) == UpdatePolicy(p, min, n) /\ UNCHANGED <<scopeTables, approval, decision, retentionTables>>

SetPolicyStatus(p, s) == policy[p] # Unset /\ policy' = [policy EXCEPT ![p].status = s]

handleSetApprovalPolicyStatus(p, s) == SetPolicyStatus(p, s) /\ UNCHANGED <<scopeTables, approval, decision, retentionTables>>

Applicable(amount) == {p \in Policies : policy[p] # Unset /\ policy[p].status = "active" /\ policy[p].min <= amount}

\* The strictest applicable policy decides; one approval is the default.
resolvePolicy(amount) ==
  IF Applicable(amount) = {} THEN 1
  ELSE policy[CHOOSE p \in Applicable(amount) : \A o \in Applicable(amount) : policy[o].required <= policy[p].required].required

RaiseRequest(q, amount, by) ==
  /\ approval[q] = Unset
  /\ approval' = [approval EXCEPT ![q] = [status |-> "requested", amount |-> amount, required |-> resolvePolicy(amount),
                                          approvals |-> 0, by |-> by]]

handleRaiseApprovalRequest(q, amount, by) ==
  RaiseRequest(q, amount, by) /\ UNCHANGED <<scopeTables, policy, decision, retentionTables>>

\* Mutant: without the unique index a decider may decide again.
MayDecideAgain(q, by) == approval[q].status = "requested" /\ approval[q].by # by

MayDecide(q, by) ==
  /\ approval[q].status = "requested"
  /\ approval[q].by # by
  /\ decision[q][by] = "none"

Decide(q, by, d) ==
  /\ approval[q] # Unset /\ MayDecide(q, by)
  /\ decision' = [decision EXCEPT ![q][by] = d]
  /\ approval' = [approval EXCEPT ![q] =
       IF d = "reject" THEN [approval[q] EXCEPT !.status = "rejected"]
       ELSE [approval[q] EXCEPT !.approvals = approval[q].approvals + 1,
                                !.status = IF approval[q].approvals + 1 >= approval[q].required THEN "approved" ELSE "requested"]]

handleDecideApproval(q, by, d) == Decide(q, by, d) /\ UNCHANGED <<scopeTables, policy, retentionTables>>

----------------------------------------------------------------------------
\* Retention policies, one for each scope.
RetainFor(s, days) == days > 0 /\ retention' = [retention EXCEPT ![s] = days] /\ UNCHANGED <<periodStatus, change>>

CreateRetentionPolicy(s, days) == retention[s] = 0 /\ RetainFor(s, days)
UpdateRetentionPolicy(s, days) == retention[s] # 0 /\ RetainFor(s, days)
DeleteRetentionPolicy(s) ==
  retention[s] # 0 /\ retention' = [retention EXCEPT ![s] = 0] /\ UNCHANGED <<periodStatus, change>>

handleCreateRetentionPolicy(s, days) == CreateRetentionPolicy(s, days) /\ UNCHANGED <<scopeTables, approvalTables>>
handleUpdateRetentionPolicy(s, days) == UpdateRetentionPolicy(s, days) /\ UNCHANGED <<scopeTables, approvalTables>>
handleDeleteRetentionPolicy(s) == DeleteRetentionPolicy(s) /\ UNCHANGED <<scopeTables, approvalTables>>

\* Accounting closes and reopens the period (Ledger).
MovePeriod(d, s) ==
  /\ <<periodStatus[d], s>> \in {<<"open", "closed">>, <<"closed", "open">>, <<"closed", "locked">>}
  /\ periodStatus' = [periodStatus EXCEPT ![d] = s]
  /\ UNCHANGED <<scopeTables, approvalTables, retention, change>>

Pending(d) == {c \in ChangeIds : change[c] # Unset /\ change[c].period = d /\ change[c].status = "requested"}

\* uq_cpcr_pending: one pending request for a period.
NonePending(d) == Pending(d) = {}

RequestChange(c, d, by, type) ==
  /\ change[c] = Unset
  /\ periodStatus[d] \in {"closed", "locked"}
  /\ NonePending(d)
  /\ change' = [change EXCEPT ![c] = [period |-> d, type |-> type, status |-> "requested", by |-> by, decider |-> {}]]
  /\ UNCHANGED <<retention, periodStatus>>

handleRequestPeriodChange(c, d, by, type) == RequestChange(c, d, by, type) /\ UNCHANGED <<scopeTables, approvalTables>>

decideChange(c, by, to) ==
  /\ change[c] # Unset /\ change[c].status = "requested" /\ change[c].by # by
  /\ change' = [change EXCEPT ![c].status = to, ![c].decider = {by}]
  /\ UNCHANGED <<retention, periodStatus>>

ApproveChange(c, by) == decideChange(c, by, "approved")
RejectChange(c, by) == decideChange(c, by, "rejected")

decidePeriodChange(c, by) == (ApproveChange(c, by) \/ RejectChange(c, by)) /\ UNCHANGED <<scopeTables, approvalTables>>

----------------------------------------------------------------------------
ScopeNext ==
  \/ \E g \in Groups : handleCreateStationGroup(g) \/ \E s \in Stations : handleAddGroupMember(g, s)
  \/ Cardinality(grants) < MaxGrants /\ \E u \in Users, s \in Scopes : handleGrantScope(u, s)

ApprovalNext ==
  \/ \E p \in Policies, min \in Amounts, n \in Quorums : handleCreateApprovalPolicy(p, min, n) \/ handleUpdateApprovalPolicy(p, min, n)
  \/ \E p \in Policies, s \in {"active", "archived"} : handleSetApprovalPolicyStatus(p, s)
  \/ \E q \in ApprovalIds, a \in Amounts, u \in Users : handleRaiseApprovalRequest(q, a, u)
  \/ \E q \in ApprovalIds, u \in Users, d \in {"approve", "reject"} : handleDecideApproval(q, u, d)

RetentionNext ==
  \/ \E s \in RetentionScopes, days \in {1, 2} : handleCreateRetentionPolicy(s, days) \/ handleUpdateRetentionPolicy(s, days)
  \/ \E s \in RetentionScopes : handleDeleteRetentionPolicy(s)
  \/ \E d \in Periods, s \in {"open", "closed", "locked"} : MovePeriod(d, s)
  \/ \E c \in ChangeIds, d \in Periods, u \in Users, t \in {"reopen", "relock"} : handleRequestPeriodChange(c, d, u, t)
  \/ \E c \in ChangeIds, u \in Users : decidePeriodChange(c, u)

GovernanceNext == ScopeNext \/ ApprovalNext \/ RetentionNext

GovernanceSpec == GovernanceInit /\ [][GovernanceNext]_governanceTables

----------------------------------------------------------------------------
Approvers(q) == {u \in Users : decision[q][u] = "approve"}

\* A request is approved only by as many different people as the policies in force
\* asked for when it was raised, none of them its author, and by nobody against it;
\* a policy that changes meanwhile does not count (Decide, RaiseRequest).
ApprovedByEnough ==
  \A q \in ApprovalIds : approval[q] # Unset /\ approval[q].status = "approved" =>
    /\ Cardinality(Approvers(q)) >= approval[q].required
    /\ approval[q].by \notin Approvers(q)
    /\ \A u \in Users : decision[q][u] # "reject"

\* A closed period has one pending request at most, and whoever decides a request
\* is not the one who made it (RequestChange, decideChange).
ChangesAreIndependent ==
  /\ \A d \in Periods : Cardinality(Pending(d)) <= 1
  /\ \A c \in ChangeIds : change[c] # Unset => change[c].by \notin change[c].decider
=============================================================================
