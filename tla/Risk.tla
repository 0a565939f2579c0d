-------------------------------- MODULE Risk --------------------------------
(***************************************************************************)
(* The risk engine (internal/risk): rules, the detection pass, alerts,     *)
(* suppressions, station scores and investigation cases; and incidents     *)
(* (internal/incidents), which attendants report from a queue that is      *)
(* replayed.                                                               *)
(*                                                                         *)
(* A detection pass is one transaction that loads the rules once and then  *)
(* works through them one statement at a time, so rules, suppressions,     *)
(* alerts and the records it looks at may change under it, and a scheduled *)
(* pass may run beside a manual one.  Every other handler is one transaction of guarded writes.  *)
(***************************************************************************)
EXTENDS Integers, FiniteSets, Sequences, Functions

CONSTANTS
  RuleIds,        \* ids of risk_rules
  Conditions,     \* conditions rules may name, known to the engine or not
  Observations,   \* what the evaluators' queries may see: [condition, subject, station, value, base]
  Severities,
  Thresholds,     \* singletons, or {} for none
  Passes,         \* detection passes that may be under way
  CaseIds,        \* ids of investigation_cases
  DedupeKeys, IncidentIds, ShiftStations,
  MaxRaised       \* bound on risk_alerts rows

VARIABLES
  riskRule,       \* risk_rules: {} or {row}
  observed,       \* the observations that hold now
  riskAlert,      \* risk_alerts, in order
  suppression,    \* risk_suppressions: alert type, stations covered
  riskScore,      \* risk_scores per station: {} or {score}
  pass,           \* each detection pass
  case_,          \* investigation_cases: {} or {row}
  caseAlert,      \* investigation_case_alerts
  incident        \* incidents: {} or {row}

riskTables == <<riskRule, observed, riskAlert, suppression, riskScore, pass, case_, caseAlert, incident>>

Scored == {o.station : o \in Observations}
NoPass == [at |-> "idle", raised |-> <<>>]

RiskInit ==
  /\ riskRule = [r \in RuleIds |-> {}]
  /\ observed = {}
  /\ riskAlert = <<>>
  /\ suppression = {}
  /\ riskScore = [s \in Scored |-> {}]
  /\ pass = [d \in Passes |-> NoPass]
  /\ case_ = [c \in CaseIds |-> {}]
  /\ caseAlert = {}
  /\ incident = [i \in IncidentIds |-> {}]

\* Reconciliations, shortages, stock levels and receipts come and go.
Observe(o) ==
  /\ observed' = IF o \in observed THEN observed \ {o} ELSE observed \cup {o}
  /\ UNCHANGED <<riskRule, riskAlert, suppression, riskScore, pass, case_, caseAlert, incident>>

-----------------------------------------------------------------------------
\* Rules.  A rule that is enabled runs unless it is paused or retired.
RuleUnchanged == UNCHANGED <<observed, riskAlert, suppression, riskScore, pass, case_, caseAlert, incident>>

CreateRule(r, c, sev, th, st, on) ==
  /\ riskRule[r] = {}
  /\ riskRule' = [riskRule EXCEPT ![r] = {[condition |-> c, severity |-> sev, threshold |-> th, status |-> st, enabled |-> on]}]
\* An omitted threshold clears it and an omitted flag enables the rule; the
\* rest is kept.
UpdateRule(r, sts, th, on) ==
  /\ riskRule[r] # {}
  /\ riskRule' = [riskRule EXCEPT ![r] = {[x EXCEPT !.threshold = th, !.enabled = on,
                                             !.status = IF sts = {} THEN @ ELSE CHOOSE st \in sts : TRUE] : x \in @}]
SetRuleEnabled(r, on) == riskRule[r] # {} /\ riskRule' = [riskRule EXCEPT ![r] = {[x EXCEPT !.enabled = on] : x \in @}]
SetRuleStatus(r, st) == riskRule[r] # {} /\ riskRule' = [riskRule EXCEPT ![r] = {[x EXCEPT !.status = st] : x \in @}]
TuneRule(r, th, sev) ==
  /\ riskRule[r] # {}
  /\ riskRule' = [riskRule EXCEPT ![r] = {[x EXCEPT !.severity = sev, !.threshold = IF th = {} THEN @ ELSE th] : x \in @}]
\* Only active rules: a draft keeps running.
PauseAllRules ==
  riskRule' = [r \in RuleIds |-> {[x EXCEPT !.status = IF @ = "active" THEN "paused" ELSE @] : x \in riskRule[r]}]

handleCreateRiskRule(r, c, sev, th, st, on) == CreateRule(r, c, sev, th, st, on) /\ RuleUnchanged
handleUpdateRiskRule(r, sts, th, on) == UpdateRule(r, sts, th, on) /\ RuleUnchanged
handleSetRiskRuleEnabled(r, on) == SetRuleEnabled(r, on) /\ RuleUnchanged
handleSetRiskRuleStatus(r, st) == SetRuleStatus(r, st) /\ RuleUnchanged
handleTuneRiskRule(r, th, sev) == TuneRule(r, th, sev) /\ RuleUnchanged
handlePauseAllRiskRules == PauseAllRules /\ RuleUnchanged

-----------------------------------------------------------------------------
\* Evaluators.  Each compares an observation with the rule's threshold, or
\* with its own default when the rule has none.
Or(th, default) == IF th = {} THEN default ELSE CHOOSE x \in th : TRUE
\* A reconciliation in exception: its variance, and the tolerated loss.
evalFuelVarianceOverTolerance(o, th) == o.value > Or(th, o.base)
\* An attendant: the short reconciliations in the period.
evalRepeatedCashShortage(o, th) == o.value >= Or(th, 3)
\* A tank: the days its stock covers; without sales there is no answer.
evalStockoutCoverage(o, th) == o.base > 0 /\ o.value < Or(th, 2)
\* An order line: the litres short, of those ordered.
evalSupplierDeliveryShortage(o, th) == o.value > o.base * Or(th, 0)

EvaluatorFor(c) == c \in {"fuel_variance", "cash_shortage", "stockout", "supplier_shortage"}
Evaluated(c, th) ==
  {o \in observed :
     /\ o.condition = c
     /\ CASE c = "fuel_variance" -> evalFuelVarianceOverTolerance(o, th)
          [] c = "cash_shortage" -> evalRepeatedCashShortage(o, th)
          [] c = "stockout" -> evalStockoutCoverage(o, th)
          [] c = "supplier_shortage" -> evalSupplierDeliveryShortage(o, th)}

severityScore(sev) == CASE sev = "critical" -> 90 [] sev = "high" -> 75 [] sev = "low" -> 40 [] sev = "info" -> 20 [] OTHER -> 55

LiveAlert == {"open", "acknowledged", "investigating", "escalated"}
suppressed(rows, c, s) == \E x \in rows : x.type = c /\ (x.stations = {} \/ s \in x.stations)

RaisedBy(x, o) == [type |-> x.condition, subject |-> o.subject, station |-> o.station,
                   score |-> severityScore(x.severity), status |-> "open", disposed |-> FALSE]
Clashes(rows, x, o, live) ==
  \E i \in DOMAIN rows : rows[i].type = x.condition /\ rows[i].subject = o.subject /\ rows[i].status \in live

\* Bug: the conflict target sees only the alerts nobody has touched.
upsertAlertUntouched(d, x, o) ==
  LET mine == pass[d].raised IN
  /\ \A e \in Passes \ {d} : ~Clashes(pass[e].raised, x, o, {"open"})
  /\ pass' = [pass EXCEPT ![d].found = @ \ {<<x, o>>},
       ![d].raised = IF Clashes(riskAlert \o mine, x, o, {"open"}) THEN @ ELSE Append(@, RaisedBy(x, o))]
\* ON CONFLICT on the live alert of the same type and subject, nothing.  The
\* index makes the insert wait for another pass that has raised it and has
\* not committed.
upsertAlert(d, x, o) ==
  LET mine == pass[d].raised IN
  /\ \A e \in Passes \ {d} : ~Clashes(pass[e].raised, x, o, LiveAlert)
  /\ pass' = [pass EXCEPT ![d].found = @ \ {<<x, o>>},
       ![d].raised = IF Clashes(riskAlert \o mine, x, o, LiveAlert) THEN @ ELSE Append(@, RaisedBy(x, o))]

\* A pass: the rules are loaded; a rule is evaluated (an unknown condition is
\* skipped); a candidate is suppressed or becomes an alert.  A suppression
\* that lapses after the pass began still counts: now() is the start.
loadEnabledRules == UNION {{x \in riskRule[r] : x.enabled /\ x.status \notin {"paused", "retired"}} : r \in RuleIds}

RunDetection(d) ==
  \/ /\ pass[d] = NoPass
     /\ pass' = [pass EXCEPT ![d] = [at |-> "rules", rules |-> loadEnabledRules, found |-> {}, raised |-> <<>>,
                                     began |-> suppression]]
  \/ /\ pass[d].at = "rules" /\ pass[d].found = {}
     /\ \E x \in pass[d].rules :
          pass' = [pass EXCEPT ![d].rules = @ \ {x},
                               ![d].found = IF EvaluatorFor(x.condition)
                                            THEN {<<x, o>> : o \in Evaluated(x.condition, x.threshold)} ELSE {}]
  \/ /\ pass[d].at = "rules"
     /\ \E f \in pass[d].found :
          IF suppressed(pass[d].began \cup suppression, f[1].condition, f[2].station)
          THEN pass' = [pass EXCEPT ![d].found = @ \ {f}]
          ELSE upsertAlert(d, f[1], f[2])
     /\ Len(riskAlert) + Cardinality({<<e, i>> \in Passes \X (1..MaxRaised) : i \in DOMAIN pass'[e].raised}) <= MaxRaised

\* Stations with a live alert get their sum, capped; the others keep the row
\* they have.
Sum100(alerts, s) ==
  LET sum == FoldFunction(LAMBDA a, b : a + b, 0,
               [i \in {i \in DOMAIN alerts : alerts[i].station = s /\ alerts[i].status \in LiveAlert} |-> alerts[i].score])
  IN IF sum > 100 THEN 100 ELSE sum
RecomputeStationScores(alerts) ==
  riskScore' = [s \in Scored |-> IF Sum100(alerts, s) > 0 THEN {Sum100(alerts, s)} ELSE riskScore[s]]

\* A pass is one transaction: what it raised shows when it commits, and an
\* error (a deadlock of two passes among them) leaves nothing of it.  The
\* job recomputes the scores before it commits; a manual pass does not.
Detect(d) ==
  RunDetection(d) /\ UNCHANGED <<riskRule, observed, riskAlert, suppression, riskScore, case_, caseAlert, incident>>
PassCommits(d) ==
  /\ pass[d].at = "rules" /\ pass[d].rules = {} /\ pass[d].found = {}
  /\ riskAlert' = riskAlert \o pass[d].raised
  /\ pass' = [pass EXCEPT ![d] = NoPass]
  /\ UNCHANGED <<riskRule, observed, suppression, case_, caseAlert, incident>>
PassFails(d) ==
  /\ pass[d] # NoPass /\ pass' = [pass EXCEPT ![d] = NoPass]
  /\ UNCHANGED <<riskRule, observed, riskAlert, suppression, riskScore, case_, caseAlert, incident>>
handleRunDetection(d) == Detect(d) \/ PassFails(d) \/ (PassCommits(d) /\ UNCHANGED riskScore)
riskDetectJob(d) == Detect(d) \/ PassFails(d) \/ (PassCommits(d) /\ RecomputeStationScores(riskAlert \o pass[d].raised))
handleRecomputeRiskScores ==
  RecomputeStationScores(riskAlert) /\ UNCHANGED <<riskRule, observed, riskAlert, suppression, pass, case_, caseAlert, incident>>

CreateSuppression(c, ss) == suppression' = suppression \cup {[type |-> c, stations |-> ss]}
handleCreateSuppression(c, ss) ==
  CreateSuppression(c, ss) /\ UNCHANGED <<riskRule, observed, riskAlert, riskScore, pass, case_, caseAlert, incident>>
SuppressionExpires(x) ==
  /\ suppression' = suppression \ {x}
  /\ UNCHANGED <<riskRule, observed, riskAlert, riskScore, pass, case_, caseAlert, incident>>

-----------------------------------------------------------------------------
\* Alerts and cases.
alertAllowedFrom(to) ==
  CASE to = "acknowledged" -> {"open"}
    [] to = "investigating" -> {"open", "acknowledged", "escalated"}
    [] to = "escalated" -> {"open", "acknowledged", "investigating"}
    [] to \in {"resolved", "dismissed"} -> LiveAlert
\* A resolution or dismissal needs a disposition.
TransitionAlert(i, to, noted) ==
  /\ i \in DOMAIN riskAlert /\ riskAlert[i].status \in alertAllowedFrom(to)
  /\ to \in {"resolved", "dismissed"} => noted
  /\ riskAlert' = [riskAlert EXCEPT ![i].status = to, ![i].disposed = @ \/ noted]
handleTransitionRiskAlert(i, to, noted) ==
  TransitionAlert(i, to, noted) /\ UNCHANGED <<riskRule, observed, suppression, riskScore, pass, case_, caseAlert, incident>>

AttachAlert(c, i) ==
  /\ caseAlert' = caseAlert \cup {<<c, i>>}
  /\ riskAlert' = [riskAlert EXCEPT ![i].status = IF @ \in {"open", "acknowledged", "investigating"} THEN "escalated" ELSE @]
CreateCase(c) ==
  case_[c] = {} /\ case_' = [case_ EXCEPT ![c] = {[status |-> "open", comments |-> FALSE, action |-> "none"]}]
handleCreateCase(c, alerts) ==
  /\ CreateCase(c)
  /\ IF alerts = {} THEN UNCHANGED <<caseAlert, riskAlert>>
     ELSE \E i \in alerts : i \in DOMAIN riskAlert /\ AttachAlert(c, i)
  /\ UNCHANGED <<riskRule, observed, suppression, riskScore, pass, incident>>
handleAttachAlertToCase(c, i) ==
  /\ case_[c] # {} /\ i \in DOMAIN riskAlert /\ AttachAlert(c, i)
  /\ UNCHANGED <<riskRule, observed, suppression, riskScore, pass, case_, incident>>

CaseUnchanged == UNCHANGED <<riskRule, observed, riskAlert, suppression, riskScore, pass, caseAlert, incident>>
AddComment(c) == case_[c] # {} /\ case_' = [case_ EXCEPT ![c] = {[x EXCEPT !.comments = TRUE] : x \in @}]
\* One recommended action per case stands for all of them.
AddAction(c) == /\ \E x \in case_[c] : x.action = "none"
                /\ case_' = [case_ EXCEPT ![c] = {[x EXCEPT !.action = "suggested"] : x \in @}]
actionAllowedFrom(st) == IF st = "accepted" THEN {"suggested"} ELSE {"suggested", "accepted"}
SetActionStatus(c, st) ==
  /\ \E x \in case_[c] : x.action \in actionAllowedFrom(st)
  /\ case_' = [case_ EXCEPT ![c] = {[x EXCEPT !.action = st] : x \in @}]
caseAllowedFrom(st) ==
  CASE st = "assigned" -> {"open", "in_review", "action_required"}
    [] st = "in_review" -> {"open", "assigned", "action_required"}
    [] st = "action_required" -> {"assigned", "in_review"}
    [] st = "resolved" -> {"open", "assigned", "in_review", "action_required"}
    [] st = "closed" -> {"resolved"}
SetCaseStatus(c, st) ==
  /\ \E x \in case_[c] : x.status \in caseAllowedFrom(st)
  /\ case_' = [case_ EXCEPT ![c] = {[x EXCEPT !.status = st] : x \in @}]
handleAddCaseComment(c) == AddComment(c) /\ CaseUnchanged
handleAddCaseAction(c) == AddAction(c) /\ CaseUnchanged
handleSetCaseActionStatus(c, st) == SetActionStatus(c, st) /\ CaseUnchanged
handleSetCaseStatus(c, st) == SetCaseStatus(c, st) /\ CaseUnchanged

-----------------------------------------------------------------------------
\* Incidents.
IncidentUnchanged == UNCHANGED <<riskRule, observed, riskAlert, suppression, riskScore, pass, case_, caseAlert>>
InsertIncident(i, s, k) ==
  incident[i] = {} /\ incident' = [incident EXCEPT ![i] = {[station |-> s, key |-> k, status |-> "open", resolved |-> FALSE]}]
handleCreateIncident(i, s) == InsertIncident(i, s, {}) /\ IncidentUnchanged
\* A key that is taken returns the incident that has it: nothing is written.
CreateDeduped(i, s, k) ==
  /\ k # {} => \A j \in IncidentIds : \A x \in incident[j] : x.key # k
  /\ InsertIncident(i, s, k)
handleReportIncident(i, s, k) == CreateDeduped(i, s, k) /\ IncidentUnchanged
UpdateIncidentStatus(i, st) ==
  /\ incident[i] # {}
  /\ incident' = [incident EXCEPT ![i] = {[x EXCEPT !.status = st, !.resolved = st \in {"resolved", "closed"}] : x \in @}]
handleUpdateIncidentStatus(i, st) == UpdateIncidentStatus(i, st) /\ IncidentUnchanged

-----------------------------------------------------------------------------
RuleNext ==
  \/ \E r \in RuleIds, c \in Conditions, sev \in Severities, th \in Thresholds, st \in {"draft", "active"}, on \in BOOLEAN :
       handleCreateRiskRule(r, c, sev, th, st, on)
  \/ \E r \in RuleIds, sts \in {{}, {"active"}}, th \in Thresholds, on \in BOOLEAN : handleUpdateRiskRule(r, sts, th, on)
  \/ \E r \in RuleIds, on \in BOOLEAN : handleSetRiskRuleEnabled(r, on)
  \/ \E r \in RuleIds, st \in {"draft", "active", "paused", "retired"} : handleSetRiskRuleStatus(r, st)
  \/ \E r \in RuleIds, th \in Thresholds, sev \in Severities : handleTuneRiskRule(r, th, sev)
  \/ handlePauseAllRiskRules
  \/ \E o \in Observations : Observe(o)
  \/ \E d \in Passes : handleRunDetection(d)

AlertNext ==
  \/ \E o \in Observations : Observe(o)
  \/ \E d \in Passes : handleRunDetection(d) \/ riskDetectJob(d)
  \/ handleRecomputeRiskScores
  \/ \E c \in Conditions, ss \in {{}} \cup {{s} : s \in Scored} : handleCreateSuppression(c, ss)
  \/ \E x \in suppression : SuppressionExpires(x)
  \/ \E i \in 1..MaxRaised, to \in {"acknowledged", "investigating", "escalated", "resolved", "dismissed"}, noted \in BOOLEAN :
       handleTransitionRiskAlert(i, to, noted)
  \/ \E c \in CaseIds, i \in 1..MaxRaised : handleAttachAlertToCase(c, i) \/ handleCreateCase(c, {i})

CaseNext ==
  \/ \E c \in CaseIds : handleCreateCase(c, {}) \/ handleAddCaseComment(c) \/ handleAddCaseAction(c)
  \/ \E c \in CaseIds, st \in {"accepted", "completed", "dismissed"} : handleSetCaseActionStatus(c, st)
  \/ \E c \in CaseIds, st \in {"assigned", "in_review", "action_required", "resolved", "closed"} : handleSetCaseStatus(c, st)
  \/ \E i \in IncidentIds, s \in ShiftStations : handleCreateIncident(i, s)
  \/ \E i \in IncidentIds, s \in ShiftStations, k \in {{}} \cup {{k} : k \in DedupeKeys} : handleReportIncident(i, s, k)
  \/ \E i \in IncidentIds, st \in {"open", "investigating", "resolved", "closed"} : handleUpdateIncidentStatus(i, st)

-----------------------------------------------------------------------------
(* Whatever passes overlap, and however the alerts are worked on and        *)
(* escalated into cases meanwhile, a subject has at most one live alert of  *)
(* a type (upsertAlert and the index uq_risk_alert_open).                   *)
OneLiveAlert ==
  \A i, j \in DOMAIN riskAlert :
    (riskAlert[i].type = riskAlert[j].type /\ riskAlert[i].subject = riskAlert[j].subject
       /\ riskAlert[i].status \in LiveAlert /\ riskAlert[j].status \in LiveAlert) => i = j

(* "RecomputeStationScores rebuilds station risk scores from open alerts"   *)
(* (scoring.go:11): when the job is done, a station has a score only if it  *)
(* has live alerts.  TLC refutes it: the upsert leaves the row of a station *)
(* whose alerts were all resolved.                                          *)
ScoreFollowsAlerts ==
  [][\A d \in Passes : riskDetectJob(d) /\ PassCommits(d) => \A s \in Scored : riskScore'[s] # {} => Sum100(riskAlert', s) > 0]_riskTables
=============================================================================
