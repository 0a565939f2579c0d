--------------------------- MODULE ReportRecords ----------------------------
(***************************************************************************)
(* What the Reports Center keeps: immutable report snapshots with their     *)
(* sign-off and their chain of revisions (internal/reportsnapshots), and    *)
(* the configurable insight rules that run over a report's figures          *)
(* (internal/reportrules).                                                  *)
(*                                                                          *)
(* A capture reads the snapshot it corrects, then renders the report, then  *)
(* reads the last revision of the chain, all outside the transaction that   *)
(* inserts the row: `capturing` holds the captures in between.  A chain is  *)
(* a report and its scope, the text of its station filter.  The last        *)
(* revision is looked up under the trimmed text; the row is stored, and     *)
(* its revision is unique, under the text as it came.                       *)
(*                                                                          *)
(* A rule run loads the rules, evaluates them over the report's facts and   *)
(* inserts a notification per fired rule that asked for one.  Facts are the *)
(* metrics the report supplied: a function on their names.                  *)
(***************************************************************************)
EXTENDS Integers, FiniteSets, Sequences
LOCAL INSTANCE FiniteSetsExt

CONSTANTS ReportKeys,     \* reports that may be captured
          ReportScopes,   \* texts of the station filter, "absent" for none
          TrimSpace,      \* [ReportScopes -> the text without the blanks around it]
          Captures,       \* capture requests in flight
          MaxSnapshots,
          InsightIds,     \* report rules
          Evaluators,     \* conditions a rule may name
          FactSheets,     \* the figures of a report run
          SystemRules,    \* the rules a migration seeded
          RuleInputs      \* rule forms: an empty set is a field left out

VARIABLES snapshots,      \* rows of report_snapshots, oldest first
          capturing,      \* [Captures -> {} or the capture's reads]
          insight,        \* [InsightIds -> {} or the rule's row]
          loaded,         \* rules a report run has loaded and not evaluated
          insightNote     \* the notifications the last run inserted

snapshotTables == <<snapshots, capturing>>
insightTables == <<insight, loaded, insightNote>>
recordTables == <<snapshots, capturing, insight, loaded, insightNote>>

ReportRecordsInit ==
  /\ snapshots = <<>> /\ capturing = [c \in Captures |-> {}]
  /\ insight = [i \in InsightIds |->
       IF i \in SystemRules
         THEN {[key |-> {}, condition |-> "period_unlocked", threshold |-> {}, severity |-> "warning",
                mode |-> "augment", notify |-> FALSE, enabled |-> TRUE, status |-> "active"]}
         ELSE {}]
  /\ loaded = {} /\ insightNote = {}

-----------------------------------------------------------------------------
(* Snapshots.                                                               *)

Chain(k, s) == {i \in DOMAIN snapshots : snapshots[i].key = k /\ snapshots[i].scope = s}

stationFilterPtr(s) == IF TrimSpace[s] = "" THEN "absent" ELSE TrimSpace[s]

(* COALESCE(filters_used->>'station_id', '') *)
IndexKey(s) == IF s = "absent" THEN "" ELSE s

(* The correction must name a reopened snapshot of the same report: the     *)
(* report is compared, the scope is not.                                    *)
MaySupersede(k, prev) == \A i \in prev : snapshots[i].key = k /\ snapshots[i].status = "reopened"

handleCaptureSnapshot(c, k, s, prev) ==
  /\ capturing[c] = {}
  /\ MaySupersede(k, prev)
  /\ capturing' = [capturing EXCEPT ![c] = {[key |-> k, scope |-> s, prev |-> prev, revision |-> 0]}]
  /\ UNCHANGED <<snapshots, insightTables>>

(* max(revision) over the rows stored under the trimmed text, 0 for none;   *)
(* the row will carry the next.                                             *)
MaxRevisionForChain(c) ==
  \E q \in capturing[c] :
    /\ q.revision = 0
    /\ capturing' = [capturing EXCEPT ![c] =
         {[q EXCEPT !.revision = 1 + Max({0} \cup {snapshots[i].revision : i \in Chain(q.key, stationFilterPtr(q.scope))})]}]
    /\ UNCHANGED <<snapshots, insightTables>>

(* The two unique indexes: a prior revision is superseded at most once, a   *)
(* chain has one row per revision.                                          *)
RevisionUnchecked(q) == \A i \in DOMAIN snapshots : q.prev = {} \/ snapshots[i].prev # q.prev

RevisionFree(q) ==
  /\ \A i \in DOMAIN snapshots : q.prev = {} \/ snapshots[i].prev # q.prev
  /\ \A i \in DOMAIN snapshots :
       snapshots[i].key = q.key /\ IndexKey(snapshots[i].scope) = IndexKey(q.scope) => snapshots[i].revision # q.revision

CaptureTx(c) ==
  \E q \in capturing[c] :
    /\ q.revision > 0
    /\ Len(snapshots) < MaxSnapshots
    /\ snapshots' = IF RevisionFree(q)
                      THEN Append(snapshots, [key |-> q.key, scope |-> q.scope, revision |-> q.revision,
                                              prev |-> q.prev, status |-> "draft"])
                      ELSE snapshots
    /\ capturing' = [capturing EXCEPT ![c] = {}]
    /\ UNCHANGED insightTables

SignOffTx(i) ==
  /\ snapshots[i].status \in {"draft", "reopened"}
  /\ snapshots' = [snapshots EXCEPT ![i].status = "signed_off"]

handleSignOffSnapshot(i) == SignOffTx(i) /\ UNCHANGED <<capturing, insightTables>>

ReopenTx(i) ==
  /\ snapshots[i].status = "signed_off"
  /\ snapshots' = [snapshots EXCEPT ![i].status = "reopened"]

handleReopenSnapshot(i) == ReopenTx(i) /\ UNCHANGED <<capturing, insightTables>>

-----------------------------------------------------------------------------
(* The evaluators: {} when the rule does not fire, else the severity it     *)
(* fires with ("" for the rule's own).  Percentages are cross-multiplied.   *)

Has(f, k) == k \in DOMAIN f
thresholdOr(r, default) == IF r.threshold = {} THEN default ELSE CHOOSE t \in r.threshold : TRUE
Abs(n) == IF n < 0 THEN -n ELSE n
Fires(p, severity) == IF p THEN {severity} ELSE {}

evalPeriodOverPeriod(r, f) ==
  Fires(/\ Has(f, "gross_current") /\ Has(f, "gross_prior") /\ f["gross_prior"] > 0
        /\ Abs(f["gross_current"] - f["gross_prior"]) * 100 >= thresholdOr(r, 25) * f["gross_prior"], "")

evalVarianceVsAverage(r, f) ==
  Fires(/\ Has(f, "gross_current") /\ Has(f, "gross_avg") /\ f["gross_avg"] > 0
        /\ Abs(f["gross_current"] - f["gross_avg"]) * 100 >= thresholdOr(r, 20) * f["gross_avg"], "")

(* The limit is the rule's threshold, else the station's tolerance, else 0. *)
CashLimit(r, f) ==
  IF \E t \in r.threshold : t > 0 THEN thresholdOr(r, 0)
  ELSE IF Has(f, "cash_tolerance") /\ f["cash_tolerance"] > 0 THEN f["cash_tolerance"] ELSE 0

evalCashVariance(r, f) ==
  Fires(/\ Has(f, "cash_variance") /\ f["cash_variance"] # 0
        /\ Abs(f["cash_variance"]) > CashLimit(r, f),
        IF CashLimit(r, f) > 0 /\ Abs(f["cash_variance"]) > 2 * CashLimit(r, f)
          THEN "critical" ELSE "warning")

evalTankOverTolerance(r, f) ==
  Fires(/\ Has(f, "tanks_over_tolerance")
        /\ f["tanks_over_tolerance"] >= Max({1, thresholdOr(r, 1)}), "")

evalMarginHealth(r, f) ==
  IF ~Has(f, "margin_current") THEN {}
  ELSE IF f["margin_current"] < 0 THEN {"critical"}
  ELSE Fires(/\ Has(f, "margin_prior") /\ f["margin_prior"] > 0
             /\ (f["margin_current"] - f["margin_prior"]) * 100 <= -(thresholdOr(r, 15) * f["margin_prior"]), "warning")

evalOverdueShare(r, f) ==
  Fires(Has(f, "overdue") /\ f["overdue"] > 0,
        IF IF Has(f, "outstanding") /\ f["outstanding"] > 0
             THEN f["overdue"] * 100 >= thresholdOr(r, 50) * f["outstanding"]
             ELSE 0 >= thresholdOr(r, 50)
          THEN "critical" ELSE "warning")

evalDeliveryShortfall(r, f) ==
  Fires(/\ Has(f, "ordered_litres") /\ Has(f, "received_litres") /\ f["ordered_litres"] > f["received_litres"]
        /\ f["ordered_litres"] > 0
        /\ (f["ordered_litres"] - f["received_litres"]) * 100 >= thresholdOr(r, 5) * f["ordered_litres"], "")

evalPeriodUnlocked(r, f) == Fires(Has(f, "period_locked") /\ ~f["period_locked"], "")

registry(r, f) ==
  CASE r.condition = "period_over_period" -> evalPeriodOverPeriod(r, f)
    [] r.condition = "variance_vs_average" -> evalVarianceVsAverage(r, f)
    [] r.condition = "cash_variance_over_tolerance" -> evalCashVariance(r, f)
    [] r.condition = "tank_over_tolerance" -> evalTankOverTolerance(r, f)
    [] r.condition = "margin_health" -> evalMarginHealth(r, f)
    [] r.condition = "overdue_share" -> evalOverdueShare(r, f)
    [] r.condition = "delivery_shortfall" -> evalDeliveryShortfall(r, f)
    [] r.condition = "period_unlocked" -> evalPeriodUnlocked(r, f)
    [] OTHER -> {}

(* A run's insights: the loaded rules that apply to the report, each with   *)
(* what its evaluator fired.                                                *)
EvaluateInsights(k, rules, f) ==
  {x \in rules \X {"", "warning", "critical"} :
     /\ x[1].enabled /\ x[1].status = "active"
     /\ x[1].key \in {{}, {k}}
     /\ x[2] \in registry(x[1], f)}

InsightSeverity(x) == IF x[2] = "" THEN x[1].severity ELSE x[2]

(* A push: opted in, visible in the report, warning or worse.               *)
Pushed(x) ==
  /\ x[1].notify /\ x[1].mode = "augment"
  /\ InsightSeverity(x) \in {"warning", "critical"}

LoadActiveRules(k) ==
  {r \in UNION {insight[i] : i \in InsightIds} : r.enabled /\ r.status = "active" /\ r.key \in {{}, {k}}}

-----------------------------------------------------------------------------
(* Operations on the rules.                                                 *)

SameNotes == UNCHANGED <<loaded, insightNote, snapshotTables>>

(* An unregistered condition, severity, mode or status is refused before    *)
(* the insert; a new rule defaults to an augmenting, enabled, active one.   *)
toInput(in) == in.condition \subseteq Evaluators

CreateReportRule(i, in) ==
  /\ insight[i] = {} /\ in.condition # {}
  /\ insight' = [insight EXCEPT ![i] =
       {[key |-> in.key, condition |-> CHOOSE c \in in.condition : TRUE, threshold |-> in.threshold,
         severity |-> in.severity, mode |-> in.mode, notify |-> in.notify, enabled |-> TRUE, status |-> "active"]}]

handleCreateReportRule(i, in) == toInput(in) /\ CreateReportRule(i, in) /\ SameNotes

(* An empty field keeps the column; the threshold is always overwritten.    *)
UpdateReportRule(i, in) ==
  \E r \in insight[i] :
    insight' = [insight EXCEPT ![i] =
      {[r EXCEPT !.key = IF in.key = {} THEN @ ELSE in.key,
                 !.condition = IF in.condition = {} THEN @ ELSE CHOOSE c \in in.condition : TRUE,
                 !.threshold = in.threshold, !.severity = in.severity, !.mode = in.mode,
                 !.notify = in.notify, !.status = in.status]}]

handleUpdateReportRule(i, in) == toInput(in) /\ UpdateReportRule(i, in) /\ SameNotes

SetReportRuleEnabled(i, b) ==
  \E r \in insight[i] : insight' = [insight EXCEPT ![i] = {[r EXCEPT !.enabled = b]}]

handleSetReportRuleEnabled(i, b) == SetReportRuleEnabled(i, b) /\ SameNotes

DeleteReportRule(i) ==
  /\ insight[i] # {} /\ i \notin SystemRules
  /\ insight' = [insight EXCEPT ![i] = {}]

handleDeleteReportRule(i) == DeleteReportRule(i) /\ SameNotes

(* A report run in two steps: its rules are read, then evaluated over the   *)
(* figures, and the pushes inserted as notifications.                       *)
LoadForRun(k) ==
  /\ loaded = {}
  /\ loaded' = {<<k, LoadActiveRules(k)>>}
  /\ UNCHANGED <<insight, insightNote, snapshotTables>>

runReportRules(f) ==
  \E run \in loaded :
    /\ insightNote' =
         {<<x[1].condition, InsightSeverity(x)>> : x \in {y \in EvaluateInsights(run[1], run[2], f) : Pushed(y)}}
    /\ loaded' = {}
    /\ UNCHANGED <<insight, snapshotTables>>

-----------------------------------------------------------------------------
SnapshotNext ==
  \/ \E c \in Captures, k \in ReportKeys, s \in ReportScopes :
       \E prev \in {{}} \cup {{i} : i \in DOMAIN snapshots} : handleCaptureSnapshot(c, k, s, prev)
  \/ \E c \in Captures : MaxRevisionForChain(c) \/ CaptureTx(c)
  \/ \E i \in DOMAIN snapshots : handleSignOffSnapshot(i) \/ handleReopenSnapshot(i)

InsightNext ==
  \/ \E i \in InsightIds, in \in RuleInputs : handleCreateReportRule(i, in) \/ handleUpdateReportRule(i, in)
  \/ \E i \in InsightIds, b \in BOOLEAN : handleSetReportRuleEnabled(i, b)
  \/ \E i \in InsightIds : handleDeleteReportRule(i)
  \/ \E k \in ReportKeys : LoadForRun(k)
  \/ \E f \in FactSheets : runReportRules(f)

-----------------------------------------------------------------------------
(* The history of a report and its scope has no gap and no fork: the        *)
(* revisions stored under a trimmed station, or none, are exactly 1..n, in  *)
(* the order they were captured, and no snapshot is superseded twice,       *)
(* however many captures, of untrimmed stations too, race between reading   *)
(* the last revision and inserting the next (reports_snapshots_handlers.go  *)
(* :236-:268, migration 0113).                                              *)
RevisionsFormAChain ==
  /\ \A k \in ReportKeys, s \in {stationFilterPtr(t) : t \in ReportScopes} :
       LET chain == Chain(k, s)
       IN \A i \in chain : snapshots[i].revision = Cardinality({j \in chain : j <= i})
  /\ \A i, j \in DOMAIN snapshots :
       (i # j /\ snapshots[i].prev = snapshots[j].prev) => snapshots[i].prev = {}

(* Migration 0113: "Each (tenant, report, scope) chain has ONE row per      *)
(* revision number", whose key "MIRRORS MaxRevisionForChain".  TLC refutes  *)
(* it: a station with blanks around it is looked up in the trimmed chain    *)
(* and stored beside it.                                                    *)
ScopeHasOneChain ==
  \A i, j \in DOMAIN snapshots :
    /\ snapshots[i].key = snapshots[j].key
    /\ stationFilterPtr(snapshots[i].scope) = stationFilterPtr(snapshots[j].scope)
    /\ snapshots[i].revision = snapshots[j].revision
    => i = j
=============================================================================
