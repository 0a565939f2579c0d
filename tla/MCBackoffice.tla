--------------------------- MODULE MCBackoffice ---------------------------
(***************************************************************************)
(* The back office on a small instance: sign-in and users, workforce and   *)
(* shift staffing, master data and dips, governance, price rollouts and    *)
(* stock transfers, risk and incidents, report records, the consumers of   *)
(* events, and the fleet customers.  Their tables are disjoint, so a       *)
(* behaviour explores one area and leaves the tables of the others as they *)
(* start; the areas that build on master data or on a roster start from    *)
(* the rows the earlier handlers leave.                                    *)
(***************************************************************************)
EXTENDS Governance, Distribution, Identity, Workforce, MasterData, Risk, ReportRecords, Consumers, Fleet

VARIABLE area

backofficeVars == <<area, governanceTables, distributionTables, identityTables, workforceTables, masterTables,
                    riskTables, recordTables, consumerTables, fleetTables>>

Areas ==
  {"scopes", "approvals", "retention", "rollouts", "transfers", "credentials", "sessions", "mfa", "people",
   "crew", "staffing", "estate", "plant", "nozzles", "dips", "rules", "alerts", "cases", "snapshots", "insights",
   "notices", "mpesa", "registry", "odometer", "agreements", "statements"}

----------------------------------------------------------------------------
(* The instance.                                                           *)
MCRegionOf  == [s \in Stations |-> "r1"]
MCCompanyOf == [s \in Stations |-> "co1"]
MCZoneOf    == [s \in Forecourts |-> IF s = "s1" THEN "z1" ELSE "z2"]

MCUserPermissions == {"users.manage", "users.invite", "users.assign_roles"}
MCGrants == [system_admin |-> MCUserPermissions, manager |-> MCUserPermissions, clerk |-> {"operations.read"}]

MCCalendar == {-4, 0, 2}
MCCharts   == {<<<<0, 0>>, <<2, 8>>, <<6, 10>>>>, <<<<1, 1>>>>, <<<<0, 0>>, <<4, 20>>>>}

MCObservations ==
  {[condition |-> "fuel_variance", subject |-> "a", station |-> "s1", value |-> 2, base |-> 1],
   [condition |-> "cash_shortage", subject |-> "c", station |-> "s1", value |-> 3, base |-> 1],
   [condition |-> "stockout", subject |-> "b", station |-> "s1", value |-> 1, base |-> 1],
   [condition |-> "supplier_shortage", subject |-> "d", station |-> "s1", value |-> 2, base |-> 1]}

MCThresholds == {{}, {2}}

MCSheets ==
  {[gross_current |-> 130, gross_prior |-> 100, gross_avg |-> 120, period_locked |-> FALSE],
   [cash_variance |-> -7, cash_tolerance |-> 3, tanks_over_tolerance |-> 1],
   [margin_current |-> 80, margin_prior |-> 100, overdue |-> 60, outstanding |-> 100, ordered_litres |-> 100,
    received_litres |-> 90, period_locked |-> TRUE]}

MCForm(c, sev, m, st) ==
  [key |-> {}, condition |-> c, threshold |-> {}, severity |-> sev, mode |-> m, notify |-> TRUE, status |-> st]

MCForms ==
  {MCForm({"cash_variance_over_tolerance"}, "info", "augment", "active"),
   [MCForm({"overdue_share"}, "info", "shadow", "active") EXCEPT !.threshold = {70}, !.key = {"k1"}],
   MCForm({}, "warning", "augment", "paused"),
   MCForm({"other"}, "warning", "augment", "active")}

Payload(type, users) == [type |-> type, users |-> users, cash |-> 0, difference |-> 0, rejected |-> FALSE]
MCEventOf ==
  [e1 |-> Payload("IncidentOpened", <<>>),
   e2 |-> Payload("ShiftApproved", <<"u1", "u2", "u1">>),
   e3 |-> [Payload("ShiftClosed", <<>>) EXCEPT !.cash = 1]]

MCTrimSpace == [t \in ReportScopes |-> IF t = " s1" THEN "s1" ELSE t]
MCDayPitch == [y1 |-> "s1", y2 |-> "s2"]

MCTerms == {[type |-> "fixed", value |-> {}], [type |-> "fixed", value |-> {4}], [type |-> "discount", value |-> {7}]}
MCWindows == {[from |-> 1, to |-> {1}], [from |-> 2, to |-> {}]}

----------------------------------------------------------------------------
(* Where each area starts.                                                 *)
PeopleStart ==
  /\ account = [u \in Accounts |-> IF u = "u1" THEN Seeded("p1", FALSE) ELSE Void]
  /\ roles = [u \in Accounts |-> IF u = "u1" THEN {"manager"} ELSE {}]
  /\ attempts = [u \in Accounts |-> 0] /\ access = [u \in Accounts |-> {}] /\ codes = [u \in Accounts |-> {}]
  /\ sessionRow = [s \in SessionIds |-> Void] /\ store = [s \in SessionIds |-> Void]
  /\ reset = {} /\ rehash = {} /\ usedTotp = {} /\ call = [c \in Callers |-> Free]

IdentityStart ==
  IF area = "people" THEN PeopleStart
  ELSE /\ IdentityInit
       /\ account["u2"] = Void
       /\ CASE area = "credentials" -> account["u1"] \in {Seeded("p1", old) : old \in BOOLEAN}
            [] area \in {"sessions", "mfa"} -> account["u1"] = Seeded("p1", FALSE)
            [] OTHER -> account["u1"] = Void

\* A station with its equipment, its teams and a rotation that starts on day 0.
WorkforceStart ==
  IF area = "staffing"
    THEN /\ post = {"pump_attendant"} /\ team = [s \in Sites |-> 0..2] /\ anchor = [s \in Sites |-> {0}]
         /\ employee = [e \in Crew |-> {[site |-> "t1", login |-> IF e = "e1" THEN {"l1"} ELSE {"l2"},
                                         role |-> "pump_attendant", status |-> "active"]}]
         /\ teamMember = {<<"t1", 0, "e1">>} /\ equipment = [s \in Sites |-> Equipped]
         /\ roster = [h \in ShiftIds |-> {}] /\ attendant = {} /\ hose = {}
         /\ attendance = [x \in ShiftIds \X Logins |-> "none"] /\ step = {} /\ todo = {}
    ELSE WorkforceInit /\ (area # "crew" => equipment = [s \in Sites |-> Bare])

MasterDataStart ==
  LET listed == [status |-> "active"]
      onSite == [status |-> "active", station |-> "s1"] IN
  IF area \in {"plant", "nozzles", "dips"}
    THEN /\ companies = [c \in FirmIds |-> listed] /\ regions = [g \in AreaIds |-> Row]
         /\ stations = [s \in PitchIds |-> listed] /\ products = [p \in GradeIds |-> IF area = "plant" /\ p = "f1" THEN Row ELSE listed]
         /\ tanks = [t \in TankIds |-> IF area = "plant" THEN Row
                                       ELSE [status |-> "active", station |-> "s1", product |-> "f1"]]
         /\ pumps = [p \in PumpIds |-> IF area = "nozzles" THEN [status |-> "active", station |-> "s1", number |-> 1] ELSE Row]
         /\ nozzles = [n \in NozzleIds |-> Row]
         /\ opened = {} /\ metered = {} /\ calibrated = {} /\ charts = <<>> /\ dips = <<>> /\ watch = "open" /\ pending = {}
    ELSE MasterDataInit

\* One active rule, which alerts on any fuel variance.
AlertsStart ==
  /\ riskRule = [r \in RuleIds |-> {[condition |-> "fuel_variance", severity |-> "high", threshold |-> {},
                                     status |-> "active", enabled |-> TRUE]}]
  /\ observed = {} /\ riskAlert = <<>> /\ suppression = {} /\ riskScore = [s \in Scored |-> {}]
  /\ pass = [d \in Passes |-> NoPass] /\ case_ = [c \in CaseIds |-> {}] /\ caseAlert = {}
  /\ incident = [i \in IncidentIds |-> {}]

MCInit ==
  /\ area \in Areas
  /\ GovernanceInit /\ DistributionInit /\ ReportRecordsInit /\ ConsumersInit /\ FleetInit
  /\ IdentityStart /\ WorkforceStart /\ MasterDataStart
  /\ IF area = "alerts" THEN AlertsStart ELSE RiskInit

----------------------------------------------------------------------------
(* The steps of each area, with the bounds that keep them apart.           *)
OneAccount == attempts'["u2"] = 0 /\ \A c \in Callers : "user" \in DOMAIN call'[c] => call'[c].user = "u1"

\* One request at a time, one login counted, and one role for the second user.
FewPeople ==
  /\ attempts'["u1"] <= 1 /\ attempts'["u2"] = 0 /\ call'["c2"] = Free
  /\ roles'["u1"] \subseteq {"manager"} /\ Cardinality(roles'["u2"]) <= 1 /\ access'["u1"] = {}

\* One login, claimed by two employees, of whom the second keeps the post.
FewLinks ==
  /\ \A r \in employee'["e2"] : r.role = "pump_attendant"
  /\ \A e \in Crew : \A r \in employee'[e] : r.login \subseteq {"l1"}
  /\ \A x \in step' : x[2] = "tanks"

GovernanceArea ==
  \/ area = "scopes" /\ ScopeNext
  \/ area = "approvals" /\ ApprovalNext
  \/ area = "retention" /\ RetentionNext

DistributionArea ==
  \/ area = "rollouts" /\ RolloutNext
  \/ area = "transfers" /\ TransferNext

IdentityArea ==
  \/ area = "credentials" /\ CredentialNext /\ OneAccount /\ call'["c2"].op \in {"idle", "change", "revoking"}
  \/ area = "sessions" /\ SessionNext /\ OneAccount
  \/ area = "mfa" /\ MfaNext /\ OneAccount /\ attempts'["u1"] <= 1
  \/ area = "people" /\ PeopleNext /\ FewPeople

MasterArea ==
  \/ area = "estate" /\ EstateNext
  \/ area = "plant" /\ PlantNext /\ products'["f2"] = products["f2"] /\ (IF pumps'["p1"] = Row THEN TRUE ELSE pumps'["p1"].number = 1)
  \/ area = "nozzles" /\ NozzleNext
  \/ area = "dips" /\ DipNext /\ Len(charts') <= 2

RiskArea ==
  \/ area = "rules" /\ RuleNext /\ Cardinality(observed') <= 1 /\ pass'["d2"] = NoPass
  \/ /\ area = "alerts" /\ AlertNext
     /\ \A o \in observed' : o.condition = "fuel_variance"
     /\ suppression' \subseteq {[type |-> "fuel_variance", stations |-> {"s1"}]}
  \/ area = "cases" /\ CaseNext

RecordArea ==
  \/ area = "snapshots" /\ Len(snapshots) < MaxSnapshots /\ SnapshotNext /\ UNCHANGED insightTables
  \/ area = "insights" /\ InsightNext /\ UNCHANGED snapshotTables

ConsumerArea ==
  \/ area = "notices" /\ NoticeNext
  \/ area = "mpesa" /\ MpesaNext

FleetArea ==
  \/ area = "registry" /\ RegistryNext
  \/ area = "odometer" /\ OdometerNext
  \/ area = "agreements" /\ AgreementNext
  \/ area = "statements" /\ statement["s2"] = {} /\ StatementNext /\ (statement'["s2"] # {} => statement'["s1"] # {})

WorkforceArea ==
  \/ area = "crew" /\ CrewNext /\ FewLinks
  \/ area = "staffing" /\ StaffingNext

MCNext ==
  /\ UNCHANGED area
  /\ \/ GovernanceArea /\ UNCHANGED <<distributionTables, identityTables, workforceTables, masterTables, riskTables, recordTables, consumerTables, fleetTables>>
     \/ DistributionArea /\ UNCHANGED <<governanceTables, identityTables, workforceTables, masterTables, riskTables, recordTables, consumerTables, fleetTables>>
     \/ IdentityArea /\ UNCHANGED <<governanceTables, distributionTables, workforceTables, masterTables, riskTables, recordTables, consumerTables, fleetTables>>
     \/ WorkforceArea /\ UNCHANGED <<governanceTables, distributionTables, identityTables, masterTables, riskTables, recordTables, consumerTables, fleetTables>>
     \/ MasterArea /\ UNCHANGED <<governanceTables, distributionTables, identityTables, workforceTables, riskTables, recordTables, consumerTables, fleetTables>>
     \/ RiskArea /\ UNCHANGED <<governanceTables, distributionTables, identityTables, workforceTables, masterTables, recordTables, consumerTables, fleetTables>>
     \/ RecordArea /\ UNCHANGED <<governanceTables, distributionTables, identityTables, workforceTables, masterTables, riskTables, consumerTables, fleetTables>>
     \/ ConsumerArea /\ UNCHANGED <<governanceTables, distributionTables, identityTables, workforceTables, masterTables, riskTables, recordTables, fleetTables>>
     \/ FleetArea /\ UNCHANGED <<governanceTables, distributionTables, identityTables, workforceTables, masterTables, riskTables, recordTables, consumerTables>>

MCSpec == MCInit /\ [][MCNext]_backofficeVars
=============================================================================
