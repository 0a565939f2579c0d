SPECIFICATION MCSpec
CONSTANTS
  Users = {"u1", "u2", "u3"}
  Stations = {"s1", "s2"}
  Groups = {"g1"}
  Regions = {"r1"}
  Companies = {"co1"}
  RegionOf <- MCRegionOf
  CompanyOf <- MCCompanyOf
  MaxGrants = 2
  Policies = {"p1", "p2"}
  ApprovalIds = {"q1"}
  Amounts = {1, 2}
  Quorums = {1, 2}
  ChangeIds = {"c1", "c2"}
  Periods = {"d1"}
  RetentionScopes = {"x1"}
  Forecourts = {"s1", "s2"}
  Zones = {"z1", "z2"}
  ZoneOf <- MCZoneOf
  Rollouts = {"o1"}
  Plans = {"p1"}
  Tanks = {1, 2}
  Fuels = {"f1", "f2"}
  Transfers = {"x1", "x2"}
  Quantities = {1, 2}
  OpeningStock = 1
  Carriers = {"k1", "k2"}
  NoOrder = NoOrder
  Accounts = {"u1", "u2"}
  Passwords = {"p1", "p2"}
  SessionIds = {"s1"}
  Callers = {"c1", "c2"}
  LoginRateMax = 2
  LoginLockAfter = 2
  Codes = {"b1"}
  Grants <- MCGrants
  TenantWideRoles = {}
  rolesRequiringMfa = {"system_admin"}
  StationScoped = {}
  Outlets = {"o1"}
  MaxEpoch = 1
  MaxSecret = 2
  Void = Void
  Crew = {"e1", "e2"}
  Logins = {"l1", "l2"}
  Sites = {"t1"}
  Calendar <- MCCalendar
  ShiftIds = {"h1"}
  Hoses = {"n1"}
  MaxTodo = 2
  FirmIds = {"c1"}
  AreaIds = {"g1"}
  PitchIds = {"s1"}
  GradeIds = {"f1", "f2"}
  TankIds = {"t1"}
  PumpIds = {"p1"}
  NozzleIds = {"n1"}
  Numbers = {1, 2}
  Charts <- MCCharts
  Depths = {2, 3}
  Capacity = 10
  MaxDips = 3
  MaxPending = 2
  RuleIds = {"r1"}
  Conditions = {"fuel_variance", "cash_shortage", "stockout", "supplier_shortage", "other"}
  Observations <- MCObservations
  Severities = {"high"}
  Thresholds <- MCThresholds
  Passes = {"d1", "d2"}
  CaseIds = {"k1"}
  DedupeKeys = {"key"}
  IncidentIds = {"i1", "i2"}
  ShiftStations = {"s1"}
  MaxRaised = 2
  ReportKeys = {"k1"}
  ReportScopes = {"s1", " s1"}
  TrimSpace <- MCTrimSpace
  Captures = {"c1", "c2"}
  MaxSnapshots = 3
  InsightIds = {"i1", "i2"}
  Evaluators = {"period_over_period", "variance_vs_average", "cash_variance_over_tolerance", "tank_over_tolerance", "margin_health", "overdue_share", "delivery_shortfall", "period_unlocked"}
  FactSheets <- MCSheets
  SystemRules = {"i1"}
  RuleInputs <- MCForms
  Deliverers = {"d1", "d2"}
  BusEvents = {"e1", "e2", "e3"}
  EventOf <- MCEventOf
  Readers = {"u1", "u2"}
  Categories = {"c"}
  Checkouts = {"c1", "c2"}
  MpesaDays = {"y1", "y2"}
  DayPitch <- MCDayPitch
  Pitches = {"s1", "s2"}
  ContactIds = {"k1"}
  VehicleIds = {"v1"}
  DriverIds = {"d1"}
  Agreements = {"a1", "a2"}
  Statements = {"s1", "s2"}
  Odometers = {1, 2, 3}
  Gauges = {"g1", "g2"}
  FleetPitches = {"p1", "p2"}
  PriceTerms <- MCTerms
  Windows <- MCWindows
  Retail = 5
  EntryAmounts = {1}
  Posters = {"w1"}
  LastDay = 2
  MaxEntries = 2
  MaxReadings = 3
INVARIANTS ApprovedByEnough TransfersConserve NoTransferDeadlock PasswordChangeEndsSessions RosterRotates DeeperDipIsMore OneLiveAlert RevisionsFormAChain EmailedOnce ReconciledIsPaid StatementsFollowOn
CHECK_DEADLOCK FALSE
