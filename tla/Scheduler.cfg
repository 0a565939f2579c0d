SPECIFICATION MCFairSpec
CONSTANTS
  a = a
  b = b
  e1 = e1
  e2 = e2
  w1 = w1
  w2 = w2
  Replica <- Replicas
  Slot <- Slots
  MaxFaults = 3
  NoConn = NoConn
  Workers <- MCWorkers
  MaxJobs = 2
  exportWorkerBatch = 2
  maxExportAttempts = 2
  MaxExportFaults = 2
  Nobody = Nobody
  HoursPerDay = 2
  MinutesPerHour = 2
  Starts <- MCStarts
  Schedules <- Daily
  Horizon <- MCHorizon
  Channels = {"email"}
  Recipients = 1
  Editors <- MCEditors
  MaxEdits = 3
  Unscheduled = Unscheduled
INVARIANTS OneRenderer NextRunIsLeast ReceiptIsDownloadable
PROPERTIES JobKeepsRunning StopDrains ExportsSettle ResultIsFinal
CHECK_DEADLOCK FALSE
