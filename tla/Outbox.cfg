SPECIFICATION FairSpec
CONSTANTS
  Event <- ThreeEvents
  Publisher = {p1, p2}
  Poison = {2}
  BatchSize = 2
  MaxAttempts = 2
  MaxOutages = 1
  MaxCrashes = 1
PROPERTIES KeepsPromise RowsSettle EventsArePublished
