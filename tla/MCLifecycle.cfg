CONSTANTS
  Events = {1, 2, 3}
  Failing = {1, 2}
  Margin = 4
  StopTimeout = 2
  FailSafe = 4
  MaxInterval = 2
  MaxTimeout = 2
  MaxLease = 6
  MaxRequests = 1
  MaxStarts = 2
  NoEvent = NoEvent
SPECIFICATION FairSpec
INVARIANTS TypeOK LeasesCoverClaims FailSafeOnlyWhenLate
PROPERTIES ExitsClean ShutdownEnds HealthyProcessed
