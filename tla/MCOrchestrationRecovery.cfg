SPECIFICATION FairSpec
CONSTANTS
  MaxEvents = 3
  MaxDrops = 2
  MaxWelcomes = 1
  MaxFailures = 2
  MaxRetries = 1
INVARIANTS
  StoreMatchesLatest
  RestsInSync
PROPERTIES
  ObservedIsApplied
\* A bounded number of events is committed.
CHECK_DEADLOCK FALSE
