SPECIFICATION FairSpec
CONSTANTS
  MaxEvents = 5
  ReplayMayFail = FALSE
PROPERTIES
  EveryEventIsDelivered
\* A bounded number of events is committed.
CHECK_DEADLOCK FALSE
