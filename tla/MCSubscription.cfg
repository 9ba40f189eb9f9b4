SPECIFICATION FairSpec
CONSTANTS
  MaxEvents = 5
  ReplayMayFail = TRUE
INVARIANTS
  DeliveredInOrder
PROPERTIES
  DeliveredUnlessLost
\* A bounded number of events is committed.
CHECK_DEADLOCK FALSE
