SPECIFICATION Spec
CONSTANTS
  None = None
  Turns = {1, 2}
  Limit = 6
  Upgrades <- MCUpgrades
  MaxEvents = 8
  MaxReplayed = 7
  MaxCrashes = 1
INVARIANTS
  EveryEventIsProjected
  SnapshotIsCovered
  ProjectionsAgree
  RebuiltAsBefore
\* The log is bounded.
CHECK_DEADLOCK FALSE
