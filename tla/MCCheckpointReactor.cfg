SPECIFICATION FairSpec
CONSTANTS
  None = None
  turnA = turnA
  turnB = turnB
  Turns = {turnA, turnB}
  Scenarios <- MCScenarios
INVARIANTS
  PlaceholdersAreReplaced
  TurnsAreCaptured
  CapturesHaveRefs
PROPERTIES
  EveryRevertIsAnswered
\* The provider is given a bounded number of turns and reverts.
CHECK_DEADLOCK FALSE
