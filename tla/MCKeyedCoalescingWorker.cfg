SPECIFICATION FairSpec
CONSTANTS
  None = None
  keyA = keyA
  keyB = keyB
  Keys <- MCKeys
  MaxSends = 3
  MayFail = TRUE
INVARIANTS
  DrainWaitsForAll
PROPERTIES
  ImplementsMailbox
  EveryKeyIsDrained
\* All values are enqueued and handed on.
CHECK_DEADLOCK FALSE
