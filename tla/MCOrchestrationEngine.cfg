SPECIFICATION FairSpec
CONSTANTS
  None = None
  p1 = p1
  t1 = t1
  k1 = k1
  k2 = k2
  k3 = k3
  k4 = k4
  Projects = {p1}
  Threads = {t1}
  Turns = {}
  Plans = {}
  TurnCounts <- MCTurnCounts
  Commands <- MCCommands
  Calls = {k1, k2, k3, k4}
  CommandOf <- MCCommandOf
  Subscribers = {s1}
  ReadLimit = 2
  Faults = {"lookup", "transaction", "commitReply", "readBack", "receipt"}
INVARIANTS
  ReadModelFollowsLog
  ReceiptsMatchLog
  SubscribersSeeEveryEvent
  ReadModelCoversWhatIsSeen
  AnswersAreTrue
PROPERTIES
  ImplementsCommandLog
  EveryCallIsAnswered
CHECK_DEADLOCK FALSE
