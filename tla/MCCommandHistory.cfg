SPECIFICATION LogSpec
CONSTANTS
  None = None
  p1 = p1
  p2 = p2
  t1 = t1
  t2 = t2
  turnA = turnA
  turnB = turnB
  plan1 = plan1
  Projects = {p1, p2}
  Threads = {t1, t2}
  Turns = {turnA, turnB}
  Plans = {plan1}
  TurnCounts <- MCTurnCounts
  Commands <- MCCommands
CONSTRAINT OneFamily
INVARIANTS
  PlansFollowHistory
  TurnsStartFromSurvivingPlans
  CreatedOnceAndFirst
\* Every command is decided once.
CHECK_DEADLOCK FALSE
