SPECIFICATION Spec
CONSTANTS
  s1 = s1
  r1 = r1
  r2 = r2
  c1 = c1
  c2 = c2
  NoCard = NoCard
  Session = {s1}
  Run = {r1, r2}
  Card = {c1, c2}
  SessionOf <- AllOfS1
  RunOf <- AllOfR1
  MaxGen = 2
  MaxRestarts = 0
  CardsPerPause = 2
CONSTRAINTS
  OneProcessForTwo
  OneProcessForMany
SYMMETRY Symmetry
INVARIANTS
  TypeOK
  LiveRuntimeIsCurrent
  PausedRunIsIdle
  ResumeNamesOpenCard
  NoSwallowedDecision
  FirstLegIsOwned
PROPERTIES
  DecisionLedger
CHECK_DEADLOCK FALSE
