SPECIFICATION Spec
CONSTANTS
  s1 = s1
  r1 = r1
  r2 = r2
  c1 = c1
  c2 = c2
  NoCard = NoCard
  Session = {s1}
  Run = {r1, r2}
  Card = {}
  SessionOf <- AllOfS1
  RunOf <- AllOfR1
  MaxGen = 1
  MaxRestarts = 0
  CardsPerPause = 1
INVARIANTS
  OneActiveRun
CHECK_DEADLOCK FALSE
