SPECIFICATION Spec
CONSTANTS
  a = a
  b = b
  NoClaim = NoClaim
  Claim = {a, b}
  Repeat = 2
  MaxRestarts = 2
INVARIANTS
  TypeOK
  SingleFlight
  ActiveHoldsClaim
  CountedOnce
PROPERTIES
  OccurrenceServed
  WaitingSurvives
CHECK_DEADLOCK FALSE
