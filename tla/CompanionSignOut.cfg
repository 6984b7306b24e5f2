SPECIFICATION LiveSpec
CONSTANTS
  o1 = o1
  o2 = o2
  o3 = o3
  NoOp = NoOp
  Op = {o1}
  Kind <- OneWindow
  MaxCompleted = 1
  MaxPending = 1
  MaxSends = 2
  MaxCrashes = 1
  MaxLogouts = 2
  MaxPairings = 2
INVARIANTS
  ActivityIsHeld
  SignOutIsQuiet
  SignedOutHoldsNothing
PROPERTIES
  RequestsEnd
  SignOutEnds
CHECK_DEADLOCK FALSE
