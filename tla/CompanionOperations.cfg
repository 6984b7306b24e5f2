SPECIFICATION Spec
CONSTANTS
  o1 = o1
  o2 = o2
  o3 = o3
  NoOp = NoOp
  Op = {o1, o2, o3}
  Kind <- WindowDesktopRead
  MaxCompleted = 3
  MaxPending = 1
  MaxSends = 2
  MaxCrashes = 2
  MaxLogouts = 0
  MaxPairings = 0
INVARIANTS
  TypeOK
  FinalAnswersAgree
PROPERTIES
  OneOutcome
CHECK_DEADLOCK FALSE
