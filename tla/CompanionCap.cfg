SPECIFICATION Spec
CONSTANTS
  o1 = o1
  o2 = o2
  o3 = o3
  NoOp = NoOp
  Op = {o1, o2, o3}
  Kind <- WithRevoke
  MaxCompleted = 1
  MaxPending = 2
  MaxSends = 2
  MaxCrashes = 1
  MaxLogouts = 0
  MaxPairings = 0
PROPERTIES
  OthersSpareReservations
CHECK_DEADLOCK FALSE
