SPECIFICATION FairSpec
CONSTANTS
  a = a
  b = b
  NoClaim = NoClaim
  Claim = {a}
  Repeat = 2
  MaxRestarts = 2
PROPERTIES
  ClaimsEnd
CHECK_DEADLOCK FALSE
