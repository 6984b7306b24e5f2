SPECIFICATION Spec
CONSTANTS
  a = a
  b = b
  NoClaim = NoClaim
  Claim = {a, b}
  Repeat = 2
  MaxRestarts = 1
PROPERTIES
  EndedAgentRunStays
CHECK_DEADLOCK FALSE
