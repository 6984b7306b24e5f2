SPECIFICATION FairSpec
CONSTANTS
  Pass = {1, 2}
  NoPass = 0
  Source = {1, 2}
  t1 = t1
  t2 = t2
  f = f
  g = g
  Span = {t1, t2, f, g}
  NoSpan = NoSpan
  SourceOf <- MCSourceOf
  Fallback = {f}
  Plans <- MCPlans
  MaxConfig = 2
  MaxEdits = 1
  MaxRestarts = 1
  MaxFaults = 1
INVARIANTS TypeOK OnePass RequestsHoldJobs CertifiedText GeneratesFromPlan
PROPERTIES TextStays NoteSettles
CHECK_DEADLOCK FALSE
