SPECIFICATION FairSpec
CONSTANTS
  Calls = {c1}
  c1 = c1
  Ids = {s1}
  s1 = s1
  Models = {m1}
  m1 = m1
  None = None
  MaxSaved = 1
PROPERTY EveryCallEnds
CHECK_DEADLOCK FALSE
