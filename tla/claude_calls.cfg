SPECIFICATION FairSpec
CONSTANTS
  Calls = {c1, c2}
  c1 = c1
  c2 = c2
  Ids = {s1, s2}
  s1 = s1
  s2 = s2
  Models = {m1, m2}
  m1 = m1
  m2 = m2
  None = None
  MaxSaved = 1
INVARIANT FailedSessionNotAdopted
INVARIANT RetryContinues
INVARIANT AcknowledgedTurnsKept
INVARIANT ReplyNamesItsSession
PROPERTY SettingStable
PROPERTY EndsUnlessHeld
CHECK_DEADLOCK FALSE
