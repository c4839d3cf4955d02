SPECIFICATION MCSpec
CONSTANTS
  Calls = {c1, c2, c3}
  c1 = c1
  c2 = c2
  c3 = c3
  Ids = {s1, s2}
  s1 = s1
  s2 = s2
  Fallback = Fallback
  Body = Body
  None = None
SYMMETRY Symmetry
INVARIANT NoEmptyKeySent
INVARIANT SessionExplained
INVARIANT ReplyNamesItsSession
PROPERTY FailureKeepsSession
PROPERTY ServesWithSession
PROPERTY LoneCloseForgetsWhatItClosed
CHECK_DEADLOCK FALSE
