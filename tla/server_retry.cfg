SPECIFICATION Spec
CONSTANTS
  Requests = {r1, r2}
  r1 = r1
  r2 = r2
  NoRuntime = NoRuntime
  Serialised = TRUE
  MayGiveUp = TRUE
INVARIANT SecondSpawnRefused
CHECK_DEADLOCK FALSE
