SPECIFICATION Spec
CONSTANTS
  Calls = {c1, c2}
  c1 = c1
  c2 = c2
  Ids = {s1, s2}
  s1 = s1
  s2 = s2
  Fallback = Fallback
  Body = Body
  None = None
PROPERTY FallsBackWhenCreationFails
CHECK_DEADLOCK FALSE
