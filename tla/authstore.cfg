SPECIFICATION MCSpec
CONSTANTS
  Writers = {w1, w2, w3}
  w1 = w1
  w2 = w2
  w3 = w3
  Profiles = {p1, p2}
  p1 = p1
  p2 = p2
  Before = Before
  None = None
SYMMETRY Symmetry
INVARIANT LoneKeysStored
INVARIANT LoneUpsertHeals
PROPERTY OneUpsertAtATime
CHECK_DEADLOCK FALSE
