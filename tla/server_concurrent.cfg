SPECIFICATION Spec
CONSTANTS
  Requests = {r1, r2, r3, r4}
  r1 = r1
  r2 = r2
  r3 = r3
  r4 = r4
  NoRuntime = NoRuntime
  Serialised = FALSE
  MayGiveUp = TRUE
SYMMETRY Symmetry
INVARIANT NoCallOnNil
INVARIANT OnlyBuiltRuntimesServe
INVARIANT AcknowledgementHolds
INVARIANT NoOrphanRuntime
PROPERTY ImplementsLifecycle
CHECK_DEADLOCK FALSE
