SPECIFICATION Spec
CONSTANTS
  Environments <- MCEnvironments
  RequestTags <- MCRequestTags
  Ids = {s1, s2}
  s1 = s1
  s2 = s2
  None = None
  MaxSaved = 2
INVARIANT RestoredInKind
INVARIANT MigrationKeepsState
INVARIANT OneBot
INVARIANT FlagsAsMeant
