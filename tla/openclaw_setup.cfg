SPECIFICATION MCFairSetup
CONSTANTS
  Calls = {c1, c2}
  c1 = c1
  c2 = c2
  Applies = {"plain"}
  Ids = {s1}
  s1 = s1
  Fallback = Fallback
  Body = Body
  None = None
  User = User
  Other = Other
  MaxNesting = 4
  SpawnTags <- MCSpawnTags
  ConfigTags <- MCConfigTags
  HashAnswers <- MCHashAnswers
CHECK_DEADLOCK FALSE

INVARIANT KeyBelongsToModel
PROPERTY SpawnDoesWhatTagsAsk
PROPERTY PatchOnWhatWasRead
PROPERTY PairingApproved
PROPERTY ImplementsRuntime
PROPERTY EndsUnlessHeld
