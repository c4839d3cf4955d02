SPECIFICATION FairSpec
CONSTANTS
  Modes = {g1}
  g1 = g1
  Models = {m1, m2}
  m1 = m1
  m2 = m2
  None = None
  MaxFaults = 3
PROPERTY ConfigChangesWhole
PROPERTY ComesUpManaged
PROPERTY SessionsKept
PROPERTY BootsAgain
