SPECIFICATION FairSpec
CONSTANTS
  AppThreads = {a1}
  NetThread = net
  NoThread = nobody
  Ctx = {c1, c2}
  NoCtx = null
  FirstId = 1
  IdSpace = 6
  MaxTries = 1
  MaxPushes = 1
  MaxControls = 1
  Quiet = TRUE
  Nested = TRUE
INVARIANTS UniqueIds EndedIsReleased
PROPERTY KeepsContract
