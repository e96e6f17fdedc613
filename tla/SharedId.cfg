SPECIFICATION Spec
CONSTANTS
  AppThreads = {a1}
  NetThread = net
  NoThread = nobody
  Ctx = {c1, c2, c3}
  NoCtx = null
  FirstId = 1
  IdSpace = 6
  MaxTries = 0
  MaxPushes = 1
  MaxControls = 0
  Quiet = FALSE
  Nested = FALSE
SYMMETRY Symmetry
INVARIANT UniqueIds
