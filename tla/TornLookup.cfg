SPECIFICATION Spec
CONSTANTS
  AppThreads = {a1}
  NetThread = net
  NoThread = nobody
  Ctx = {c1, c2}
  NoCtx = null
  FirstId = 1
  IdSpace = 6
  MaxTries = 0
  MaxPushes = 0
  MaxControls = 0
  Quiet = FALSE
  Nested = FALSE
INVARIANT EndedIsTold
