SPECIFICATION Spec
CONSTANTS
  AppThreads = {a1}
  NetThread = net
  NoThread = nobody
  Ctx = {c1, c2, c3}
  NoCtx = null
  FirstId = 1
  IdSpace = 4
  MaxTries = 1
  MaxPushes = 0
  MaxControls = 1
  Quiet = FALSE
  Nested = FALSE
SYMMETRY Symmetry
INVARIANTS UniqueIds CallbackOrder ReleasedWhenTold
