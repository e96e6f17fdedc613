SPECIFICATION Spec
CONSTANTS
  AppThreads = {a1, a2}
  NetThread = net
  NoThread = nobody
  Ctx = {c1, c2, c3}
  NoCtx = null
  FirstId = 2
  IdSpace = 4
  MaxTries = 0
  MaxPushes = 0
  MaxControls = 0
  Quiet = FALSE
  Nested = TRUE
SYMMETRY Symmetry
INVARIANTS TypeOK MemorySafe LockDiscipline Inductive
