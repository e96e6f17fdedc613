SPECIFICATION FairSpec
CONSTANTS
  Threads = {t1, t2}
  NoThread = nobody
  MaxCount = 2
  Milliseconds = {0, 1100}
  FirstUsecs = {0, 999999}
  Ticks = {500000, 700000}
  LastSecond = 4
INVARIANTS TypeOK HeldIsCount AbortOnlyOnMisuse Inductive
PROPERTIES NoEarlyTimeout TimedReturns
