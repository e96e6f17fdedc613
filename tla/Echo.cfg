SPECIFICATION DemoSpec
CONSTANTS
  Listen = listen
  Conns = {k1, k2}
  BufSize = 2
  MaxEvents = 1
  MaxBytes = 3
  FdLimits = {1, 2}
  Demo = k1
  IntBytes = 1
  TextBytes = 2
INVARIANTS TypeOK NothingLost WritesWhenFull
PROPERTIES EchoesAll ClientEnds
CHECK_DEADLOCK FALSE
