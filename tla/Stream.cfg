SPECIFICATION FairSpec
CONSTANTS
  Magic = 90
  Beat = 80
  NoopId = 70
  PushEnd = 3
  FirstId = 3
  MaxPackage = 5
  Bodies <- MCBodies
  MaxSends = 4
  MaxDrops = 1
  Paced = TRUE
INVARIANTS TypeOK NothingStuck
PROPERTIES OnlyTooLargeRefused StreamIsFifo
