SPECIFICATION Spec
CONSTANTS
  Magic = 90
  Beat = 80
  NoopId = 70
  PushEnd = 3
  FirstId = 3
  MaxPackage = 5
  Bodies <- MCBodies
  MaxSends = 1
  MaxDrops = 0
  Paced = TRUE
PROPERTY PushIsBody
