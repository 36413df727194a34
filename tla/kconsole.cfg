CONSTANTS
  ProcMax = 3
  Creations = 1
  BufSize = 3
  MaxScans = 4
  MaxRw = 2
SPECIFICATION AhciSpec
INVARIANTS TypeOK ContextsKept RingFifo NoStuckShift TransfersHonest
PROPERTIES EveryoneRuns KeysDelivered
