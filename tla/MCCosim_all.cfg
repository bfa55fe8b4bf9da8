\* Every run of both processes, mmio_push storing in program order.  Both
\* exit, so the last state has no successor.
SPECIFICATION FairCosimSpec
CONSTANTS
  Data <- MCData
  ZERO <- MCZero
  DEPTH = 2
  PTR_SPAN = 2
  TIMEOUT = 2
  PushStores <- AsWritten
  DetVals <- MCDetVals
  DET_POPS = 1
  OPS = 1
  SWDEPTH = 2
INVARIANTS CosimTypeOK NoFabricatedPush 
PROPERTY CosimTermination
CHECK_DEADLOCK FALSE
