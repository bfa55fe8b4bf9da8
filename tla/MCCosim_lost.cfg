\* Requests stored between the bridge's two stores of an answer.
SPECIFICATION CosimSpec
CONSTANTS
  Data <- MCData
  ZERO <- MCZero
  DEPTH = 2
  PTR_SPAN = 2
  TIMEOUT = 3
  PushStores <- AsWritten
  DetVals <- MCDetVals
  DET_POPS = 1
  OPS = 1
  SWDEPTH = 2
INVARIANT NoLostRequest
CHECK_DEADLOCK FALSE
