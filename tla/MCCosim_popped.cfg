\* The word a pop returns against the word the core delivered.
SPECIFICATION CosimSpec
CONSTANTS
  Data <- MCData
  ZERO <- MCZero
  DEPTH = 2
  PTR_SPAN = 2
  TIMEOUT = 2
  PushStores <- AsWritten
  DetVals <- MCDetVals
  DET_POPS = 1
  OPS = 1
  SWDEPTH = 2
PROPERTY PopReturnsPoppedWord
CHECK_DEADLOCK FALSE
