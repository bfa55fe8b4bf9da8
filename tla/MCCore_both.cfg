\* Push and pop requested on the same edge.
SPECIFICATION FreeCoreSpec
CONSTANTS
  Data <- MCData
  ZERO <- MCZero
  DEPTH = 2
  PTR_SPAN = 2
PROPERTY ImplementsFifo
