\* Every sequence of ticks over a queue of two.
SPECIFICATION VtSpec
CONSTANTS
  Data <- MCData
  ZERO <- MCZero
  DEPTH = 2
INVARIANT VtTypeOK
PROPERTIES TickIsEdge ImplementsFifo
