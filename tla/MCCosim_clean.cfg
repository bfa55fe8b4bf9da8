\* The clean runs, with enough random operations to be refused and to wrap.
\* Both processes exit, so the last state has no successor.
SPECIFICATION CosimSpec
CONSTANTS
  Data <- MCWords
  ZERO <- MCZero
  DEPTH = 4
  PTR_SPAN = 4
  TIMEOUT = 2
  PushStores <- AsWritten
  DetVals <- MCThreeVals
  DET_POPS = 1
  OPS = 5
  SWDEPTH = 4
CONSTRAINT OnlyClean
INVARIANTS CleanLedger CleanOutcome CleanSwbufIsSuffix StatusLagsOneCall
PROPERTY CleanPopReturnsNext
CHECK_DEADLOCK FALSE
