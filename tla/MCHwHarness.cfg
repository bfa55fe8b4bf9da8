\* The whole HW-only harness.  It exits, so the last state has no successor.
SPECIFICATION HwSpec
CONSTANTS
  Data <- MCData
  ZERO <- MCZero
  DEPTH = 4
  PTR_SPAN = 4
  DetScript <- MCDetScript
  OPS = 7
INVARIANTS HwInv MetricsBalance
PROPERTY HwTermination
CHECK_DEADLOCK FALSE
