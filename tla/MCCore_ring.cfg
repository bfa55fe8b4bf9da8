\* The core, the distributor and the arbiter, as both harnesses drive them.
SPECIFICATION TbSpec
CONSTANTS
  Data <- MCData
  ZERO <- MCZero
  DEPTH = 4
  PTR_SPAN = 4
INVARIANTS RingInv TbInv OneBankPerRun
PROPERTIES ImplementsFifo OffersHeadOrDelivered GrantsAlternate
