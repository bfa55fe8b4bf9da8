\* Every trace of six lines over two words.
SPECIFICATION OracleSpec
CONSTANTS
  Data <- MCData
  ZERO = "a"
  MaxLines = 6
INVARIANTS OracleInv VerdictIsReference
CHECK_DEADLOCK FALSE
