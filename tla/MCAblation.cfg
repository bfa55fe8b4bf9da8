\* Two invocations, any of their runs falling back or failing.
SPECIFICATION AblationSpec
CONSTANTS
  Params <- MCParams
  Values <- MCValues
  Defaults <- MCDefaults
  Experiments <- MCExperiments
  SEEDS = 2
  INVOCATIONS = 2
INVARIANTS RunsComparable CsvHoldsWholeExperiments FilesAgreeWhenFinished
CHECK_DEADLOCK FALSE
