\* Every pair of working directories, --mmio included, one killed bridge.
SPECIFICATION FairStartupSpec
CONSTANTS
  HostDirs <- AllDirs
  BridgeDirs <- AllDirs
  Explicit <- AnyExplicit
  CALLS = 1
  KILLS = 1
INVARIANT FaultOnlyOnNewFile
PROPERTIES IgnoresOldSession HostStopsBridge
CHECK_DEADLOCK FALSE
