SPECIFICATION Spec
CONSTANTS
  MaxConns = 3
  MaxInbox = 2
  MaxDrops = 1
  MaxEarlyDrops = 1
  MaxCrashes = 0
  MaxErrors = 0
  MaxFailures = 0
  MaxFaults = 4
  MayStop = FALSE
PROPERTIES
  NoSplitBrain
CHECK_DEADLOCK FALSE
