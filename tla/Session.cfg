SPECIFICATION FairSpec
CONSTANTS
  MaxConns = 3
  MaxInbox = 1
  MaxDrops = 2
  MaxEarlyDrops = 1
  MaxCrashes = 1
  MaxErrors = 1
  MaxFailures = 1
  MaxFaults = 2
  MayStop = TRUE
INVARIANTS TypeOK WelcomedByItsHello RegisteredIsServed
PROPERTIES OnlyOwnUnregistered Recovers OfflineIsReported
CHECK_DEADLOCK FALSE
