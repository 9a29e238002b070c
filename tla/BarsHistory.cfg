SPECIFICATION FairSpec
CONSTANTS
  w = w
  m = m
  None = None
  Evaluators = {w, m}
  Interval = 2
  Copied = 2
  Need = 2
  Cap = 2
  Start = 4
  MaxTime = 6
  MaxQueue = 1
  MaxRestarts = 1
  MaxLosses = 1
INVARIANTS
  NoLookahead
  OwnTicks
PROPERTIES
  WarmsUp
