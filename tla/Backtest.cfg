SPECIFICATION Spec
CONSTANTS
  None = None
  Prices = {980, 1020, 1100}
  HalfSpread = 5
  MaxTicks = 7
  Indicators <- MCIndicators
  Ages = {0, 5000}
  Lookback = 1
  Risk <- MCRisk
  Initial = 10000
  Slippage = 1
  Commission = 1
INVARIANTS BooksBalance SummaryAgrees LossBound DrawdownReported StopAndTarget OneDirection
CHECK_DEADLOCK FALSE
