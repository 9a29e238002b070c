SPECIFICATION FairSpec
CONSTANTS
  w = w
  m = m
  Evaluators = {w}
  Worker = w
  MaxCandles = 2
  MaxOrders = 2
  MaxLost = 0
  Ticks = {"late", "good"}
  Memory = {"stored"}
  Operator = {"enable", "account"}
INVARIANT OneOrderPerCandle
PROPERTIES CandleProcessed UnauthorisedEnds
