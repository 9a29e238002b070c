SPECIFICATION Spec
CONSTANTS
  w = w
  m = m
  Evaluators = {w, m}
  Worker = w
  MaxCandles = 1
  MaxOrders = 2
  MaxLost = 0
  Ticks = {"unparsable", "good"}
  Memory = {"enough"}
  Operator = {"enable"}
INVARIANT OneOrderPerCandle
