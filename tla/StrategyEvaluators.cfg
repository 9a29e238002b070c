SPECIFICATION Spec
CONSTANTS
  w = w
  m = m
  Evaluators = {w, m}
  Worker = w
  MaxCandles = 1
  MaxOrders = 1
  MaxLost = 1
  Ticks = {"stale", "good"}
  Memory = {"enough"}
  Operator = {"enable", "disable", "kill"}
PROPERTY StopsRespected
