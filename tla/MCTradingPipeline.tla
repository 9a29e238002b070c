------------------------- MODULE MCTradingPipeline -------------------------
EXTENDS TradingPipeline, TLC

Symmetry == Permutations(Pipelines)

MCCandidates == {[side |-> "BUY", entry |-> 100, stop |-> 95],
                 [side |-> "SELL", entry |-> 100, stop |-> 120]}

MCMarkets == {[age |-> 100, spread |-> 1, news |-> "CLEAR"], [age |-> 5000, spread |-> 1, news |-> "CLEAR"],
              [age |-> 100, spread |-> 1, news |-> "IN_EVENT"], [age |-> 100, spread |-> 0, news |-> "CLEAR"]}

MCItem == [country |-> "USD", impact |-> "High", title |-> "CPI", date |-> 20]

\* A high-impact event, one of another currency, one of less impact, one
\* without a date.
MCFeeds == {<<MCItem, [MCItem EXCEPT !.country = "EUR", !.date = 40],
              [MCItem EXCEPT !.impact = "Medium", !.title = "PMI", !.date = 50],
              [MCItem EXCEPT !.date = None]>>}

MCConfigs == {[Defaults EXCEPT !.daily = 50, !.drawdown = 100, !.positions = 1, !.pct = 1, !.lots = 6]}

MCDays == {[realized |-> -50, floating |-> 0, open |-> 1000, topped |-> 0],
           [realized |-> 0, floating |-> 0, open |-> 1000, topped |-> 20]}
=============================================================================
