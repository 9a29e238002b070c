----------------------------- MODULE MCBacktest -----------------------------
EXTENDS Backtest

MCUp == [fast |-> 1030, slow |-> 1020, adx |-> 25, rsi |-> 60, atr |-> 20, base |-> 20]

MCIndicators == {MCUp,
                 [MCUp EXCEPT !.fast = 1010, !.rsi = 40],
                 [MCUp EXCEPT !.adx = 15],
                 [MCUp EXCEPT !.atr = 8, !.base = None],
                 None}

MCRisk == [Defaults EXCEPT !.daily = 500, !.drawdown = 1000, !.positions = 2, !.pct = 1]
=============================================================================
