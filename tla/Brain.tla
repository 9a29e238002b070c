-------------------------------- MODULE Brain --------------------------------
(***************************************************************************)
(* The analytical stages of the Brain on a sequence of closed bars: market *)
(* structure (structure.py), regime (regime.py), setup (setups.py), the    *)
(* six-factor score with its stop and target (scoring.py), and their order *)
(* (pipeline.py).                                                          *)
(*                                                                         *)
(* Prices and the ATR are integers in one unit, ten of which are a dollar. *)
(* The averages of indicators.py are inputs: a record of their values for  *)
(* the bars at hand, None while there are too few bars for them.  A score  *)
(* is in thousandths.                                                      *)
(***************************************************************************)
EXTENDS Integers, Sequences

CONSTANT None

-----------------------------------------------------------------------------
(* Market structure.                                                       *)

SwingHighs(bars, lookback) ==
    {i \in (lookback + 1)..(Len(bars) - lookback) :
        \A j \in (i - lookback)..(i + lookback) : j # i => bars[i].high > bars[j].high}

SwingLows(bars, lookback) ==
    {i \in (lookback + 1)..(Len(bars) - lookback) :
        \A j \in (i - lookback)..(i + lookback) : j # i => bars[i].low < bars[j].low}

(* Prices of the swings: the latest and the one before it.                 *)
Latest(S) == CHOOSE i \in S : \A j \in S : j <= i
Prior(S)  == Latest(S \ {Latest(S)})
Two(S)    == \E i, j \in S : i # j

(* Displacement of 0.30 ATR.                                               *)
Above(q, p, atr) == 10 * q > 10 * p + 3 * atr

Direction(up, down) == IF up THEN "UP" ELSE IF down THEN "DOWN" ELSE "NEUTRAL"

analyze_structure(bars, lookback, atr) ==
    LET H  == SwingHighs(bars, lookback)
        L  == SwingLows(bars, lookback)
        hh == Two(H) /\ Above(bars[Latest(H)].high, bars[Prior(H)].high, atr)
        lh == Two(H) /\ Above(bars[Prior(H)].high, bars[Latest(H)].high, atr)
        hl == Two(L) /\ Above(bars[Latest(L)].low, bars[Prior(L)].low, atr)
        ll == Two(L) /\ Above(bars[Prior(L)].low, bars[Latest(L)].low, atr)
        event == IF hh /\ hl THEN "BOS_BULLISH" ELSE IF lh /\ ll THEN "BOS_BEARISH"
                 ELSE IF lh /\ hl THEN "CHOCH_BULLISH" ELSE IF hh /\ ll THEN "CHOCH_BEARISH" ELSE "NONE"
    IN  [high  |-> IF H = {} THEN None ELSE bars[Latest(H)].high,
         low   |-> IF L = {} THEN None ELSE bars[Latest(L)].low,
         event |-> event,
         bias  |-> CASE event = "BOS_BULLISH" -> "BULLISH" [] event = "BOS_BEARISH" -> "BEARISH"
                     [] OTHER -> "NEUTRAL",
         direction |-> IF Two(H) /\ Two(L)
                       THEN Direction(event \in {"BOS_BULLISH", "CHOCH_BULLISH"},
                                      event \in {"BOS_BEARISH", "CHOCH_BEARISH"})
                       ELSE IF Two(H) THEN Direction(hh, lh)
                       ELSE Direction(hl, ll)]

-----------------------------------------------------------------------------
(* Regime.                                                                 *)

Trend(x) ==
    IF x.fast > x.slow THEN "BULLISH" ELSE IF x.fast < x.slow THEN "BEARISH" ELSE "NEUTRAL"

Strength(x) ==
    IF x.adx # None THEN (IF x.adx >= 20 THEN "TRENDING" ELSE "WEAK")
    ELSE IF Trend(x) # "NEUTRAL" THEN "TRENDING" ELSE "UNKNOWN"

Momentum(x) ==
    IF (Trend(x) = "BULLISH" /\ x.rsi >= 70) \/ (Trend(x) = "BEARISH" /\ x.rsi <= 30) THEN "EXHAUSTED"
    ELSE IF x.rsi >= 52 THEN "BULLISH" ELSE IF x.rsi <= 48 THEN "BEARISH" ELSE "NEUTRAL"

Volatility(x) ==
    IF x.base # None /\ x.base > 0
    THEN IF x.atr >= 2 * x.base THEN "ABNORMAL_HIGH"
         ELSE IF 2 * x.atr >= 3 * x.base THEN "EXPANDING"
         ELSE IF 3 * x.atr < 2 * x.base THEN "CONTRACTING" ELSE "NORMAL"
    ELSE IF x.atr > 150 THEN "ABNORMAL_HIGH" ELSE "NORMAL"

Unknown == [regime |-> "UNKNOWN", trend |-> "NEUTRAL", strength |-> "UNKNOWN",
            momentum |-> "NEUTRAL", volatility |-> "UNKNOWN", atr |-> None]

Regime(trend, strength, momentum, volatility) ==
    IF volatility = "ABNORMAL_HIGH" THEN "HIGH_VOLATILITY"
    ELSE IF trend = "BULLISH" /\ strength = "TRENDING" /\ momentum \in {"BULLISH", "NEUTRAL"} THEN "TREND_UP"
    ELSE IF trend = "BEARISH" /\ strength = "TRENDING" /\ momentum \in {"BEARISH", "NEUTRAL"} THEN "TREND_DOWN"
    ELSE IF strength = "WEAK" /\ trend # "NEUTRAL" THEN "TRANSITION"
    ELSE "RANGE"

classify_regime(x) ==
    IF x = None THEN Unknown
    ELSE [regime |-> Regime(Trend(x), Strength(x), Momentum(x), Volatility(x)),
          trend |-> Trend(x), strength |-> Strength(x), momentum |-> Momentum(x),
          volatility |-> Volatility(x), atr |-> x.atr]

permits_new_entry(reg) == reg.regime \notin {"UNKNOWN", "HIGH_VOLATILITY", "TRANSITION"}

-----------------------------------------------------------------------------
(* Setup.                                                                  *)

detect_setup(bars, st, atr) ==
    IF Len(bars) < 2 THEN "NONE"
    ELSE LET last == bars[Len(bars)]
             prev == bars[Len(bars) - 1]
         IN  IF st.high # None /\ Above(last.close, st.high, atr) /\ prev.close <= st.high THEN "LONG_BREAKOUT"
             ELSE IF st.low # None /\ Above(st.low, last.close, atr) /\ prev.close >= st.low THEN "SHORT_BREAKOUT"
             ELSE IF st.high # None /\ last.high > st.high /\ last.close < st.high THEN "SHORT_FAKEOUT_REVERSAL"
             ELSE IF st.low # None /\ last.low < st.low /\ last.close > st.low THEN "LONG_FAKEOUT_REVERSAL"
             ELSE IF st.bias # "NEUTRAL" THEN "CONTINUATION" ELSE "NONE"

-----------------------------------------------------------------------------
(* Scores: tenths times the weight of the factor.                          *)

Toward(d, buy, sell) == IF d = "BUY" THEN buy ELSE sell

score_structure(d, st) ==
    IF st.bias = Toward(d, "BULLISH", "BEARISH") THEN 250
    ELSE IF st.event = Toward(d, "CHOCH_BULLISH", "CHOCH_BEARISH") THEN 150
    ELSE IF st.direction = Toward(d, "UP", "DOWN") THEN 100 ELSE 0

(* Mutant: both directions count as aligned.                               *)
score_trend_Any(d, reg) ==
    (IF reg.trend # "NEUTRAL" THEN 150 ELSE 0) + (IF reg.strength = "TRENDING" THEN 150 ELSE 0)

score_trend(d, reg) ==
    (IF reg.trend = Toward(d, "BULLISH", "BEARISH") THEN 100 ELSE 0)
    + (IF reg.strength = "TRENDING" THEN 100 ELSE 0)

score_setup(d, setup) ==
    IF setup = Toward(d, "LONG_BREAKOUT", "SHORT_BREAKOUT") THEN 250
    ELSE IF setup = Toward(d, "LONG_FAKEOUT_REVERSAL", "SHORT_FAKEOUT_REVERSAL") THEN 200
    ELSE IF setup = "CONTINUATION" THEN 125 ELSE 0

score_momentum(d, reg) ==
    IF reg.momentum = Toward(d, "BULLISH", "BEARISH") THEN 100
    ELSE IF reg.momentum = "NEUTRAL" THEN 50 ELSE 0

score_volatility(reg) ==
    IF reg.volatility = "NORMAL" THEN 100 ELSE IF reg.volatility = "CONTRACTING" THEN 80
    ELSE IF reg.volatility = "EXPANDING" THEN 50 ELSE 0

score_regime(d, reg) ==
    IF reg.regime = Toward(d, "TREND_UP", "TREND_DOWN") THEN 100
    ELSE IF reg.regime = "RANGE" THEN 30 ELSE 0

Confidence(d, st, reg, setup) ==
    score_structure(d, st) + score_trend(d, reg) + score_setup(d, setup)
    + score_momentum(d, reg) + score_volatility(reg) + score_regime(d, reg)

min_conf == 700

(* The stop: half an ATR beyond the last swing, or an ATR beyond the entry *)
(* when the swing is not on that side.                                     *)
compute_sl(tick, st, atr, d) ==
    IF d = "BUY"
    THEN (IF st.low # None /\ st.low < tick.ask THEN st.low ELSE tick.ask - atr) - atr \div 2
    ELSE (IF st.high # None /\ st.high > tick.bid THEN st.high ELSE tick.bid + atr) + atr \div 2

(* Mutant: the target is above the entry for both sides.                   *)
compute_sl_tp_Above(tick, st, atr, d) ==
    LET entry == IF d = "BUY" THEN tick.ask ELSE tick.bid
        sl    == compute_sl(tick, st, atr, d)
        risk  == IF d = "BUY" THEN entry - sl ELSE sl - entry
    IN  [side |-> d, entry |-> entry, stop |-> sl, target |-> entry + 2 * risk]

(* The target: twice the risk.  A risk below 0.30 ATR gives neither.       *)
compute_sl_tp(tick, st, atr, d) ==
    LET entry == IF d = "BUY" THEN tick.ask ELSE tick.bid
        sl    == compute_sl(tick, st, atr, d)
        risk  == IF d = "BUY" THEN entry - sl ELSE sl - entry
    IN  IF 10 * risk < 3 * atr THEN None
        ELSE [side |-> d, entry |-> entry, stop |-> sl,
              target |-> IF d = "BUY" THEN entry + 2 * risk ELSE entry - 2 * risk]

Qualified(d, tick, st, reg, setup) ==
    IF Confidence(d, st, reg, setup) < min_conf THEN None
    ELSE compute_sl_tp(tick, st, IF reg.atr = 0 THEN 10 ELSE reg.atr, d)

(* MultiFactorScorer.evaluate: SELL replaces BUY when it scores higher.    *)
MultiFactorScorer(tick, st, reg, news, setup) ==
    IF news # "CLEAR" \/ tick.ask - tick.bid > 10 \/ ~permits_new_entry(reg) THEN None
    ELSE LET buy  == Qualified("BUY", tick, st, reg, setup)
             sell == Qualified("SELL", tick, st, reg, setup)
         IN  IF buy = None THEN sell
             ELSE IF sell # None /\ Confidence("SELL", st, reg, setup) > Confidence("BUY", st, reg, setup)
                  THEN sell ELSE buy

(* SignalPipeline.process for a configured strategy: x are the indicators  *)
(* of the bars, `fresh' whether the tick was received within the limit.    *)
process(tick, bars, lookback, x, fresh, news) ==
    IF bars = <<>> \/ ~fresh THEN None
    ELSE LET atr == IF x = None THEN 0 ELSE x.atr
             st  == analyze_structure(bars, lookback, atr)
         IN  MultiFactorScorer(tick, st, classify_regime(x), news, detect_setup(bars, st, atr))
=============================================================================
