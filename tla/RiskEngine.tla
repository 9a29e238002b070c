----------------------------- MODULE RiskEngine -----------------------------
(***************************************************************************)
(* The decision functions of backend/risk and of the two services that use *)
(* them: the Risk Engine (engine.py, config.py, sizing.py), the snapshot   *)
(* that risk_service.py builds from the rows of an account, and the Risk   *)
(* Gate in front of the agent's commands (risk_gate.py).                   *)
(*                                                                         *)
(* Money is in USD, a lot size in steps of 0.01 lot, a percentage in       *)
(* hundredths, an age in milliseconds.  A missing Decimal, row or argument *)
(* is None.                                                                *)
(***************************************************************************)
EXTENDS Integers, FiniteSets, Sequences

LOCAL INSTANCE Functions

CONSTANT None

(* What an evaluation may give as its reason.                              *)
Reasons == {"EMERGENCY_STOP_ACTIVE", "MISSING_PARAMETERS", "MARKET_DATA_NOT_READY", "STALE_MARKET_DATA",
            "SPREAD_TOO_HIGH", "NEWS_EVENT_WINDOW", "NEWS_DATA_UNAVAILABLE", "DAILY_LOSS_LIMIT_HIT",
            "MAX_DRAWDOWN_HIT", "CAUTION_DRAWDOWN_REACHED", "PROFIT_LOCK_FLOOR_BREACHED",
            "MAX_POSITIONS_REACHED", "MAX_LOTS_EXCEEDED", "ALL_CHECKS_PASSED"}

ASSUME NoneAssumption == None \notin Reasons /\ None \notin Int

(* What the Risk Gate may answer.                                          *)
Verdicts == {"KILL_SWITCH_ACTIVE", "INVALID_SYMBOL", "AGENT_OFFLINE", "MARKET_DATA_NOT_READY", "MARKET_DATA_STALE",
             "INVALID_BID", "INVALID_ASK", "INVALID_SPREAD", "ACCOUNT_STATE_UNAVAILABLE", "RISK_LIMIT_BLOCK",
             "NEWS_BLACKOUT", "RISK_OK"}

ASSUME GateAssumption == None \notin Verdicts

-----------------------------------------------------------------------------
(* RiskConfig.  The fields the operator has not set are None.              *)

RiskConfigs ==
    LET Amounts == Nat \cup {None}
    IN  [emergency : BOOLEAN, daily : Amounts, drawdown : Amounts,
         positions : Amounts, lots : Amounts, spread : Amounts,
         caution : Amounts, pct : Amounts, fixed : Amounts,
         threshold : Nat, floor : Nat, staleness : Nat]

Defaults == [emergency |-> FALSE, daily |-> None, drawdown |-> None,
             positions |-> None, lots |-> None, spread |-> None,
             caution |-> None, pct |-> None, fixed |-> None,
             threshold |-> 10, floor |-> 30, staleness |-> 2000]

is_fully_configured(c) ==
    /\ c.daily # None /\ c.drawdown # None /\ c.positions # None
    /\ c.pct # None \/ c.fixed # None

(* `rows' holds the configurations of an account in the order of their     *)
(* versions.  RiskConfig has limits and sizes the service never reads from *)
(* the row.                                                                *)
get_latest_risk_config(rows) ==
    IF rows = <<>> THEN Defaults
    ELSE [rows[Len(rows)] EXCEPT !.caution = None, !.fixed = None]

-----------------------------------------------------------------------------
(* The snapshot of an account.  `equities' is the set of equities ever     *)
(* stored, `equity' the one of the newest row.                             *)

Highest(S) == CHOOSE e \in S : \A d \in S : d <= e

build_account_risk_snapshot(equities, equity, day, lots) ==
    LET current == IF equities = {} THEN 0 ELSE equity
        highest == IF equities = {} THEN 0 ELSE Highest(equities)
        peak    == IF highest = 0 THEN current ELSE highest
    IN  [equity   |-> current,
         peak     |-> IF peak < current THEN current ELSE peak,
         pnl      |-> IF day = None THEN 0 ELSE day.realized + day.floating,
         open     |-> IF day = None THEN current ELSE day.open,
         topped   |-> IF day = None THEN 0 ELSE day.topped,
         count    |-> Cardinality(DOMAIN lots),
         exposure |-> SumFunction(lots)]

-----------------------------------------------------------------------------
(* Position sizing.  A step of 0.01 lot is one ounce, so it risks one      *)
(* dollar for each dollar between the entry and the stop.                  *)

(* Mutant: the size is rounded up.                                         *)
PercentageEquity_Up(pct, equity, entry, stop) ==
    LET distance == IF entry < stop THEN stop - entry ELSE entry - stop
    IN  ((equity * pct) \div (100 * distance)) + 1

PercentageEquity(pct, equity, entry, stop) ==
    IF entry = None \/ stop = None THEN None
    ELSE LET distance == IF entry < stop THEN stop - entry ELSE entry - stop
             steps    == (equity * pct) \div (100 * distance)
         IN  IF distance = 0 \/ equity <= 0 THEN None
             ELSE IF steps < 1 THEN None ELSE steps

calculate_lot_size(c, equity, signal) ==
    IF c.pct # None THEN PercentageEquity(c.pct, equity, signal.entry, signal.stop)
    ELSE c.fixed

AuthorizedLots(c, equity, signal) ==
    LET sized == IF signal = None THEN None ELSE calculate_lot_size(c, equity, signal)
    IN  IF sized = None THEN c.fixed ELSE sized

-----------------------------------------------------------------------------
(* RiskEngine.evaluate: the first check that fails gives the reason.       *)

MarketReason(c, market) ==
    IF market = None THEN None
    ELSE IF market.status \notin {"READY", "OK"} THEN "MARKET_DATA_NOT_READY"
    ELSE IF market.age # None /\ market.age > c.staleness THEN "STALE_MARKET_DATA"
    ELSE IF c.spread # None /\ market.spread # None /\ market.spread > c.spread THEN "SPREAD_TOO_HIGH"
    ELSE None

NewsReason(news) ==
    IF news \in {"PRE_EVENT", "IN_EVENT", "POST_EVENT"} THEN "NEWS_EVENT_WINDOW"
    ELSE IF news \in {"UNKNOWN", "PROVIDER_UNAVAILABLE", "STALE"} THEN "NEWS_DATA_UNAVAILABLE"
    ELSE None

(* Mutant: the limit itself still passes.                                  *)
LossReason_Beyond(c, s) ==
    IF s.pnl < -c.daily THEN "DAILY_LOSS_LIMIT_HIT"
    ELSE IF s.peak - s.equity > c.drawdown THEN "MAX_DRAWDOWN_HIT"
    ELSE None

LossReason(c, s) ==
    IF s.pnl <= -c.daily THEN "DAILY_LOSS_LIMIT_HIT"
    ELSE IF s.peak - s.equity >= c.drawdown THEN "MAX_DRAWDOWN_HIT"
    ELSE IF c.caution # None /\ 100 * (s.peak - s.equity) >= c.caution * c.drawdown
         THEN "CAUTION_DRAWDOWN_REACHED"
    ELSE None

ProfitLockBreached(c, s) ==
    /\ s.open # None /\ s.topped # None
    /\ s.topped >= c.threshold
    /\ 100 * (s.equity - s.open) < c.floor * s.topped

(* Mutant: only the exposure is limited.                                   *)
ExposureReason_LotsOnly(c, s, lots) ==
    IF c.lots # None /\ s.exposure + (IF lots = None THEN 0 ELSE lots) > c.lots
    THEN "MAX_LOTS_EXCEEDED" ELSE None

ExposureReason(c, s, lots) ==
    IF s.count >= c.positions THEN "MAX_POSITIONS_REACHED"
    ELSE IF c.lots # None /\ s.exposure + (IF lots = None THEN 0 ELSE lots) > c.lots
         THEN "MAX_LOTS_EXCEEDED"
    ELSE None

(* Mutant: the emergency stop is looked at for accounts without limits only. *)
Reason_NoStop(c, s, signal, market, news) ==
    IF ~is_fully_configured(c) THEN "MISSING_PARAMETERS"
    ELSE IF MarketReason(c, market) # None THEN MarketReason(c, market)
    ELSE IF LossReason(c, s) # None THEN LossReason(c, s)
    ELSE IF ExposureReason(c, s, AuthorizedLots(c, s.equity, signal)) # None
         THEN ExposureReason(c, s, AuthorizedLots(c, s.equity, signal))
    ELSE "ALL_CHECKS_PASSED"

Reason(c, s, signal, market, news) ==
    LET data     == MarketReason(c, market)
        event    == NewsReason(news)
        loss     == LossReason(c, s)
        exposure == ExposureReason(c, s, AuthorizedLots(c, s.equity, signal))
    IN  IF c.emergency THEN "EMERGENCY_STOP_ACTIVE"
        ELSE IF ~is_fully_configured(c) THEN "MISSING_PARAMETERS"
        ELSE IF data # None THEN data
        ELSE IF event # None THEN event
        ELSE IF loss # None THEN loss
        ELSE IF ProfitLockBreached(c, s) THEN "PROFIT_LOCK_FLOOR_BREACHED"
        ELSE IF exposure # None THEN exposure
        ELSE "ALL_CHECKS_PASSED"

SignalDecision(reason) ==
    CASE reason = "EMERGENCY_STOP_ACTIVE" -> "EMERGENCY"
      [] reason = "MISSING_PARAMETERS"    -> "NOT_CONFIGURED"
      [] reason = "ALL_CHECKS_PASSED"     -> "APPROVED"
      [] OTHER                            -> "BLOCKED"

evaluate(c, s, signal, market, news) ==
    LET reason == Reason(c, s, signal, market, news)
    IN  [decision |-> SignalDecision(reason), reason |-> reason,
         lots |-> IF reason = "ALL_CHECKS_PASSED" THEN AuthorizedLots(c, s.equity, signal) ELSE None]

-----------------------------------------------------------------------------
(* The Risk Gate: `tick' is None or carries bid, ask, spread and age,      *)
(* `account' says whether the account is active, `blackout' whether a      *)
(* stored high-impact event is within its window.                          *)

TickReason(c, tick) ==
    IF tick = None THEN "MARKET_DATA_NOT_READY"
    ELSE IF tick.age > (IF c.staleness = 0 THEN 2000 ELSE c.staleness) THEN "MARKET_DATA_STALE"
    ELSE IF tick.bid <= 0 THEN "INVALID_BID"
    ELSE IF tick.ask <= tick.bid THEN "INVALID_ASK"
    ELSE IF tick.spread < 0 THEN "INVALID_SPREAD"
    ELSE IF c.spread # None /\ tick.spread > c.spread THEN "INVALID_SPREAD"
    ELSE None

evaluate_risk_gate(c, s, symbol, connected, tick, account, blackout) ==
    IF c.emergency THEN "KILL_SWITCH_ACTIVE"
    ELSE IF symbol # "XAUUSD" THEN "INVALID_SYMBOL"
    ELSE IF ~connected THEN "AGENT_OFFLINE"
    ELSE IF TickReason(c, tick) # None THEN TickReason(c, tick)
    ELSE IF ~account \/ s.equity <= 0 THEN "ACCOUNT_STATE_UNAVAILABLE"
    ELSE IF c.daily # None /\ s.pnl <= -c.daily THEN "RISK_LIMIT_BLOCK"
    ELSE IF c.drawdown # None /\ s.peak - s.equity >= c.drawdown THEN "RISK_LIMIT_BLOCK"
    ELSE IF blackout THEN "NEWS_BLACKOUT"
    ELSE "RISK_OK"
=============================================================================
