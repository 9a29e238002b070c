------------------------------ MODULE Backtest ------------------------------
(***************************************************************************)
(* BacktestEngine.run: a stream of ticks through bar builder, Brain, risk  *)
(* engine and simulated execution.  One action is one turn of the loop     *)
(* over the ticks; the last one closes what is open and sums up.           *)
(*                                                                         *)
(* Prices, money and the ATR are in one unit (see Brain), a volume is in   *)
(* steps of 0.01 lot, so that a step gains one unit of money for one unit  *)
(* of price.                                                               *)
(***************************************************************************)
EXTENDS RiskEngine

INSTANCE Brain

CONSTANTS Prices,      \* mid prices of ticks
          HalfSpread,  \* half of ask - bid
          MaxTicks,    \* bound on the length of the stream
          Indicators,  \* values the indicators may have, None for too few bars
          Ages,        \* age of a tick when the engine looks at it
          Lookback,    \* swing_lookback_bars
          Risk,        \* risk_config
          Initial,     \* initial_balance_usd
          Slippage,    \* slippage_points * point_value
          Commission   \* commission_per_lot_usd of one step, both ways

ASSUME BacktestAssumption ==
    /\ MaxTicks \in Nat /\ Lookback \in Nat \ {0} /\ HalfSpread \in Nat
    /\ Initial \in Nat /\ Slippage \in Nat /\ Commission \in Nat
    /\ Prices \subseteq Int /\ Ages \subseteq Nat /\ Risk \in RiskConfigs
    /\ \A x \in Indicators : x # None => x.atr \in Nat

VARIABLES
    count,      \* ticks taken so far
    last,       \* the last of them
    forming,    \* the running bar of the builder, or None
    bars,       \* closed_bars
    open,       \* open_positions
    done,       \* completed_trades
    balance,
    peak,       \* peak_equity
    drawdown,   \* max_drawdown_usd
    finished    \* run has returned

money == <<balance, peak, drawdown>>
vars  == <<count, last, forming, bars, open, done, money, finished>>

Tick(p) == [bid |-> p - HalfSpread, ask |-> p + HalfSpread]

-----------------------------------------------------------------------------
(* Loops over a list, as recursive functions of how far they have come.    *)

Sum(seq) ==
    LET sum[n \in 0..Len(seq)] == IF n = 0 THEN 0 ELSE sum[n - 1] + seq[n]
    IN  sum[Len(seq)]

(* The elements at the places in S, in their order.                        *)
Picked(seq, S) ==
    LET picked[n \in 0..Len(seq)] ==
            IF n = 0 THEN <<>> ELSE IF n \in S THEN Append(picked[n - 1], seq[n]) ELSE picked[n - 1]
    IN  picked[Len(seq)]

-----------------------------------------------------------------------------
(* Positions.                                                              *)

(* The level a position leaves at with this tick, or None: the stop is     *)
(* looked at first, and the fill is at the level.                          *)
Exit(pos, tick) ==
    IF pos.side = "BUY"
    THEN IF tick.bid <= pos.stop THEN pos.stop ELSE IF tick.bid >= pos.target THEN pos.target ELSE None
    ELSE IF tick.ask >= pos.stop THEN pos.stop ELSE IF tick.ask <= pos.target THEN pos.target ELSE None

Market(pos, tick) == IF pos.side = "BUY" THEN tick.bid ELSE tick.ask

Gross(pos, price) == (IF pos.side = "BUY" THEN price - pos.entry ELSE pos.entry - price) * pos.lots

Closed(pos, price, reason) ==
    [net |-> Gross(pos, price) - pos.commission, reason |-> reason,
     lots |-> pos.lots, commission |-> pos.commission, equity |-> pos.equity]

HitReason(pos, tick) == IF Exit(pos, tick) = pos.stop THEN "SL_HIT" ELSE "TP_HIT"

Nets(trades) == [i \in DOMAIN trades |-> trades[i].net]

Floating(positions, tick) == [i \in DOMAIN positions |-> Gross(positions[i], Market(positions[i], tick))]

-----------------------------------------------------------------------------
(* Bars.                                                                   *)

New(p) == [high |-> p, low |-> p, close |-> p]

Updated(bar, p) == [high  |-> IF p > bar.high THEN p ELSE bar.high,
                    low   |-> IF p < bar.low THEN p ELSE bar.low,
                    close |-> p]

-----------------------------------------------------------------------------
(* Mutant: the drawdown leaves out what open positions have lost.          *)
Deeper_Realized(known, top, cash, floating) == IF top - cash > known THEN top - cash ELSE known

(* max_drawdown_usd after a tick.                                          *)
Deeper(known, top, cash, floating) ==
    LET dd == top - (cash + floating) IN IF dd > known THEN dd ELSE known

(* What the risk engine sees.  Nothing resets the daily profit, and there  *)
(* is no session.                                                          *)
Snapshot(cash, floating, top, positions) ==
    [equity |-> cash + floating, peak |-> top, pnl |-> cash - Initial + floating,
     open |-> None, topped |-> None,
     count |-> Len(positions), exposure |-> Sum([i \in DOMAIN positions |-> positions[i].lots])]

Enter(candidate, lots, equity) ==
    [side |-> candidate.side, stop |-> candidate.stop, target |-> candidate.target,
     entry |-> IF candidate.side = "BUY" THEN candidate.entry + Slippage ELSE candidate.entry - Slippage,
     lots |-> lots, commission |-> Commission * lots,
     equity |-> equity]  \* history: the equity the size was taken from

(* The position a closed bar leads to, if any.                             *)
Entered(tick, closed, x, age, snap) ==
    LET candidate == process(tick, closed, Lookback, x, TRUE, "CLEAR")
        decision  == evaluate(Risk, snap, candidate,
                              [status |-> "READY", age |-> age, spread |-> tick.ask - tick.bid], "CLEAR")
    IN  IF candidate = None \/ decision.decision # "APPROVED" \/ decision.lots \in {None, 0} THEN <<>>
        ELSE <<Enter(candidate, decision.lots, snap.equity)>>

-----------------------------------------------------------------------------
Init ==
    /\ count = 0 /\ last = None /\ forming = None
    /\ bars = <<>> /\ open = <<>> /\ done = <<>>
    /\ balance = Initial /\ peak = Initial /\ drawdown = 0
    /\ finished = FALSE

(* A tick at mid price p; `crosses' when it is in a later interval than    *)
(* the running bar.                                                        *)
OnTick(p, crosses, x, age) ==
    LET tick     == Tick(p)
        leaving  == Picked(open, {i \in DOMAIN open : Exit(open[i], tick) # None})
        still    == Picked(open, {i \in DOMAIN open : Exit(open[i], tick) = None})
        exits    == [i \in DOMAIN leaving |-> Closed(leaving[i], Exit(leaving[i], tick), HitReason(leaving[i], tick))]
        cash     == balance + Sum(Nets(exits))
        floating == Sum(Floating(still, tick))
        equity   == cash + floating
        top      == IF equity > peak THEN equity ELSE peak
        closed   == IF crosses THEN Append(bars, forming) ELSE bars
    IN  /\ ~finished /\ count < MaxTicks
        /\ crosses => forming # None
        /\ count' = count + 1 /\ last' = tick
        /\ done' = done \o exits
        /\ balance' = cash
        /\ peak' = top
        /\ drawdown' = Deeper(drawdown, top, cash, floating)
        /\ forming' = IF crosses \/ forming = None THEN New(p) ELSE Updated(forming, p)
        /\ bars' = closed
        /\ open' = IF crosses THEN still \o Entered(tick, closed, x, age, Snapshot(cash, floating, top, still))
                   ELSE still
        /\ UNCHANGED finished

(* Mutant: the closing trades are reported and not booked.                 *)
Finish_Unbooked ==
    /\ ~finished
    /\ done' = done \o [i \in DOMAIN open |-> Closed(open[i], Market(open[i], last), "END_OF_DATA")]
    /\ open' = <<>>
    /\ finished' = TRUE
    /\ UNCHANGED <<count, last, forming, bars, balance, peak, drawdown>>

(* END_OF_DATA.                                                            *)
Finish ==
    LET closing == [i \in DOMAIN open |-> Closed(open[i], Market(open[i], last), "END_OF_DATA")]
    IN  /\ ~finished
        /\ done' = done \o closing
        /\ balance' = balance + Sum(Nets(closing))
        /\ open' = <<>>
        /\ finished' = TRUE
        /\ UNCHANGED <<count, last, forming, bars, peak, drawdown>>

Next ==
    \/ \E p \in Prices : OnTick(p, FALSE, None, 0)
    \/ \E p \in Prices, x \in Indicators, age \in Ages : OnTick(p, TRUE, x, age)
    \/ Finish

Spec == Init /\ [][Next]_vars

-----------------------------------------------------------------------------
(* The result.                                                             *)

Wins   == Picked(done, {i \in DOMAIN done : done[i].net > 0})
Losses == Picked(done, {i \in DOMAIN done : done[i].net < 0})

gross_profit == Sum(Nets(Wins))
gross_loss   == -Sum(Nets(Losses))

largest_win  == IF Wins = <<>> THEN 0 ELSE Highest({Wins[i].net : i \in DOMAIN Wins})
largest_loss == IF Losses = <<>> THEN 0 ELSE -Highest({-Losses[i].net : i \in DOMAIN Losses})

(* Mutant: a streak is compared with the longest one when it breaks.       *)
Counted_AtEnd(run, t) ==
    [wins      |-> IF t.net > 0 THEN run.wins + 1 ELSE 0,
     losses    |-> IF t.net < 0 THEN run.losses + 1 ELSE 0,
     maxWins   |-> IF t.net < 0 /\ run.wins > run.maxWins THEN run.wins ELSE run.maxWins,
     maxLosses |-> IF t.net > 0 /\ run.losses > run.maxLosses THEN run.losses ELSE run.maxLosses]

(* The running and the longest streaks after one more trade.               *)
Counted(run, t) ==
    LET wins   == IF t.net > 0 THEN run.wins + 1 ELSE 0
        losses == IF t.net < 0 THEN run.losses + 1 ELSE 0
    IN  [wins |-> wins, losses |-> losses,
         maxWins   |-> IF wins > run.maxWins THEN wins ELSE run.maxWins,
         maxLosses |-> IF losses > run.maxLosses THEN losses ELSE run.maxLosses]

Streaks ==
    LET run[n \in 0..Len(done)] ==
            IF n = 0 THEN [wins |-> 0, losses |-> 0, maxWins |-> 0, maxLosses |-> 0]
            ELSE Counted(run[n - 1], done[n])
    IN  run[Len(done)]

-----------------------------------------------------------------------------
(* Properties.                                                             *)

(* The balance is the initial one and what the trades made of it, and the  *)
(* reported net profit is gross profit minus gross loss.                   *)
BooksBalance ==
    /\ balance = Initial + Sum(Nets(done))
    /\ finished => balance - Initial = gross_profit - gross_loss

(* The largest n such that n places in a row are in S.                     *)
LongestRun(S) ==
    Highest({n \in 0..Len(done) : \E i \in 0..(Len(done) - n) : (i + 1)..(i + n) \subseteq S})

(* The summary agrees with the list of trades it is printed beside: the    *)
(* streaks counted in one pass are the longest runs there are, and the     *)
(* extremes bound what wins and losses add up to.                          *)
SummaryAgrees ==
    finished =>
        /\ Streaks.maxWins = LongestRun({i \in DOMAIN done : done[i].net > 0})
        /\ Streaks.maxLosses = LongestRun({i \in DOMAIN done : done[i].net < 0})
        /\ gross_profit <= Len(Wins) * largest_win
        /\ gross_loss <= -(Len(Losses) * largest_loss)

(* A trade that is over has not lost more than risk_per_trade_pct of the   *)
(* equity it was sized by, or the spread when it was entered at the last   *)
(* tick, with slippage and commission on top; also when the market jumped  *)
(* past its stop.  A fixed size is not worked out from the risk.           *)
LossBound ==
    Risk.fixed = None =>
    \A i \in DOMAIN done :
        LET t    == done[i]
            loss == -t.net - t.commission - t.lots * Slippage
        IN  100 * loss <= Risk.pct * t.equity \/ (t.reason = "END_OF_DATA" /\ loss <= t.lots * 2 * HalfSpread)

(* The reported drawdown covers the fall to the final balance, but for the *)
(* costs of the positions that were still open at the last tick.           *)
DrawdownReported ==
    finished =>
        peak - balance <= drawdown
            + Sum([i \in DOMAIN done |->
                     IF done[i].reason = "END_OF_DATA"
                     THEN done[i].commission + done[i].lots * (2 * HalfSpread + Slippage) ELSE 0])

(* The Brain's stop and target are on the two sides of the entry it had in *)
(* mind, whatever the swings and the tick were: the slippage aside, a      *)
(* position is opened between them, with the target twice as far.          *)
StopAndTarget ==
    \A i \in DOMAIN open :
        LET pos == open[i]
            ref == IF pos.side = "BUY" THEN pos.entry - Slippage ELSE pos.entry + Slippage
        IN  /\ pos.target - ref = 2 * (ref - pos.stop)
            /\ IF pos.side = "BUY" THEN pos.stop < ref ELSE ref < pos.stop

(* Evidence never supports both directions: which of them the scorer looks *)
(* at first, and how it breaks a tie, does not matter.                     *)
OneDirection ==
    \A x \in Indicators :
        x # None =>
        LET st    == analyze_structure(bars, Lookback, x.atr)
            setup == detect_setup(bars, st, x.atr)
            reg   == classify_regime(x)
        IN  ~ \A d \in {"BUY", "SELL"} : Confidence(d, st, reg, setup) >= min_conf
=============================================================================
