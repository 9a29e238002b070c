# AUREXIS: a TLA+ model of the server, its agent and its strategy engine

AUREXIS is a FastAPI server that trades an MT5 account through an Expert Advisor
(the EA, "agent"). The EA keeps one WebSocket to the server, streams prices and
bars, executes the commands it is sent at the broker and reports their results.
A background worker evaluates a strategy on every closed M15 candle and sends
orders through the same channel. Operators use a REST API and a Next.js
front end.

This directory models the parts of it where orders, connections and decisions
can go wrong in ways a test would hardly reach, checks them with TLC on small
instances, and proves the main safety properties with TLAPS for every value of
the constants. Beside the live path there is a simulated one (a pipeline with a
broker simulator, and a backtest) that shares the risk engine with it.

Run from this directory:

    tlc -workers 2 -config CommandsFaults.cfg MCAgentCommands
    tlapm AgentCommands_proofs.tla

`PROJECT.json` lists components, runs, mutants, the source lines of every
definition, findings, hazards and theorems.

## 1. Inventory

### 1.1 Components, their state and their operations

| Component | Source | State it keeps | Operations that change it |
|---|---|---|---|
| Agent command channel | `backend/services/agent_commands.py`, `backend/api/v1/agent_commands.py`, `agent_ws.py` | table `mt5_agent_commands` (status PENDING, SENT, ACKNOWLEDGED, COMPLETED, FAILED) | create, claim, send, revert, acknowledge, complete, fail |
| Agent sessions | `backend/ws/agent_manager.py`, `agent_ws.py`, `agents.py` | `_active_connections`, `last_known_status` of the agent row | connect (replacing the old one), serve, disconnect, status writes |
| Expert Advisor | `mt5/Experts/AurexisAgent.mq5`, `mt5/Include/*.mqh` | client state, `g_hello_sent`, `g_is_welcomed`, `g_last_m15_bar_time` | timer and tick events, reconnect, hello, heartbeat, command execution, ticks, bars |
| Position booking | `backend/services/execution_service.py` (`record_agent_execution_result`) | table `positions` | open or close a row for a reported ticket |
| Strategy engine and worker | `backend/services/strategy_service.py`, `strategy_worker.py`, `strategy_routes.py` | row `strategy_engine_states` (enabled, dry run, last candle) | evaluate (the 11 gates), enable, disable, worker loop |
| Risk gate | `backend/services/risk_gate.py`, `risk_service.py` | `risk_configurations` (kill switch, limits) | read by evaluations; written by endpoints |
| Market data and bars | `backend/services/market_data_service.py`, `brain/bar_builder.py`, `brain/market_data/*` | latest tick and bars in memory and Redis, per-account `BarBuilder` | record tick, record bars, seed, ingest, fetch |
| Demo trade endpoint | `backend/api/v1/execution_routes.py` | command rows | send, then commit |
| Risk engine and sizing | `backend/risk/*`, `risk_service.py` | `risk_configurations`, `equity_snapshots`, `daily_session_states` | snapshot, the ordered checks, the size of an order |
| Simulated pipeline | `backend/services/trading_pipeline.py`, `execution_service.py`, `backend/execution/*` | signals, decisions, commands and positions; in memory the simulator's positions and tickets, frozen accounts | cycle, execute, reconcile, freeze and unfreeze |
| News | `news_service.py`, `news_routes.py`, `brain/news/provider.py` | `news_events` | synchronise; three readers |
| Accounts and licences | `accounts.py`, `license.py` | accounts, licences | activate, expire, provision, upgrade; create, change, delete |
| Users and tokens | `auth.py`, `password_reset.py` | users, refresh tokens, reset links | register, login, rotate, log out, reset |
| Brain | `brain/structure.py`, `regime.py`, `scoring.py`, `strategy/setups.py`, `pipeline.py` | none | a candidate from closed bars |
| Backtest | `brain/backtest/engine.py` | balance, open and completed trades, bars | a turn per tick, closing, the summary |
| Realtime events, audit, front end, shell, scripts | see `PROJECT.json` | caches, read-only views | none that the parts above depend on |

### 1.2 How they interact

* REST request -> command row -> delivery task -> WebSocket -> EA -> broker ->
  result message -> handler of that connection -> command row and position row
  -> next delivery. The handler and the delivery tasks are coroutines of one
  process (one uvicorn worker); a database session reads committed rows
  (READ COMMITTED) and publishes at commit.
* The worker's evaluation and `POST /strategy/evaluate` run the same function
  in separate transactions, with nothing between them but the rows they read.
* The demo endpoint and the strategy engine send an order *before* they commit
  the row that the EA's answer refers to.
* The EA's bars arrive in the same handler as its results; evaluations read
  ticks and bars from memory or Redis, and from a builder they share.
* Pipelines of one account share its rows and nothing else: each has a simulator
  and a circuit breaker of its own in memory.
* REST requests on users, licences and accounts meet in the database only, where
  row locks (`FOR UPDATE`, `UPDATE`, unique keys) make one wait for another.
* The registry is read by every sender and written by connecting and ending
  handlers, with an `await` between reading and writing.

### 1.3 What is hard about it

Interleavings of coroutines at every `await`; claims that are read, then
committed; a send that precedes its commit; connections replaced while their
handlers still run; restarts that keep the rows and lose memory; results that
arrive twice, early or never; a candle that must be decided once and not be
forgotten; two sources of bars for one list; limits checked in one transaction
and used in the next; a fill that outlives the rollback of its rows; a ticket
counter that starts again; locks held across statements; flags that one of two
event handlers clears; numbers that stand for different things. `PROJECT.json` "hazards" has each
at its line.

### 1.4 What makes each part correct

* Commands: no outcome nobody produced, no position row that goes back to no
  order, no row CLOSED without a close the broker has taken, a completed OPEN has
  its row, every command settles.
* Sessions: a handler unregisters its own or a dead connection only, a registered
  connection is served, a welcome answers the hello of its own connection; an EA
  that stays comes back; one that leaves is reported.
* Strategy: no order past a reason not to trade, one order per candle, every
  candle decided, no live engine on an account that may not trade.
* Bars: never the forming interval, never mixed, there again after faults, in
  order.
* Pipeline: no fill without an approval on record, one fill per signal, limits
  exceeded by no more than the approvals in flight, no order above the risk per
  trade, a reconciliation that misses nothing the broker holds.
* Identity: codes and links are spent once, an active token was stored under the
  present password, a token has no more successors than requests overlap, no
  request waits for ever.
* Backtest: books balance, the report agrees with its trades, losses and drawdown
  stay within what the sizing and the costs allow.

## 2. Modules

Each component has a module, an `MC` module that gives TLC what a `.cfg` cannot
express, one or more `.cfg` files and a `_proofs` module. Definitions whose name
ends in a suffix such as `_Fails` or `_RegisteredOnly` (or, in `AgentSession`, names like
`DisconnectAny`) are faulty variants of the definition they precede; they are
used only to see that the properties notice such faults, and are never part of
`Next`.

### 2.1 AgentCommands: the command channel

State: the committed columns of each row (`status`, `created`, `target`,
`outcome`), the progress of each creating request (`creator`, `direct`), of each
delivery task (`task`) and each connection's handler (`handler`), the registry
entry (`active`), the EA and the two directions of every connection, the broker's
orders and positions (`tickets`, `placed`, `brokerOpen`, `taken`), and the
positions table (`dbOpen`, `dbClosed`). `runs` counts how often the EA ran a
command.

| Code | Actions |
|---|---|
| `POST /agents/{id}/commands` | `CreateCommit`, `CreateCheckConnected`, `CreateSpawn` |
| `deliver_pending_commands` | `TaskSelect`, `TaskClaim`, `TaskSend`, `TaskRevertRead`, `TaskRevertWrite` |
| demo endpoint, strategy dispatch | `DirectCreate`, `DirectSend`, `DirectCommit` |
| EA `HandleCommand` | `EAReceive` |
| `agent_ws` handler | `Connect`, `HandlerRead`, `BookAck`, `BookResult`, `HandlerEnd` |
| network, broker, process | `Drop`, `ExecuteOrder`, `BrokerClose`, `Crash` |

A handler is split where it awaits something that suspends: the read of a row and
its commit are separate steps, a `send_json` is one. A handler whose connection
has been replaced reads nothing further.

What the EA reports and what the broker has done are two things. An OPEN that
the broker executes reports the newest position of the terminal's list, which
may not show the new one yet; with an empty list it reports the deal's number,
and without a deal the order's (`AurexisAgent.mq5` 187-189, `OpenTickets`). Orders
and the positions they open share a number here, and the deal that opens
position n is -n. `TRADE_RETCODE_PLACED` counts as success (186, 279): an OPEN may be
COMPLETED while its order waits in `placed`, and a CLOSE while its position is
open and merely in `taken`. A timeout or another code is reported FAILED although
the broker may act on the order later (`OpenPlaced`, then `ExecuteOrder`). So a row
may bear a deal's number, or that of another position, or of an order that never
executes, and may be CLOSED while the position is open. `PositionsTraceable` says
what is left, and is stated with these in mind: every row goes back to an order
of the EA, and every CLOSED row to a close of that very position.

The status EXPIRED exists in the enum
and is set by no code. The REST endpoints by which an agent could poll for and
answer commands are not modelled: the EA in this repository does not use them.

### 2.2 AgentSession: connecting and ending

The EA's client (`ea`, `conn`, `hello`, `welcomed`), the transport (`up`, `closed`,
`inbox`, `toEA`), the handler of every connection (`pc`), the registry (`active`)
and `last_known_status` (`status`). `Connect` and `Accept` are
`agent_manager.connect` before and after its `await` on the old connection's
close. `accept()` does not suspend and succeeds even for a client that has gone
(this is how uvicorn behaves, external to the repository).

The EA calls `g_ws.Tick()` from `OnTick` and from `OnTimer`; one call opens a socket,
reads the 101, a welcome, or notices a loss. Only `OnTimer` sends the hello
(when `g_hello_sent` is false), sends heartbeats, and clears `g_hello_sent` and
`g_is_welcomed` when it finds the client disconnected (503-548), while `OnTick`
(553-558) looks at neither. A loss that `OnTick` notices and repairs between two
timer events therefore leaves both flags as they were; `hello` names the
connection on which the hello on record was sent, so that a stale one can be
told from a fresh one.

A handler ends when its connection is dead (`Gone`) and also on a live connection
(`Fail`) when anything raises in its `try`, such as a database error
(`agent_ws.py` 337-340); it then unregisters itself in its `finally`. `Raise` is an
exception between registering and the `try`, which skips the `finally`. This module treats
messages only as far as the connection needs them; AgentCommands treats the
connection as one step. The two share `active` and are otherwise independent, so
they are not composed.

### 2.3 StrategyEngine: evaluations and orders

One account; `Evaluators` are the worker and requests to the evaluate endpoint.
An evaluation is a transaction: every gate that reads something another actor can
change is a step (`ReadState`, `ReadAccount`, `ReadAgent`, `ReadPosition`, `Seed`,
`ReadKillSwitch`, `PassLimits`), followed by `Flush`, `Dispatch`, `Commit`, or by
an early return (`End`), a self-disable or a recorded non-signal (`Record`). The
state row is locked from the first flush to the commit. The flush of an audit row
takes it slightly earlier in the code, which is not observable. `feed` is the tick an
evaluation finds: none or an old one (gate 5), one that makes no `Tick`
(`TICK_PARSE_ERROR`), one older than what the bar manager has
(`TICK_REJECTED_BY_BAR_MANAGER`, also when another evaluation has overtaken this
one: `Overtaken`), or a good one; `bars` says whether the bar manager has its bars,
must ask the store for them (`Seed`), or is `BARS_WARMING_UP`. Each of these returns
leaves the candle unrecorded. `PassLimits` takes the gate's reads of agent, tick
and account as one: no property compares two of them, and each may be refused by
itself. The brain is a choice
between no direction and a direction, and does not raise; monetary limits and the news window are a
choice to block. The newest candle may also go back (see 2.4: the builder may
append an older bar). `stops` is a history variable: which reasons against
trading have held ever since an evaluation began. The result of a CLOSE command
and the closing of the broker's position are one step (`CloseByCommand`);
`BrokerClose` is the broker closing a position at its stop, which nothing reports.

### 2.4 BarHistory: from ticks to the candle an evaluation sees

Time is the time of the broker's newest tick. A bar is its interval and the set
of intervals its ticks came from. The builder's list is `base`, a sorted set left
by the last seed, followed by `tail`, what `process_tick` appended since. Each
Redis write is merged with the memory write before it, because Redis is read
only when memory is empty; the seed comes after that await and is a step of its
own. Redis may lose a key (`Expire`), which
also stands for a read that fails, and a write to it may fail. M5 and H1 builders, which
nothing seeds and no evaluation reads, are left out. A loss may leave the EA's
record of what it has sent as it was (`stale`): `OnTick` may have reconnected before
the timer clears it, and the connection is then not welcomed before that.

### 2.5 RiskEngine and News: operators

`RiskEngine` has no state: `evaluate` with its checks in the code's order
(`MarketReason`, `NewsReason`, `LossReason`, `ProfitLockBreached`,
`ExposureReason`), the sizing (`PercentageEquity`, `AuthorizedLots`), the snapshot
of an account, and the gate in front of the agent (`evaluate_risk_gate`). Money is
in dollars, lots in steps of 0.01, percentages in hundredths. `get_latest_risk_config`
drops the two fields the service does not read from the row. `News` has the
ingestion of the calendar feed and its three readers, time in units of five
minutes.

### 2.6 TradingPipeline, which refines Ledger

A cycle of `process_tick` is split at its commits (`Propose`, `Expire`, `Evaluate`,
`Block`, `Refuse`, `Dispatch`, `Book`, `BookFails`, `Reconcile`); between them other
pipelines, the operator (`set_kill_switch`, `StoreConfig`, `RecordEquity`,
`RecordDay`, `trigger_news_sync`) and failures (`CommitFails`, `Restart`,
`unfreeze_account`) act. Rows are functions of the signal's number; `broker`,
`tickets` and `frozen` are what the process keeps in memory. A signal is an id and a candidate of
the Brain, which chooses freely. The engine and the gate are those of
`RiskEngine`; `reconcile` gets the fields the caller passes, which is why its
PHANTOM branch can never be taken. `fills`, `late` and `checked` are history.

`Ledger` is the abstract promise: approve, order, book, each once per signal and in
this order. `L == INSTANCE Ledger WITH approved <- ..., orders <- fills, booked <-
...` maps decisions, fills and position rows to it.

### 2.7 Identity: users, tokens, licences, accounts

A request is a transaction at READ COMMITTED, split where what another commits
makes a difference, and made to wait where PostgreSQL makes it wait. `Requests`
are the slots of requests that overlap. `Provision` and `Upgrade` commit in the
middle of their request, as `check_user_can_create_account` does; `Provision` ends the
licence its request has read and no other.

`Waits(q, p)` says whose locks the next statement of a request waits for: another
registration's unique address or code, a token another request has updated
(`seen`), a row of `users` that a reset holds `FOR UPDATE`. The last includes every
INSERT of a row that refers to the user, because a foreign key takes a share lock.
A refresh that has revoked its token waits for the reset of its user, and that
reset waits for the token: the database ends such a circle by rolling one of the
two back (`Abort`). The session does not flush by itself (`autoflush=False`), so an
INSERT belongs to the step that commits, while an UPDATE that is executed at once
(`Supersede`, `revoke_all_user_refresh_tokens`) is a step of its own and holds its
locks until the end. A token's row records, as history, the token it was
exchanged for and the password there was when it was stored.

### 2.8 Brain and Backtest

`Brain` has structure, regime, setup, the six factors of the score (in
thousandths), stop and target and the order of rejections, as operators on a
sequence of bars; the indicators' values are inputs. `Backtest` is the loop of
`BacktestEngine.run`: `OnTick` closes positions at their levels, updates equity and
drawdown, builds bars and enters what Brain and risk engine allow; `Finish` closes
what is open. The summary's figures are operators on the list of trades; the
loops over lists are recursive functions (`Sum`, `Picked`, `Streaks`). `LossBound`
speaks of positions sized by the percentage: a fixed size is not worked out from
the risk.

## 3. Runs

| Run | Checks | Instance |
|---|---|---|
| `commands_queued` | `QueuedSettle` | two commands by the queued route, racing deliveries, fair, no faults |
| `commands_faults` | `TypeOK`, `OutcomesReported`, `CompletedOpensHaveRows`, `StrategyAtMostOnce`, `PositionsTraceable` | a strategy OPEN and a demo CLOSE, four connections, two losses, one restart |
| `commands_at_most_once` | `AtMostOnce` is **violated** | two queued OPENs, no faults |
| `session` | `TypeOK`, `WelcomedByItsHello`, `RegisteredIsServed`, `OnlyOwnUnregistered`, `Recovers`, `OfflineIsReported` | three connections, two losses or failing handlers, or one harder fault, fair |
| `session_split_brain` | `NoSplitBrain` is **violated** | three connections, one loss early and one late |
| `strategy_evaluators` | `StopsRespected` | worker and endpoint, a lost commit, enable, disable and kill switch |
| `strategy_worker` | `OneOrderPerCandle`, `CandleProcessed`, `UnauthorisedEnds` | worker alone, two candles, two orders, rejected ticks, bars warming up, enable, account changes, fair |
| `strategy_two_evaluators` | `OneOrderPerCandle` is **violated** | worker and endpoint on one candle |
| `bars_history` | `NoLookahead`, `OwnTicks`, `WarmsUp` | two evaluations, one restart, one loss, fair |
| `pipeline` | `TypeOK`, `PositionLimit`, `KillSwitchBound`, `RiskPerTrade`, `SoundReconciliation`, `GateAgrees`, `StatusReached`, `NewsAgrees`, `LedgerSpec` | two pipelines, three signals, one record, one failure |
| `identity` | `SerialOnce`, `LicenceBound`, `ResetOnce`, `ResetEndsSessions`, `SuccessorsBound`, `RequestsEnd` | three users, two codes, four requests, two at a time, fair |
| `backtest` | `BooksBalance`, `SummaryAgrees`, `LossBound`, `DrawdownReported`, `StopAndTarget`, `OneDirection` | seven ticks over three prices |

Every property of a passing run has a mutant in `PROJECT.json`: a plausible slip
in one mapped definition under which TLC finds the property violated.

### 3.1 Bounds

* Commands: two commands are what a race between two deliveries needs; their
  kind makes no difference to `QueuedSettle`, so that run leaves the broker out.
  In `commands_faults` the CLOSE meets the position of the OPEN, or none, or one the
  broker has closed, or a row under a deal's number, and may be sent again by the
  delivery of a later connection. Four connections with two losses and one restart
  leave a last one after all faults. A ticket that names another position needs
  two positions and is left to the theorem (4.2), which has no bounds.
  `ClaimLimit` is 10 as in the code, and 2 in `commands_queued`, which has two
  commands. Connections are interchangeable in `commands_faults`, so it uses
  symmetry. Deadlock is not checked where the bounded faults and commands run out:
  the system is then at rest.
* Sessions: three connections are the old one, the one that replaces it and one
  that overtakes that. `MaxFaults` bounds all faults together; a loss and an
  exception inside the handler's `try` count once, and the harder ones (an early
  loss, a restart, an exception outside the `try`), which the liveness properties
  excuse, count twice. With 2 there are two of the former, so that a second loss
  meets what the first left behind, or one of the latter. Combinations of more
  are left to the theorems for the safety properties. One frame in flight
  suffices because a handler reads one at a time (two in the split-brain run).
* Strategy: two evaluators, one candle and one order with a lost commit show
  every overtaking at the gates; two candles and two orders show the next one.
  `Ticks`, `Memory` and `Operator` name what the surroundings may do in a run: each
  run has what its properties depend on. Bars start as "few", so that warming up
  ends evaluations in every run that seeds.
* Bars: `Interval`, `Copied`, `Need` and `Cap` of 2 and the ticks from `Start` = 4
  to `MaxTime` = 6 give two bars closed before the start, one that closes during
  the run, and a merged list that `Cap` cuts off. The proofs cover the
  real 900 s, 60, 50 and 300.

* Pipeline: two pipelines race for the last position of `Limit` = 1; the third
  signal lets one of them try again after a failure or the kill switch. One
  failure gives a lost commit at every stage or a restart whose ticket counter
  meets the earlier rows. The operator stores one record: a day at the daily
  loss limit or with a profit to lock, a lower equity cannot be told apart from
  these. Prices make a BUY that fits the limits and a SELL that does not. The
  feed has an event that counts, one of another currency, one of less impact
  and one without a date; `Moments` are the edges of the window and just beyond.
* Identity: two requests at a time are what every race here needs; four in all let
  a login, a rotation and two resets, or two registrations and two accounts,
  meet. `Early` is a user registered at the start.
* Backtest: three prices are a low, an entry and a target region; five values of
  the indicators give trend up, down, weak, quiet and none. Seven ticks let two
  positions open and close. `Lookback` is 1 instead of 3, so that three bars
  show a swing.

### 3.2 Fairness

* `AgentCommands`: weak fairness of each server coroutine, of the EA's reading and
  of its reconnecting. The event loop runs what can run, and the EA's timer
  fires every second. Nothing is assumed of users, network or broker.
* `AgentSession`: the server's handlers, and that a dead connection is noticed
  (close frame, reset or the server's keepalive). Of the EA only the timer is fair,
  one event each for what `Tick()` can do: it fires every second, while prices (and
  with them `OnTick`) may stay away. Nothing is assumed of exceptions.
* `StrategyEngine`: the worker's loop comes round, awaits return, the EA answers
  and answers are read. Operators and market are free.
* `Identity`: a request that can take its next statement does, and the database
  ends a circle of waiting requests (PostgreSQL's deadlock detection); nothing is
  assumed of who starts requests, of the clock or of other rollbacks.
* `TradingPipeline` and `Backtest` have no liveness properties: a cycle runs only
  while ticks come, and a backtest ends when its data do.
* `BarHistory`: only that the EA is welcomed when it can be and that the handler
  reads. No evaluation is assumed to run.

### 3.3 What the violations show

1. **At-most-once** (`agent_commands.py:166`). Two delivery tasks read the same
   PENDING row before either commits its claim, and both send it; the EA keeps no
   ids and runs it twice. The documentation promises at-most-once execution.
2. **Split brain** (`agent_manager.py:50`). Two connections wait for the one they
   replace to close; the older may register last and displaces the EA's current
   connection without closing it.
3. **One signal per candle** (`strategy_service.py:348`). The cooldown compares
   with a row read without a lock; the endpoint beside the worker gives a candle
   two live orders.

### 3.4 Disagreements visible in the models without a run of their own

* A batch is committed SENT before it is sent; after a failed send the remaining
  rows stay SENT for good (`agent_ws.py:163`; the module's header, lines 17-18,
  describes reverting).
* A stale claim moves a row that is already ACKNOWLEDGED or COMPLETED back to SENT
  (`services/agent_commands.py:178`; line 11 speaks of strict transitions).
* An answer that arrives before the row's commit finds no row, and the row stays
  SENT (`strategy_service.py:507`).
* A commit lost after the send repeats the candle's order (`strategy_worker.py:59`).
* After a loss that `OnTick` notices and repairs before `OnTimer` has cleared
  `g_hello_sent`, no hello is sent on the new connection (`AurexisAgent.mq5:510`; line
  509: "Send Hello immediately upon connection"). If the loss came between hello
  and welcome, the EA stays unwelcomed, sends neither prices nor bars, and is
  reported CONNECTED. `Recovers` excuses it by name (`HelloIsStale`).
* Nothing bounds the time the EA waits for the 101 while its socket stays open
  (`AurexisWebSocket.mqh:409`).
* The one-position check counts booked rows (`strategy_service.py:306`; line 12: "if
  an OPEN position exists -> NO new signal"). An order that is filled and whose
  result is still on its way, or was refused because its row is not committed yet,
  is not seen: the next candle may open a second position, with the worker alone
  and without a fault.
* A session can survive a password reset (`auth.py:256`). A rotation finds its token
  valid (243), the reset revokes that token ("Revoke all active sessions",
  `password_reset.py:108`) and commits, and the rotation, whose own UPDATE then finds
  nothing and whose result nobody looks at, stores and returns a successor. That
  token was stored under the new password, which is all `ResetEndsSessions` can
  promise; the session it continues is the old one.
* One token may have several successors: rotations of it that overlap all pass the
  check of line 243, the later ones revoke nothing and are answered with a token
  all the same (`auth.py:14`: "Replayed revoked JTIs are rejected with 401").
  `SuccessorsBound` says how many: no more than requests overlap.
* A position row may bear the number of a deal or of another position, and is
  CLOSED when a close is merely placed (`AurexisAgent.mq5:188`, `279`). An order
  reported FAILED after a timeout may still be executed; no row tells of it.
* A handler that fails on a live connection unregisters it (`agent_ws.py:337-340`);
  the EA notices when the server closes the socket, and comes back.
* A refresh and a reset of one user may wait for each other's rows; the database
  then rolls one of them back (`auth.py:256`, `password_reset.py:101`).
* A disable that commits during an evaluation does not stop that evaluation's
  order (`strategy_service.py:236`). `StopsRespected` says what does hold.
* A position the broker closes itself keeps its row OPEN and so blocks the engine
  (`execution_service.py:400`); `CandleProcessed` lists the OPEN row among the
  reasons for waiting.
* After a server restart `last_known_status` stays CONNECTED if the EA never
  returns: `mark_agent_offline` has no caller. `OfflineIsReported` excuses it.
* An exception between registering and the handler's `try` (`agent_ws.py:215`)
  leaves a registry entry nobody serves; `RegisteredIsServed` is checked and
  proved up to the first of them.
* The builder's list can be out of order until the next seed: after the EA's bar
  of an interval was seeded, the builder appends its own of that interval, or of
  an older one, behind it (`bar_builder.py:109`; line 49 promises order).
* Two demo requests with the same `client_order_id` that overlap both trade: the
  lookup has no unique key behind it (`execution_routes.py:237`).
* The pipeline's limit on open positions and the kill switch give way by one order
  per pipeline that had its approval before (`PositionLimit`, `KillSwitchBound`).
* A position row without a broker position is never reported, since the caller
  leaves `status` out (`reconciliation.py:129`; lines 7 and 12 announce PHANTOM).
  After a restart, or beside another pipeline, a fill whose commit failed may be
  matched by another simulator's row with the same ticket, side and size.
* An approval may carry no size when the size is below the minimum lot
  (`sizing.py:75`); the execution service then refuses it.
* Two overlapping first accounts of one user leave two ACTIVE licences, after
  which `get_user_active_license` raises for good (`license.py:169`). The limit
  on accounts of a tier is never enforced, because the check upgrades the
  licence. `delete_account` looks for open positions in an earlier statement.
* A backtest's daily loss never resets, because nothing tells it the day; with
  `tick_age_ms` of historic ticks every entry is `STALE_MARKET_DATA`
  (`engine.py:7` promises the live path).
* A BUY against a falling trend can pass the threshold; `OneDirection` says what
  does hold.
* A rescheduled news event gets a new row, and the old row keeps blocking.
* The chart of another timeframe is put together from M15 bars once and kept
  (`market_data_service.py:475`).

## 4. Proofs

Every invariant and every action property that a passing run checks is also
proved, and so is the refinement of `Ledger`; what is left to TLC alone is
liveness (4.3).
The theorems are of the form `Spec => []P` (or an action property, or a
refinement) and hold for every value of the constants that satisfies the
`ASSUME`s of the module.

### 4.1 Assumptions

* AgentCommands, AgentSession, BarHistory, StrategyEngine: disjoint sets of
  commands and connections, bounds in `Nat`, a positive bar interval, a `Start` at
  which one bar has closed.
* RiskEngine: the value `None` that stands for Python's is none of the reasons, verdicts and
  numbers.
* TradingPipeline: a finite, non-empty set of pipelines, configurations within
  `Limit`; prices, equities and times are integers, a spread and an age are not
  negative (`InputsAssumption`); a date of the feed may fail to parse.
* Identity: a finite, non-empty set of slots for requests; serial codes are not
  the numbers that name licences given out later; `None` is none of these and no
  row of a licence.
* Backtest: prices are integers, ages, costs and the average true range are not
  negative, the lookback is positive, and the configuration is one that
  `RiskConfig` can hold, with any of its limits missing.

One theorem has hypotheses of its own: `OneOrderEach` is about `Evaluators =
{Worker}` and `MaxLost = 0`, because with a second evaluator or a lost commit the
property is false (3.3, 3.4).

### 4.2 Arguments

* **AgentCommands_proofs** (`TypeCorrect`, `OutcomesCorrect`, `PositionsCorrect`,
  `CompletedCorrect`, `StrategyRunsOnce`). What a handler books comes from a
  message, so the tables can be shown truthful only if the messages are:
  `WireTruthful` (every message on its way is about a command the EA ran, with a
  number one of its orders has, taken by the broker if a close succeeded) and `HandTruthful` (the
  same of the message a handler holds) are added to the type invariant and the
  three properties. `BrokerStep` shows that broker facts only grow, so that a
  message that was true stays true; the lemmas after it go action by action.
  `StrategyRunsOnce` has an invariant of its own: no task has a strategy command
  in its batch and its row is never PENDING (`NotClaimed`), so that only its
  request sends it; there is one copy of it on all wires together, and none once
  the EA has run it or before the request has sent it (`SentOnce`).
* **AgentSession_proofs** (`TypeCorrect`, `WelcomedCorrect`, `OnlyOwnCorrect`,
  `ServedCorrect`). `WelcomedByItsHello` needs what is on the wires: a connection
  carries one hello, as its first frame, and a welcome on it means that the
  hello has been read (`HelloAnswered`); until the EA has a hello on record it has
  said nothing on its connection and is not welcomed (`SilentAtFirst`), because
  `OnTimer` clears both flags or neither. A hello of the present connection can
  then only be met by a welcome of the present connection, however often `OnTick`
  reconnects with the flags of the old one. `OnlyOwnCorrect` is an action property:
  what empties the registry is `Finalize`, `SendFails` or a restart, and in each
  the connection is dead or the handler's own. The rest is that connections not
  yet opened are idle and that the registered connection was opened.
* **StrategyEngine_proofs** (`TypeCorrect`, `StopsCorrect`, `OneOrderEach`). `Sound(e)`
  says of every evaluation which reasons it has already ruled out at its step
  (`Cleared`), that it is live if past the dry-run gate (`LiveOnly`) and that its
  candle is new (`CandleNew`). The history `stops` only shrinks during an
  evaluation, so what is ruled out stays ruled out, whatever other evaluations and
  operators do. For the worker alone, the row still names the candle it was read
  with (`RowCurrent`) and is at least as new as every order but the one whose
  commit is due (`Recorded`); with `CandleNew` the next order is for a newer candle
  than all before it, even when the list of bars goes back.
* **BarHistory_proofs** (`TypeCorrect`, `LookaheadCorrect`, `OwnTicksCorrect`).
  Whatever a bar can come from (a message, memory, Redis, the builder, a value in
  the hands of an evaluation) is no later than now, and the running bar is that
  of the last ingested tick, which needs `validate_tick`. Monotonicity of
  `Bucket` is proved from the division algorithm and used in every step that
  advances time.
* **RiskEngine_proofs** has the lemmas that the next two and the backtest share:
  what an approval says of the configuration and of the snapshot (`Approval`,
  `ApprovalConfigured`), and that a size rounded down to the lot step risks no
  more than the percentage of the equity (`RoundedDown`, `SizeWithin`).
* **TradingPipeline_proofs** (`TypeCorrect`, `CyclesHold`, `RefinesLedger`,
  `StatusCorrect`, `KillSwitch`, `PositionsLimited`, `RiskWithin`,
  `ReconciliationSound`, `GateAndEngineAgree`, `CalendarAgrees`). Everything rests
  on `Cycles`: a signal has been created (`Owned`), belongs to one cycle (`Apart`),
  has neither decision nor fill before its time (`Fresh`, `Undecided`, `Unfilled`),
  and a position of a simulator is the one fill of its signal (`Filled`). No
  other cycle can then touch what a cycle relies on, however many there are. The
  refinement maps `Evaluate` to `Approve` or a stutter, a fill to `Order`, `Book`
  to `Book` or a stutter. `StatusCorrect` adds the states a command object goes
  through (`Commanded`); `KillSwitch` adds that who has filled since the switch
  is not told to again (`Stopped`); `PositionsLimited` counts rows and pending
  approvals together (`Room`): an approval needs room in the rows alone, and each
  pipeline holds one. `RiskWithin` carries the percentage from the decision to
  the fill (`Sized`), since configuration and equity may change between them.
  `ReconciliationSound` needs that a ticket names one position of a simulator's
  life and that a row of this life is one of its positions (`Ticketed`): rows
  that match by ticket, side and size alone then come from elsewhere.
  `GateAndEngineAgree` compares two decision functions over every configuration,
  snapshot and tick; proving it showed two cases the first instance had missed,
  a stored age limit of 0, which the gate replaces by 2000 ms and the engine
  does not, and a tick without spread, which only the gate refuses; the property
  names both, and the run's markets include a tick without spread.
  `CalendarAgrees` follows from the form of the stored rows (`Calendar`).
* **Identity_proofs** (`SerialCodePaysOnce`, `LicencesBounded`,
  `ResetLinkSpentOnce`, `ActiveTokensAreNew`, `SuccessorsBounded`). The
  properties are about committed rows, the invariants about what requests under
  way have read and locked. `Licensing`: who registered owns the code paid with
  (`Sold`), a registration past its `SELECT ... FOR UPDATE` holds an unused code and
  a free address (`Holds`), no two hold the same (`Exclusive`), and active licences
  have users (`Known`). `Slots` counts, for a user, the requests that will give a
  licence together with the active licences that none of them will end (`Spare`):
  a request that starts to give one has found none but the one it ends, so the sum
  stays within the slots although `Provision` commits in the middle. `Spending`: a
  link that a request has consumed is used up by no other request. `Settled`: a
  token that is not revoked was stored under the present password. It is kept by
  `Covered`: between the UPDATE of a reset and its commit, the rows the UPDATE has
  found are still all the user's tokens that are not revoked, because a new one
  needs a share of the users row that the reset holds. `Chains`: a token that has a
  successor is revoked, and its successors together with its rotations under way
  are no more than the slots; once it is revoked no rotation of it can begin.
* **Backtest_proofs** (`NeverBothDirections`, `StopsAndTargetsPlaced`,
  `LossesBounded`, `BooksAlwaysBalance`, `DrawdownCoversTheEnd`,
  `SummaryAlwaysAgrees`, with `TypesKept`). The loops of the code over lists are
  recursive functions here (`Sum`, `Picked`, `Streaks`). Their defining equations
  are proved to have solutions, and what they compute is shown by induction over
  a set of places (`Induction`, from the well-foundedness of `<` on the naturals):
  sums of concatenations, of lists that differ place by place, of bounded lists;
  a selection and its complement add up to the whole (`ProfitAndLoss`); the
  one-pass counters hold the current and the longest run (`Run`). The invariants
  on top: an open position was sized by the distance to its stop and is opened
  by this tick or not hit by it (`Held`), which bounds a loss also when the next tick jumps
  (the exit is booked at the stop) or the data end; the balance is the sum of
  what is booked (`Booked`); until the end the drawdown covers the fall from the
  peak to the floating equity, but for the spread and slippage of what was
  opened after the last update (`Covers`). `NeverBothDirections` adds up the
  factors of both directions: together they stay below twice the threshold.

### 4.3 Only model-checked

The liveness properties (`QueuedSettle`, `Recovers`, `OfflineIsReported`,
`CandleProcessed`, `UnauthorisedEnds`, `WarmsUp`, `RequestsEnd`): the prover does not handle fairness
and `ENABLED`. The violations of 3.3 are counterexamples and belong to TLC.

## 5. Not modelled

`PROJECT.json` gives the reason for each component. In short:

* prices, JSON, frames, formatting, hashing and mail are data the properties do
  not tell apart;
* the formulas of the indicators are decimal arithmetic over fifty bars; their
  values are inputs of `Brain`;
* robustness, sensitivity and walk-forward call the backtest with other
  parameters and add statistics;
* realtime events, audit rows, charts and views have no influence on the modelled
  state;
* agent registration, key rotation and the REST poll, acknowledge and result
  endpoints, which the EA does not use, are single-row writes;
* several uvicorn workers: registry and builders live in process memory, and the
  deployment runs one.

## 6. Plan

1. *Done*: the live path (AgentCommands, AgentSession, StrategyEngine, BarHistory)
   with its proofs, in this order because an order that is sent twice or not
   booked costs most.
2. *Done*: RiskEngine, News, TradingPipeline with Ledger and its proofs; Identity;
   Brain and Backtest.
3. *Done*: proofs of all invariants, action properties and the refinement.
4. The `client_order_id` lookup beside concurrent identical requests; the front
   end's reconnecting socket.
5. An abstract command, "requested, executed some number of times, booked", that
   AgentCommands refines.
