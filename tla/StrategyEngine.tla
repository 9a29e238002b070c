--------------------------- MODULE StrategyEngine ---------------------------
(***************************************************************************)
(* The strategy engine of ONE account (backend/services/strategy_service): *)
(* evaluations started by the background worker and by the evaluate        *)
(* endpoint, the operator's enable, disable and kill-switch endpoints that *)
(* run between their awaits, and the orders that reach the broker.         *)
(*                                                                         *)
(* An evaluation is one PostgreSQL transaction at READ COMMITTED: a read   *)
(* sees what is committed when it runs, the rows it changes stay locked    *)
(* from their flush to the commit, and nothing it wrote is visible before. *)
(* The brain is a choice between no direction and a BUY; which ticks and   *)
(* bars an evaluation finds, the agent and the limits of the risk gate     *)
(* other than the kill switch are choices too.                             *)
(***************************************************************************)
EXTENDS Naturals

CONSTANTS Evaluators,   \* tasks that may evaluate the account
          Worker,       \* the one of the background loop
          MaxCandles,   \* M15 candles, numbered by their open time
          MaxOrders,    \* orders the account may send
          MaxLost,      \* evaluations whose commit is lost after the send
          Operator,     \* requests the operator may make
          Ticks, Memory \* what Environment may do to the ticks and the bars

\* A tick may be missing or too old (gate 5), not make a Tick, be older than
\* one the bar manager already has, or pass.
Feeds == {"stale", "unparsable", "late", "good"}

\* Bars enough in memory, or only in the store (Redis), or nowhere.
Warmth == {"few", "stored", "enough"}

ASSUME StrategyAssumption ==
  /\ Worker \in Evaluators
  /\ MaxCandles \in Nat /\ MaxOrders \in Nat /\ MaxLost \in Nat
  /\ Ticks \subseteq Feeds /\ Memory \subseteq Warmth

None == "none"
NoOrder == 0
ASSUME NoneAssumption == None \notin Evaluators

Candles == 0 .. MaxCandles
Orders == 1 .. MaxOrders

VARIABLES
  enabled, dryRun,       \* StrategyEngineState
  lastCandle,            \* StrategyEngineState.last_signal_candle_ts
  killed,                \* RiskConfiguration.kill_switch_active
  account,               \* is the account active, and may it trade live?
  agentUp,               \* agent_manager.is_connected
  feed,                  \* the market tick an evaluation finds (see Feeds)
  bars,                  \* has the bar manager its 50 bars?  (see Warmth)
  candle,                \* closed_bars[-1] of the bar manager
  pc,                    \* where each evaluation is
  sawDry, sawLast,       \* the state row as the evaluation read it
  sawAgent,              \* agent_connected
  forCandle,             \* the candle it evaluates
  mine,                  \* the order it has sent
  lock,                  \* the transaction that holds the state row
  nextOrder, orderCandle,\* orders sent so far, and the candle of each
  stored,                \* orders whose command row is committed
  sent, open, results,   \* at the EA, open at the broker, answered
  rows,                  \* Position rows with status OPEN
  lost,
  stops                  \* history: conditions against trading that have held
                         \* since the evaluation began

stateVars == <<enabled, dryRun, lastCandle>>
envVars == <<killed, account, agentUp, feed, bars, candle>>
sawVars == <<sawDry, sawLast, sawAgent, forCandle>>
orderVars == <<nextOrder, orderCandle, stored, sent>>
brokerVars == <<open, results, rows>>
vars == <<stateVars, envVars, pc, sawVars, mine, lock, orderVars, brokerVars, lost, stops>>

Accounts == {"authorised", "unauthorised", "inactive"}
Steps == {"idle", "state", "account", "agent", "position", "seed", "gate", "limits",
          "selfdisable", "nothing", "blocked", "flush", "dispatch", "commit"}
Stops == {"disabled", "dry", "killed", "account"}

\* Types of the strategy row, the evaluation steps and what each evaluation has read so far.
TypeOK ==
  /\ enabled \in BOOLEAN /\ dryRun \in BOOLEAN /\ killed \in BOOLEAN
  /\ agentUp \in BOOLEAN /\ feed \in Feeds /\ bars \in Warmth
  /\ account \in Accounts
  /\ lastCandle \in Candles /\ candle \in Candles
  /\ pc \in [Evaluators -> Steps]
  /\ sawDry \in [Evaluators -> BOOLEAN] /\ sawAgent \in [Evaluators -> BOOLEAN]
  /\ sawLast \in [Evaluators -> Candles] /\ forCandle \in [Evaluators -> Candles]
  /\ mine \in [Evaluators -> Orders \cup {NoOrder}]
  /\ lock \in Evaluators \cup {None}
  /\ nextOrder \in 0 .. MaxOrders
  /\ orderCandle \in [Orders -> Candles]
  /\ stored \subseteq Orders /\ sent \subseteq Orders
  /\ open \subseteq Orders /\ results \subseteq Orders /\ rows \subseteq Orders
  /\ lost \in 0 .. MaxLost
  /\ stops \in [Evaluators -> SUBSET Stops]

\* get_or_create_strategy_state: disabled and dry; candle 0 is "none yet".
Init ==
  /\ enabled = FALSE /\ dryRun = TRUE /\ lastCandle = 0
  /\ killed = FALSE /\ account \in {"authorised", "unauthorised"}
  /\ agentUp = FALSE /\ feed = "stale" /\ bars = "few" /\ candle = 0
  /\ pc = [e \in Evaluators |-> "idle"]
  /\ sawDry = [e \in Evaluators |-> TRUE] /\ sawAgent = [e \in Evaluators |-> FALSE]
  /\ sawLast = [e \in Evaluators |-> 0] /\ forCandle = [e \in Evaluators |-> 0]
  /\ mine = [e \in Evaluators |-> NoOrder]
  /\ lock = None
  /\ nextOrder = 0 /\ orderCandle = [i \in Orders |-> 0]
  /\ stored = {} /\ sent = {} /\ open = {} /\ results = {} /\ rows = {}
  /\ lost = 0
  /\ stops = [e \in Evaluators |-> {}]

\* What forbids a live order at this moment.
StopsNow == {s \in Stops : \/ s = "disabled" /\ ~enabled
                           \/ s = "dry" /\ dryRun
                           \/ s = "killed" /\ killed
                           \/ s = "account" /\ account # "authorised"}

\* A condition that is lifted once, and be it for a moment, is dropped.
KeepStops == stops' = [e \in Evaluators |-> stops[e] \cap StopsNow']

Goto(e, step) == pc' = [pc EXCEPT ![e] = step]

\* The evaluation returns; its locals are gone.
End(e) ==
  /\ pc' = [pc EXCEPT ![e] = "idle"]
  /\ sawDry' = [sawDry EXCEPT ![e] = TRUE]
  /\ sawLast' = [sawLast EXCEPT ![e] = 0]
  /\ sawAgent' = [sawAgent EXCEPT ![e] = FALSE]
  /\ forCandle' = [forCandle EXCEPT ![e] = 0]
  /\ mine' = [mine EXCEPT ![e] = NoOrder]

-----------------------------------------------------------------------------
(* One evaluation: evaluate_strategy_for_account, split at its awaits. *)

\* The worker's tick for a row it selected as enabled, or the endpoint.
Start(e) ==
  /\ pc[e] = "idle"
  /\ e = Worker => enabled
  /\ Goto(e, "state")
  /\ stops' = [stops EXCEPT ![e] = StopsNow]
  /\ UNCHANGED <<stateVars, envVars, sawVars, mine, lock, orderVars, brokerVars, lost>>

\* Gate 1.
ReadState(e) ==
  /\ pc[e] = "state"
  /\ \/ /\ enabled
        /\ Goto(e, "account")
        /\ sawDry' = [sawDry EXCEPT ![e] = dryRun]
        /\ sawLast' = [sawLast EXCEPT ![e] = lastCandle]
        /\ UNCHANGED <<sawAgent, forCandle, mine>>
     \/ ~enabled /\ End(e)
  /\ UNCHANGED <<stateVars, envVars, lock, orderVars, brokerVars, lost>>
  /\ KeepStops

\* Gates 2 and 3: a live engine on an account that may not trade turns
\* itself off.
ReadAccount(e) ==
  /\ pc[e] = "account"
  /\ \/ /\ account = "inactive"
        /\ End(e)
     \/ /\ account = "unauthorised" /\ ~sawDry[e]
        /\ Goto(e, "selfdisable")
        /\ UNCHANGED <<sawVars, mine>>
     \/ /\ account = "authorised" \/ (account = "unauthorised" /\ sawDry[e])
        /\ Goto(e, "agent")
        /\ UNCHANGED <<sawVars, mine>>
  /\ UNCHANGED <<stateVars, envVars, lock, orderVars, brokerVars, lost>>
  /\ KeepStops

\* Mutant of SelfDisable: the caller rolls a blocked evaluation back.
SelfDisable_RolledBack(e) ==
  /\ pc[e] = "selfdisable"
  /\ lock = None
  /\ End(e)
  /\ UNCHANGED <<stateVars, envVars, lock, orderVars, brokerVars, lost>>
  /\ KeepStops

\* The caller commits it, although the evaluation reports BLOCKED.
SelfDisable(e) ==
  /\ pc[e] = "selfdisable"
  /\ lock = None
  /\ enabled' = FALSE /\ dryRun' = TRUE
  /\ End(e)
  /\ UNCHANGED <<lastCandle, envVars, lock, orderVars, brokerVars, lost>>
  /\ KeepStops

\* Gates 4 and 5: the agent's state is remembered; no tick, a stale one and
\* one that makes no Tick end it.
ReadAgent(e) ==
  /\ pc[e] = "agent"
  /\ \/ /\ feed \in {"late", "good"}
        /\ sawAgent' = [sawAgent EXCEPT ![e] = agentUp]
        /\ Goto(e, "position")
        /\ UNCHANGED <<sawDry, sawLast, forCandle, mine>>
     \/ /\ feed \in {"stale", "unparsable"}
        /\ End(e)
  /\ UNCHANGED <<stateVars, envVars, lock, orderVars, brokerVars, lost>>
  /\ KeepStops

\* The rest of gate 7 and gate 8: a closed candle newer than the one the state
\* row named when it was read, and the brain's direction.
Consider(e) ==
  \/ /\ sawLast[e] >= candle
     /\ End(e)
  \/ /\ sawLast[e] < candle
     /\ forCandle' = [forCandle EXCEPT ![e] = candle]
     /\ Goto(e, "nothing") \/ Goto(e, "gate")
     /\ UNCHANGED <<sawDry, sawLast, sawAgent, mine>>

\* The tick is older than one that was ingested, perhaps by another evaluation
\* since this one read it.
Overtaken(e) == feed = "late" \/ Evaluators # {e}

\* Gate 6, no OPEN row, and the first half of gate 7: the bar manager takes
\* the tick and has its 50 bars, or the store is asked for them.
ReadPosition(e) ==
  /\ pc[e] = "position"
  /\ \/ /\ rows # {} \/ Overtaken(e)
        /\ End(e)
     \/ /\ rows = {} /\ feed # "late" /\ bars # "enough"
        /\ Goto(e, "seed")
        /\ UNCHANGED <<sawVars, mine>>
     \/ /\ rows = {} /\ feed # "late" /\ bars = "enough"
        /\ Consider(e)
  /\ UNCHANGED <<stateVars, envVars, lock, orderVars, brokerVars, lost>>
  /\ KeepStops

\* The store has answered: its bars fill the bar manager, or there are still
\* too few and the evaluation ends as BARS_WARMING_UP.
Seed(e) ==
  /\ pc[e] = "seed"
  /\ \/ /\ bars # "few"
        /\ bars' = "enough"
        /\ Consider(e)
     \/ /\ bars = "few"
        /\ End(e)
        /\ UNCHANGED bars
  /\ UNCHANGED <<stateVars, killed, account, agentUp, feed, candle, lock, orderVars,
                 brokerVars, lost>>
  /\ KeepStops

\* Mutant of Record: a candle without a direction is not recorded.
Record_BlockedOnly(e) ==
  /\ pc[e] \in {"nothing", "blocked"}
  /\ lock = None
  /\ lastCandle' = IF pc[e] = "blocked" THEN forCandle[e] ELSE lastCandle
  /\ End(e)
  /\ UNCHANGED <<enabled, dryRun, envVars, lock, orderVars, brokerVars, lost>>
  /\ KeepStops

\* No direction, a blocked signal or a dry run: the state row is written with
\* its candle and committed.
Record(e) ==
  /\ pc[e] \in {"nothing", "blocked"}
  /\ lock = None
  /\ lastCandle' = forCandle[e]
  /\ End(e)
  /\ UNCHANGED <<enabled, dryRun, envVars, lock, orderVars, brokerVars, lost>>
  /\ KeepStops

\* Mutant of ReadKillSwitch: the gate does not look at it.
ReadKillSwitch_Ignored(e) ==
  /\ pc[e] = "gate"
  /\ Goto(e, "limits")
  /\ UNCHANGED <<stateVars, envVars, sawVars, mine, lock, orderVars, brokerVars, lost>>
  /\ KeepStops

\* Gate 10 reads the configuration first ...
ReadKillSwitch(e) ==
  /\ pc[e] = "gate"
  /\ Goto(e, IF killed THEN "blocked" ELSE "limits")
  /\ UNCHANGED <<stateVars, envVars, sawVars, mine, lock, orderVars, brokerVars, lost>>
  /\ KeepStops

\* ... then the agent, the tick and the limits; gate 11 is the dry run and
\* the agent as gate 4 saw it.  (The reads of this gate are one step: nothing
\* below compares what two of them saw, and each may also be refused.)
PassLimits(e) ==
  /\ pc[e] = "limits"
  /\ \/ Goto(e, "blocked")
     \/ /\ agentUp /\ feed # "stale" /\ account # "inactive"
        /\ ~sawDry[e] /\ sawAgent[e]
        /\ Goto(e, "flush")
  /\ UNCHANGED <<stateVars, envVars, sawVars, mine, lock, orderVars, brokerVars, lost>>
  /\ KeepStops

\* create_command's flush writes the changed state row too.
Flush(e) ==
  /\ pc[e] = "flush"
  /\ lock = None
  /\ lock' = e
  /\ Goto(e, "dispatch")
  /\ UNCHANGED <<stateVars, envVars, sawVars, mine, orderVars, brokerVars, lost>>
  /\ KeepStops

\* agent_manager.send_json: the EA has the order, or the command is failed.
Dispatch(e) ==
  /\ pc[e] = "dispatch"
  /\ nextOrder < MaxOrders
  /\ \/ /\ agentUp
        /\ nextOrder' = nextOrder + 1
        /\ orderCandle' = [orderCandle EXCEPT ![nextOrder + 1] = forCandle[e]]
        /\ sent' = sent \cup {nextOrder + 1}
        /\ mine' = [mine EXCEPT ![e] = nextOrder + 1]
     \/ ~agentUp /\ UNCHANGED <<nextOrder, orderCandle, sent, mine>>
  /\ Goto(e, "commit")
  /\ UNCHANGED <<stateVars, envVars, sawVars, lock, stored, brokerVars, lost>>
  /\ KeepStops

\* Mutant of Commit: the candle is not recorded after a live order.
Commit_NoCandle(e) ==
  /\ pc[e] = "commit"
  /\ stored' = stored \cup ({mine[e]} \ {NoOrder})
  /\ lock' = None
  /\ End(e)
  /\ UNCHANGED <<stateVars, envVars, nextOrder, orderCandle, sent, brokerVars, lost>>
  /\ KeepStops

\* The caller's commit.
Commit(e) ==
  /\ pc[e] = "commit"
  /\ lastCandle' = forCandle[e]
  /\ stored' = stored \cup ({mine[e]} \ {NoOrder})
  /\ lock' = None
  /\ End(e)
  /\ UNCHANGED <<enabled, dryRun, envVars, nextOrder, orderCandle, sent, brokerVars, lost>>
  /\ KeepStops

\* The process restarts, or the database refuses the commit: the signal, the
\* command and the candle are rolled back, the order is out.
LoseCommit(e) ==
  /\ lost < MaxLost
  /\ pc[e] = "commit"
  /\ lost' = lost + 1
  /\ lock' = None
  /\ End(e)
  /\ UNCHANGED <<stateVars, envVars, orderVars, brokerVars>>
  /\ KeepStops

-----------------------------------------------------------------------------
(* The operator's endpoints, each one transaction. *)

enable_strategy(dry) ==
  /\ "enable" \in Operator
  /\ lock = None
  /\ enabled' = TRUE /\ dryRun' = dry
  /\ UNCHANGED <<lastCandle, envVars, pc, sawVars, mine, lock, orderVars, brokerVars, lost>>
  /\ KeepStops

\* An unchanged row is not written, and so does not wait for the lock.
disable_strategy ==
  /\ "disable" \in Operator
  /\ enabled => lock = None
  /\ enabled' = FALSE
  /\ UNCHANGED <<dryRun, lastCandle, envVars, pc, sawVars, mine, lock, orderVars, brokerVars, lost>>
  /\ KeepStops

\* Arming it also disables the engine, in the same transaction.
set_kill_switch(active) ==
  /\ "kill" \in Operator
  /\ (active /\ enabled) => lock = None
  /\ killed' = active
  /\ enabled' = (enabled /\ ~active)
  /\ UNCHANGED <<dryRun, lastCandle, account, agentUp, feed, bars, candle, pc, sawVars, mine,
                 lock, orderVars, brokerVars, lost>>
  /\ KeepStops

\* PATCH and DELETE of the account.
ChangeAccount(state) ==
  /\ "account" \in Operator
  /\ account' = state
  /\ UNCHANGED <<stateVars, killed, agentUp, feed, bars, candle, pc, sawVars, mine, lock,
                 orderVars, brokerVars, lost>>
  /\ KeepStops

-----------------------------------------------------------------------------
(* The world around it. *)

\* A bar is appended or bars are seeded.  A late bar of the builder goes behind
\* newer ones (BarHistory), so the last one may be older than before.
NextCandle ==
  /\ candle' \in Candles \ {0, candle}
  /\ UNCHANGED <<stateVars, killed, account, agentUp, feed, bars, pc, sawVars, mine, lock,
                 orderVars, brokerVars, lost>>
  /\ KeepStops

\* The agent connects or disconnects, ticks of any kind arrive or stop, the
\* EA's bars are stored and seeded, and a restart empties the bar manager.
Environment ==
  /\ agentUp' \in BOOLEAN /\ feed' \in {feed} \cup Ticks
  /\ bars' \in IF candle = 0 THEN {bars} ELSE {bars} \cup Memory
  /\ <<agentUp', feed', bars'>> # <<agentUp, feed, bars>>
  /\ UNCHANGED <<stateVars, killed, account, candle, pc, sawVars, mine, lock, orderVars,
                 brokerVars, lost>>
  /\ KeepStops

\* The EA executes an order and answers (an order that is only PLACED counts
\* from then on), or it executes although the answer says FAILED or is lost.
Fill(i) ==
  /\ i \in sent
  /\ sent' = sent \ {i}
  /\ open' = open \cup {i}
  /\ results' \in {results, results \cup {i}}
  /\ UNCHANGED <<stateVars, envVars, pc, sawVars, mine, lock, nextOrder, orderCandle, stored,
                 rows, lost>>
  /\ KeepStops

\* The EA or the broker refuses the order, or it never arrives: its FAILED
\* answer makes no row.
Refuse(i) ==
  /\ i \in sent
  /\ sent' = sent \ {i}
  /\ UNCHANGED <<stateVars, envVars, pc, sawVars, mine, lock, nextOrder, orderCandle, stored,
                 brokerVars, lost>>
  /\ KeepStops

\* The handler books the result, or rejects it: it knows no such command.
Book(i) ==
  /\ i \in results
  /\ results' = results \ {i}
  /\ rows' = IF i \in stored THEN rows \cup {i} ELSE rows
  /\ UNCHANGED <<stateVars, envVars, pc, sawVars, mine, lock, orderVars, open, lost>>
  /\ KeepStops

\* The user closes a position through its row; the way of the CLOSE command and
\* of its result is the subject of AgentCommands, here it is one step.
CloseByCommand(i) ==
  /\ i \in rows \cap open
  /\ rows' = rows \ {i}
  /\ open' = open \ {i}
  /\ UNCHANGED <<stateVars, envVars, pc, sawVars, mine, lock, orderVars, results, lost>>
  /\ KeepStops

\* The broker executes a stop-loss or a take-profit; the EA reports nothing.
BrokerClose(i) ==
  /\ i \in open
  /\ open' = open \ {i}
  /\ UNCHANGED <<stateVars, envVars, pc, sawVars, mine, lock, orderVars, results, rows, lost>>
  /\ KeepStops

Evaluate(e) ==
  \/ ReadState(e) \/ ReadAccount(e) \/ SelfDisable(e) \/ ReadAgent(e)
  \/ ReadPosition(e) \/ Seed(e) \/ Record(e) \/ ReadKillSwitch(e) \/ PassLimits(e)
  \/ Flush(e) \/ Dispatch(e) \/ Commit(e)

Next ==
  \/ \E e \in Evaluators : Start(e)
  \/ \E e \in Evaluators : Evaluate(e)
  \/ \E e \in Evaluators : LoseCommit(e)
  \/ \E dry \in BOOLEAN : enable_strategy(dry)
  \/ disable_strategy
  \/ \E active \in BOOLEAN : set_kill_switch(active)
  \/ \E state \in Accounts : ChangeAccount(state)
  \/ NextCandle \/ Environment
  \/ \E i \in Orders : Fill(i)
  \/ \E i \in Orders : Refuse(i)
  \/ \E i \in Orders : Book(i)
  \/ \E i \in Orders : CloseByCommand(i)
  \/ \E i \in Orders : BrokerClose(i)

Spec == Init /\ [][Next]_vars

\* The worker's loop comes round, an evaluation goes on whenever it can (its
\* awaits return), the EA executes what it got and its answers are read.
Fairness ==
  /\ WF_vars(Start(Worker))
  /\ \A e \in Evaluators : WF_vars(Evaluate(e))
  /\ \A i \in Orders : WF_vars(Fill(i) \/ Refuse(i)) /\ WF_vars(Book(i))

FairSpec == Spec /\ Fairness

-----------------------------------------------------------------------------
(* Properties. *)

\* A live order leaves an evaluation only if each reason against it (engine
\* disabled, dry run, kill switch, account not allowed to trade) was absent at
\* some moment since the evaluation began: none that held throughout is missed
\* (gates 1, 2, 3, 10 and 11 of evaluate_strategy_for_account).
StopsRespected ==
  [][\A e \in Evaluators : mine[e] = NoOrder /\ mine'[e] # NoOrder => stops[e] = {}]_vars

\* "same M15 candle start timestamp never produces two signals"
\* (strategy_service.py 13): no two orders for one candle.
OneOrderPerCandle ==
  \A i, j \in 1 .. nextOrder : orderCandle[i] = orderCandle[j] => i = j

\* A closed candle is evaluated and recorded unless the operator, an open
\* position, ticks or bars that are not there or not usable, or another candle
\* intervenes: an evaluation that ends in an early return is retried by the
\* worker's next tick.
CandleProcessed ==
  \A c \in Candles \ {0} :
    (candle = c /\ lastCandle < c)
      ~> (lastCandle >= c \/ candle # c \/ ~enabled \/ feed # "good" \/ bars = "few"
          \/ rows # {} \/ account # "authorised")

\* A live engine on an account that may not trade does not stay live: whatever
\* the operator changes and however old the row an evaluation has read, the
\* worker turns it off (gate 3 and _tick's commit of a BLOCKED evaluation).
UnauthorisedEnds ==
  (enabled /\ ~dryRun /\ account = "unauthorised")
    ~> (~enabled \/ dryRun \/ account # "unauthorised")

=============================================================================
