--------------------------- MODULE TradingPipeline ---------------------------
(***************************************************************************)
(* The simulated trading of one account: pipelines (one per symbol, each   *)
(* with a simulator and a circuit breaker of its own in memory) that share *)
(* the account's rows.  A cycle of process_tick is split where it commits, *)
(* so that cycles of two pipelines, the operator and failures interleave   *)
(* there:                                                                  *)
(*                                                                         *)
(*   idle -Propose-> proposed -Evaluate-> decided -Dispatch-> dispatched   *)
(*        -Book-> booked -Reconcile-> idle                                 *)
(*                                                                         *)
(* A failed commit raises out of process_tick: what the transaction wrote  *)
(* is gone, what the simulator did stays.                                  *)
(***************************************************************************)
EXTENDS RiskEngine

N == INSTANCE News

CONSTANTS Pipelines,    \* the pipelines of the account
          MaxSignals,   \* bound on the number of signals
          Candidates,   \* what the Brain may propose: side, entry and stop
          Markets,      \* age and spread of a tick when it is evaluated, and the news
          Configs,      \* limits the operator may store
          Limit,        \* bound on the open positions they allow
          Equities,     \* equities that may be recorded
          Days,         \* states of the daily session that may be recorded
          Feeds,        \* contents the calendar feed may have
          Moments,      \* times at which the calendar is looked at
          MaxRecords,   \* bound on configurations, equities and days recorded
          MaxFaults     \* bound on failed commits and restarts

ASSUME BoundsAssumption ==
    /\ MaxSignals \in Nat /\ MaxRecords \in Nat /\ MaxFaults \in Nat
ASSUME PipelinesAssumption == IsFiniteSet(Pipelines) /\ Pipelines # {}
ASSUME LimitAssumption == Limit \in Nat

(* Configurations within the bound.                                        *)
Limited == {c \in RiskConfigs : c.positions # None => c.positions <= Limit}

ASSUME ConfigsAssumption == Configs \subseteq Limited

(* What the inputs are made of: the spread of a valid tick is not negative, *)
(* a date of the feed is a time or could not be parsed.                    *)
ASSUME InputsAssumption ==
    /\ Candidates \subseteq [side : {"BUY", "SELL"}, entry : Int \cup {None}, stop : Int \cup {None}]
    /\ \A m \in Markets : m.age \in Nat /\ m.spread \in Nat
    /\ Equities \subseteq Int
    /\ \A feed \in Feeds : \A k \in DOMAIN feed : feed[k].date \in Int \cup {None}
    /\ Moments \subseteq Int

ASSUME RecordAssumption ==
    /\ None \notin [status : {"READY"}, age : Int, spread : Int]
    /\ None \notin [bid : Int, ask : Int, spread : Int, age : Int]

Signals == 1..MaxSignals

VARIABLES
    configs,    \* rows of risk_configurations, by version
    equities,   \* equities of all rows of equity_snapshots
    equity,     \* the newest of them
    day,        \* today's row of daily_session_states, or None
    news,       \* rows of news_events
    signal,     \* committed rows of candidate_signals: None or the status
    decided,    \* committed rows of risk_decisions, by signal, with the pct they used;
                \* NoDecision for none
    command,    \* committed rows of execution_commands: None or the status
    positions,  \* committed rows of positions
    next,       \* number of signals created so far
    stage,      \* where the cycle of a pipeline is
    current,    \* the signal of that cycle: number, candidate, ticket of its fill (0 for
                \* none) and the state of the command object; NoCycle for none
    frozen,     \* _frozen_accounts holds the account
    broker,     \* positions of the pipeline's simulator
    tickets,    \* its _ticket_counter
    life,       \* how often the pipeline has been started
    records,    \* configurations, equities and days recorded so far
    faults,     \* failures so far
    fills,      \* history: fills of a signal by any simulator
    late,       \* history: fills of a pipeline since the kill switch was set
    checked     \* history: nothing happened to a pipeline since it reconciled

account == <<configs, equities, equity, day, news, records>>
rows    == <<signal, decided, command, positions>>
memory  == <<broker, tickets, life>>
vars    == <<account, rows, next, stage, current, frozen, memory, faults, fills, late, checked>>

NoDecision == [decision |-> "NONE", lots |-> None, equity |-> 0, pct |-> None]
NoCycle    == [id |-> 0, candidate |-> None, ticket |-> 0, state |-> "NONE"]

Stages == {"idle", "proposed", "decided", "dispatched", "booked"}

-----------------------------------------------------------------------------
(* What a cycle reads.                                                     *)

OpenLots == [p \in positions |-> p.lots]

Config == get_latest_risk_config(configs)

Snapshot == build_account_risk_snapshot(equities, equity, day, OpenLots)

(* The statement of one transaction that reached the database.             *)
Committed(f, s, value) == [f EXCEPT ![s] = value]

-----------------------------------------------------------------------------
(* Reconciliation: the caller passes symbol, side and lots of the open     *)
(* rows, keyed by their tickets.                                           *)

server_pos_map ==
    [t \in {p.ticket : p \in positions} |->
        LET row == CHOOSE p \in positions : p.ticket = t IN [side |-> row.side, lots |-> row.lots]]

(* Mutant: positions without a row are left out.                           *)
reconcile_Known(server, reported) ==
    {[ticket |-> b.ticket, type |-> "VOLUME_MISMATCH"] :
        b \in {x \in reported : x.ticket \in DOMAIN server /\ server[x.ticket].lots # x.lots}}

reconcile(server, reported) ==
    {[ticket |-> b.ticket, type |-> "ORPHAN"] : b \in {x \in reported : x.ticket \notin DOMAIN server}}
    \cup {[ticket |-> b.ticket,
           type |-> IF server[b.ticket].lots # b.lots THEN "VOLUME_MISMATCH" ELSE "SIDE_MISMATCH"] :
          b \in {x \in reported : /\ x.ticket \in DOMAIN server
                                  /\ \/ server[x.ticket].lots # x.lots
                                     \/ server[x.ticket].side # x.side}}
    \cup {[ticket |-> t, type |-> "PHANTOM"] :
          t \in {u \in DOMAIN server : /\ u \notin {b.ticket : b \in reported}
                                       /\ "status" \in DOMAIN server[u]}}

has_critical_discrepancy(found) ==
    \E d \in found : d.type \in {"ORPHAN", "VOLUME_MISMATCH", "SIDE_MISMATCH"}

-----------------------------------------------------------------------------
Init ==
    /\ \/ configs = <<>> /\ equity = 0 /\ equities = {}   \* an account nobody has set up
       \/ /\ configs \in {<<c>> : c \in Configs}
          /\ equity \in Equities /\ equities = {equity}
    /\ day = None /\ news = {} /\ records = 0
    /\ signal = [s \in Signals |-> None]
    /\ decided = [s \in Signals |-> NoDecision]
    /\ command = [s \in Signals |-> None]
    /\ positions = {}
    /\ next = 0
    /\ stage = [i \in Pipelines |-> "idle"]
    /\ current = [i \in Pipelines |-> NoCycle]
    /\ frozen = [i \in Pipelines |-> FALSE]
    /\ broker = [i \in Pipelines |-> {}]
    /\ tickets = [i \in Pipelines |-> 0]
    /\ life = [i \in Pipelines |-> 0]
    /\ faults = 0
    /\ fills = [s \in Signals |-> 0]
    /\ late = [i \in Pipelines |-> 0]
    /\ checked = [i \in Pipelines |-> FALSE]

Goto(i, where) == stage' = [stage EXCEPT ![i] = where]

(* Mutant: the finished cycle keeps its signal.                            *)
Return_Keeps(i) == Goto(i, "idle") /\ UNCHANGED current

(* The cycle of i returns, or an exception leaves it.                      *)
Return(i) == Goto(i, "idle") /\ current' = [current EXCEPT ![i] = NoCycle]

(* A tick that is valid, fresh and not too wide, with bars to look at, for *)
(* an account that is not frozen, and a Brain that proposes: the signal is *)
(* flushed, not committed.  Every other tick ends the cycle here.          *)
Propose(i) ==
    /\ stage[i] = "idle" /\ ~frozen[i] /\ next < MaxSignals
    /\ next' = next + 1
    /\ \E c \in Candidates : current' = [current EXCEPT ![i] = [id |-> next + 1, candidate |-> c, ticket |-> 0, state |-> "CREATED"]]
    /\ Goto(i, "proposed")
    /\ UNCHANGED <<account, rows, frozen, memory, faults, fills, late, checked>>

(* Gate 6: more than signal_expiry_seconds went by since the flush.        *)
Expire(i) ==
    /\ stage[i] = "proposed"
    /\ signal' = Committed(signal, current[i].id, "EXPIRED")
    /\ Return(i)
    /\ UNCHANGED <<account, decided, command, positions, next, frozen, memory, faults, fills, late, checked>>

(* Stage 7 has looked at the tick already: its status is READY.            *)
MarketCondition(m) == [status |-> "READY", age |-> m.age, spread |-> m.spread]

(* Stage 7: the decision and the signal are committed together.            *)
Evaluate(i) ==
    /\ stage[i] = "proposed"
    /\ \E m \in Markets :
          LET s    == current[i].id
              snap == Snapshot
              d    == evaluate(Config, snap, current[i].candidate,
                               MarketCondition(m), m.news)
          IN  /\ decided' = Committed(decided, s,
                    [decision |-> d.decision, lots |-> d.lots, equity |-> snap.equity, pct |-> Config.pct])
              /\ signal' = Committed(signal, s, "PROPOSED")
    /\ Goto(i, "decided")
    /\ UNCHANGED <<account, command, positions, next, current, frozen, memory, faults, fills, late, checked>>

(* Gate 8.                                                                 *)
Block(i) ==
    /\ stage[i] = "decided"
    /\ decided[current[i].id].decision # "APPROVED"
    /\ signal' = Committed(signal, current[i].id, "BLOCKED")
    /\ Return(i)
    /\ UNCHANGED <<account, decided, command, positions, next, frozen, memory, faults, fills, late, checked>>

-----------------------------------------------------------------------------
(* Stage 9: execute_approved_signal.                                       *)

Authorized(s) ==
    /\ decided[s].decision = "APPROVED"
    /\ decided[s].lots # None
    /\ command[s] = None

Refuse(i) ==
    /\ stage[i] = "decided"
    /\ decided[current[i].id].decision = "APPROVED"
    /\ ~Authorized(current[i].id)
    /\ signal' = Committed(signal, current[i].id, "EXECUTION_REJECTED")
    /\ Return(i)
    /\ UNCHANGED <<account, decided, command, positions, next, frozen, memory, faults, fills, late, checked>>

next_ticket(i) == tickets[i] + 1

(* Mutant: a command that was sent cannot expire.                          *)
VALID_TRANSITIONS_Sent ==
    [CREATED |-> {"SENT", "EXPIRED", "REJECTED"}, SENT |-> {"ACKNOWLEDGED", "REJECTED"},
     ACKNOWLEDGED |-> {"EXECUTING", "EXPIRED", "REJECTED"},
     EXECUTING |-> {"FILLED", "PARTIALLY_FILLED", "REJECTED", "EXPIRED"},
     FILLED |-> {"RECONCILED"}, PARTIALLY_FILLED |-> {"FILLED", "RECONCILED"},
     REJECTED |-> {}, EXPIRED |-> {}, RECONCILED |-> {}]

(* The state machine of a command object.                                  *)
VALID_TRANSITIONS ==
    [CREATED |-> {"SENT", "EXPIRED", "REJECTED"}, SENT |-> {"ACKNOWLEDGED", "EXPIRED", "REJECTED"},
     ACKNOWLEDGED |-> {"EXECUTING", "EXPIRED", "REJECTED"},
     EXECUTING |-> {"FILLED", "PARTIALLY_FILLED", "REJECTED", "EXPIRED"},
     FILLED |-> {"RECONCILED"}, PARTIALLY_FILLED |-> {"FILLED", "RECONCILED"},
     REJECTED |-> {}, EXPIRED |-> {}, RECONCILED |-> {}]

(* A transition that is not valid leaves the state, and nobody looks at    *)
(* what transition_to returns.                                             *)
transition_to(state, new) == IF new \in VALID_TRANSITIONS[state] THEN new ELSE state

AfterSend(state)   == transition_to(state, "SENT")
AfterFill(state)   == transition_to(transition_to(transition_to(state, "ACKNOWLEDGED"), "EXECUTING"), "FILLED")
AfterExpiry(state) == transition_to(state, "EXPIRED")

(* The simulator fills the order, unless the command's five seconds have   *)
(* passed.  The command, the report and the position are not committed.    *)
Fill(i) ==
    LET s == current[i].id
    IN  /\ tickets' = [tickets EXCEPT ![i] = next_ticket(i)]
        /\ broker' = [broker EXCEPT ![i] = @ \cup
                        {[ticket |-> next_ticket(i), signal |-> s,
                          side |-> current[i].candidate.side, lots |-> decided[s].lots,
                          open |-> current[i].candidate.entry, stop |-> current[i].candidate.stop,
                          by |-> <<i, life[i]>>]}]
        /\ current' = [current EXCEPT ![i].ticket = next_ticket(i),
                                            ![i].state = AfterFill(AfterSend(@))]
        /\ fills' = [fills EXCEPT ![s] = @ + 1]
        /\ late' = [late EXCEPT ![i] = IF Config.emergency THEN @ + 1 ELSE @]
        /\ checked' = [checked EXCEPT ![i] = FALSE]

TooLate(i) ==
    /\ current' = [current EXCEPT ![i].state = AfterExpiry(AfterSend(@))]
    /\ UNCHANGED <<tickets, broker, fills, late, checked>>

Dispatch(i) ==
    /\ stage[i] = "decided"
    /\ Authorized(current[i].id)
    /\ Fill(i) \/ TooLate(i)
    /\ Goto(i, "dispatched")
    /\ UNCHANGED <<account, rows, next, frozen, life, faults>>

TicketTaken(i) == \E p \in positions : p.ticket = current[i].ticket

Book(i) ==
    /\ stage[i] = "dispatched"
    /\ ~TicketTaken(i)
    /\ LET s == current[i].id
           filled == current[i].ticket # 0
       IN  /\ command' = Committed(command, s, IF filled THEN "FILLED" ELSE "EXPIRED")
           /\ positions' = positions \cup
                 {b \in broker[i] : filled /\ b.signal = s}
    /\ Goto(i, "booked")
    /\ UNCHANGED <<account, signal, decided, next, current, frozen, memory, faults, fills, late, checked>>

(* uq_positions_account_ticket: the commit fails, the fill stays.          *)
BookFails(i) ==
    /\ stage[i] = "dispatched"
    /\ TicketTaken(i)
    /\ Return(i)
    /\ UNCHANGED <<account, rows, next, frozen, memory, faults, fills, late, checked>>

(* Stage 10.                                                               *)
Reconcile(i) ==
    /\ stage[i] = "booked"
    /\ signal' = Committed(signal, current[i].id, "EXECUTED")
    /\ frozen' = [frozen EXCEPT ![i] =
                    @ \/ has_critical_discrepancy(reconcile(server_pos_map, broker[i]))]
    /\ checked' = [checked EXCEPT ![i] = TRUE]
    /\ Return(i)
    /\ UNCHANGED <<account, decided, command, positions, next, memory, faults, fills, late>>

-----------------------------------------------------------------------------
(* What can happen to a pipeline.                                          *)

Fault == faults < MaxFaults /\ faults' = faults + 1

(* Mutant: after the failed commit the order is dispatched once more.      *)
CommitFails_Retry(i) ==
    /\ stage[i] = "dispatched"
    /\ Fault
    /\ Goto(i, "decided")
    /\ UNCHANGED <<account, rows, next, current, frozen, memory, fills, late, checked>>

(* The commit the cycle is before fails.                                   *)
CommitFails(i) ==
    /\ stage[i] # "idle"
    /\ Fault
    /\ Return(i)
    /\ UNCHANGED <<account, rows, next, frozen, memory, fills, late, checked>>

(* A new process: pipeline and simulator are constructed again.            *)
Restart(i) ==
    /\ Fault
    /\ Return(i)
    /\ frozen' = [frozen EXCEPT ![i] = FALSE]
    /\ broker' = [broker EXCEPT ![i] = {}]
    /\ tickets' = [tickets EXCEPT ![i] = 0]
    /\ life' = [life EXCEPT ![i] = @ + 1]
    /\ checked' = [checked EXCEPT ![i] = FALSE]
    /\ UNCHANGED <<account, rows, next, fills, late>>

unfreeze_account(i) ==
    /\ frozen[i]
    /\ frozen' = [frozen EXCEPT ![i] = FALSE]
    /\ checked' = [checked EXCEPT ![i] = FALSE]
    /\ UNCHANGED <<account, rows, next, stage, current, memory, faults, fills, late>>

-----------------------------------------------------------------------------
(* What can happen to the account.                                         *)

(* `late' counts from the moment the switch is set until it is not.        *)
Late(armed) == late' = IF armed THEN late ELSE [i \in Pipelines |-> 0]

set_kill_switch(active) ==
    /\ configs' = IF configs = <<>> THEN <<[Defaults EXCEPT !.emergency = active]>>
                  ELSE [configs EXCEPT ![Len(configs)].emergency = active]
    /\ Late(active)
    /\ UNCHANGED <<equities, equity, day, news, records, rows, next, stage, current, frozen, memory, faults, fills, checked>>

Record == records < MaxRecords /\ records' = records + 1

StoreConfig(c) ==
    /\ Record
    /\ configs' = Append(configs, c)
    /\ Late(c.emergency)
    /\ UNCHANGED <<equities, equity, day, news, rows, next, stage, current, frozen, memory, faults, fills, checked>>

RecordEquity(e) ==
    /\ Record
    /\ equities' = equities \cup {e}
    /\ equity' = e
    /\ UNCHANGED <<configs, day, news, rows, next, stage, current, frozen, memory, faults, fills, late, checked>>

RecordDay(d) ==
    /\ Record
    /\ day' = d
    /\ UNCHANGED <<configs, equities, equity, news, rows, next, stage, current, frozen, memory, faults, fills, late, checked>>

trigger_news_sync(feed) ==
    /\ Record
    /\ news' = N!fetch_and_sync_news(news, feed)
    /\ UNCHANGED <<configs, equities, equity, day, rows, next, stage, current, frozen, memory, faults, fills, late, checked>>

-----------------------------------------------------------------------------
process_tick(i) ==
    \/ Propose(i) \/ Expire(i) \/ Evaluate(i) \/ Block(i) \/ Refuse(i)
    \/ Dispatch(i) \/ Book(i) \/ BookFails(i) \/ Reconcile(i)

Failure(i) == CommitFails(i) \/ Restart(i) \/ unfreeze_account(i)

Operator ==
    \/ \E active \in BOOLEAN : set_kill_switch(active)
    \/ \E c \in Configs : StoreConfig(c)
    \/ \E e \in Equities : RecordEquity(e)
    \/ \E d \in Days : RecordDay(d)
    \/ \E feed \in Feeds : trigger_news_sync(feed)

Next == (\E i \in Pipelines : process_tick(i) \/ Failure(i)) \/ Operator

Spec == Init /\ [][Next]_vars

-----------------------------------------------------------------------------
(* Properties.                                                             *)

(* The state has the types the code gives it: statuses of rows, tickets    *)
(* from the simulator's counter, one current signal per running cycle.     *)
TypeOK ==
    /\ signal \in [Signals -> {None, "PROPOSED", "EXPIRED", "BLOCKED", "EXECUTION_REJECTED", "EXECUTED"}]
    /\ command \in [Signals -> {None, "FILLED", "EXPIRED"}]
    /\ next \in 0..MaxSignals
    /\ stage \in [Pipelines -> Stages]
    /\ frozen \in [Pipelines -> BOOLEAN]
    /\ current \in [Pipelines -> [id : 0..MaxSignals, candidate : Candidates \cup {None}, ticket : Nat,
                                 state : DOMAIN VALID_TRANSITIONS \cup {"NONE"}]]
    /\ tickets \in [Pipelines -> Nat]
    /\ fills \in [Signals -> Nat]
    /\ late \in [Pipelines -> Nat]
    /\ configs \in Seq(Limited)
    /\ \A i \in Pipelines : (stage[i] = "idle") <=> (current[i].id = 0)

(* Every pipeline may hold one approval whose position is not counted yet: *)
(* the rows exceed max_open_positions by less than the pipelines there     *)
(* are, and a single pipeline never exceeds it.                            *)
PositionLimit == Cardinality(positions) <= Limit + Cardinality(Pipelines) - 1

(* From the moment the kill switch is committed, a pipeline fills at most  *)
(* the one order it had been given an approval for before.                 *)
KillSwitchBound == \A i \in Pipelines : late[i] <= 1

(* A filled order risks no more than risk_per_trade_pct of the equity that *)
(* was recorded with its decision, however the limits changed since.       *)
RiskPerTrade ==
    \A i \in Pipelines : \A b \in broker[i] :
        LET d == decided[b.signal]
        IN  /\ d.decision = "APPROVED" /\ b.lots = d.lots
            /\ d.pct # None =>
                  100 * b.lots * (IF b.open < b.stop THEN b.stop - b.open ELSE b.open - b.stop)
                    <= d.pct * d.equity

(* A pipeline that has reconciled and is not frozen knows of every         *)
(* position of its simulator a row with the same ticket, side and size:    *)
(* the position's own, or one of another simulator that gave that ticket.  *)
SoundReconciliation ==
    \A i \in Pipelines : checked[i] /\ ~frozen[i] =>
        \A b \in broker[i] : \E p \in positions :
            /\ p.ticket = b.ticket /\ p.lots = b.lots /\ p.side = b.side
            /\ p.signal = b.signal \/ p.by # b.by

(* The gate in front of the agent and the engine agree on what they share: *)
(* what the gate lets pass the engine refuses only for limits the gate     *)
(* does not know, or because it takes an age limit of 0 at its word, and   *)
(* what the engine approves passes the gate, unless the account has no     *)
(* equity or the tick no spread.                                           *)
GateAgrees ==
    LET config == Config
        snap   == Snapshot
    IN  \A m \in Markets :
           LET gate == evaluate_risk_gate(config, snap, "XAUUSD", TRUE,
                           [bid |-> 100, ask |-> 100 + m.spread, spread |-> m.spread, age |-> m.age], TRUE, FALSE)
           IN  \A c \in Candidates :
                  LET reason == Reason(config, snap, c, MarketCondition(m), "CLEAR")
                  IN  /\ gate = "RISK_OK" =>
                            \/ reason \in {"MISSING_PARAMETERS", "PROFIT_LOCK_FLOOR_BREACHED",
                                           "MAX_POSITIONS_REACHED", "MAX_LOTS_EXCEEDED", "ALL_CHECKS_PASSED"}
                            \/ reason = "STALE_MARKET_DATA" /\ config.staleness = 0
                      /\ reason = "ALL_CHECKS_PASSED" => gate = "RISK_OK" \/ snap.equity <= 0 \/ m.spread = 0

(* The status that is committed is the state the command object reached    *)
(* through its own state machine, although the code sets the two apart.    *)
StatusReached ==
    \A i \in Pipelines : stage[i] = "booked" => command[current[i].id] = current[i].state

(* Whenever it is looked at, the gate, the dashboard and the simulation's  *)
(* provider agree whether a stored event blocks trading.                   *)
NewsAgrees ==
    \A now \in Moments :
        /\ (N!get_news_protection_state(news, now) = "BLACKOUT") <=> N!Blackout(news, now)
        /\ (N!get_news_state(news, now) = {"CLEAR"}) <=> ~N!Blackout(news, now)

(* The pipeline implements the ledger: no order without a decision on      *)
(* record, one order per signal, one position per order.                   *)
L == INSTANCE Ledger WITH
        approved <- {s \in Signals : decided[s].decision = "APPROVED"},
        orders   <- fills,
        booked   <- {p.signal : p \in positions}

(* See L: the detailed specification implements the abstract one.          *)
LedgerSpec == L!Spec
=============================================================================
