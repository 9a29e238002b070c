---------------------------- MODULE AgentCommands ----------------------------
(***************************************************************************)
(* The command channel between the AUREXIS server and one MT5 agent:       *)
(* the mt5_agent_commands table, the two ways a row is created, the        *)
(* delivery task that claims PENDING rows and hands them to the agent's    *)
(* WebSocket, the agent (EA) that executes them at the broker, and the     *)
(* WebSocket handler that books acknowledgements and results.              *)
(*                                                                         *)
(* The server is one asyncio process: a coroutine runs alone from one      *)
(* await to the next.  Every database session reads committed rows and     *)
(* publishes its own writes at commit (PostgreSQL READ COMMITTED, rows     *)
(* updated by primary key without a version check), so a handler is split  *)
(* into the step that reads and the step that commits.                     *)
(*                                                                         *)
(* Data abstracted: payloads, audit rows, timestamps (kept as a creation   *)
(* rank), prices and volumes.  AgentSession models the connection's        *)
(* handshake in detail; here it is one step.                               *)
(***************************************************************************)
EXTENDS Integers, Sequences, FiniteSets

CONSTANTS
    Queued,      \* commands created by POST /agents/{id}/commands
    Demo,        \* commands created by POST /accounts/{id}/execution/test
    Strategy,    \* commands created by evaluate_strategy_for_account
    Kind,        \* the command_type of each command
    Conns,       \* identities of the agent's successive WebSocket connections
    NoConn,      \* "no connection"
    ClaimLimit,  \* claim_pending_commands' limit
    MaxDrops,    \* bound: connections the network may cut
    MaxCrashes   \* bound: restarts of the server process

Cmds   == Queued \cup Demo \cup Strategy
Direct == Demo \cup Strategy

\* A delivery task is named after the coroutine that runs it: the one that a
\* create request spawns, or the one inlined in a connection's handler.
Tasks == Queued \cup Conns

ASSUME SourcesDisjoint ==
    /\ Queued \cap Direct = {}
    /\ Demo \cap Strategy = {}
    /\ Queued \cap Conns = {}
ASSUME KindAssumption  == Kind \in [Cmds -> {"OPEN", "CLOSE", "INFO"}]
ASSUME ConnAssumption  == NoConn \notin Conns
ASSUME BoundAssumption ==
    /\ ClaimLimit \in Nat \ {0}
    /\ MaxDrops \in Nat
    /\ MaxCrashes \in Nat

VARIABLES
    status,     \* committed status column of each row, "NONE" before its insert
    created,    \* created_at of each row, as a rank (0: no row)
    target,     \* position_ticket of each CLOSE payload (0: none given)
    outcome,    \* position_ticket in each row's result_json (0: none)
    clock,      \* the next creation rank
    creator,    \* progress of each create request of the queued route
    direct,     \* progress of each request that sends before it commits
    task,       \* delivery tasks: program counter and the commands in hand
    handler,    \* WebSocket handlers: program counter and message in hand
    active,     \* AgentConnectionManager._active_connections[agent]
    ea,         \* the connection the EA's socket is on
    toAgent,    \* per connection: command messages on the wire to the EA
    toServer,   \* per connection: ack and result messages on the wire
    runs,       \* how often the EA has run HandleCommand for each command
    tickets,    \* orders the EA has placed so far (1 .. tickets)
    placed,    \* orders the broker has taken and not executed
    brokerOpen, \* tickets of the positions open at the broker
    taken,      \* tickets of the positions whose close the broker has taken
    dbOpen,     \* broker_ticket of the OPEN rows of the positions table
    dbClosed,   \* broker_ticket of its CLOSED rows
    drops,      \* connections cut so far
    crashes     \* server restarts so far

dataVars   == <<created, clock, target, outcome>>
rowVars    == <<status, dataVars>>
reqVars    == <<creator, direct>>
wireVars   == <<toAgent, toServer>>
brokerVars == <<runs, tickets, placed, brokerOpen, taken>>
posVars    == <<dbOpen, dbClosed>>
faultVars  == <<drops, crashes>>

vars == <<status, created, clock, target, outcome, creator, direct, task,
          handler, active, ea, toAgent, toServer, runs, tickets, placed,
          brokerOpen, taken, dbOpen, dbClosed, drops, crashes>>

-----------------------------------------------------------------------------
Statuses == {"PENDING", "SENT", "ACKNOWLEDGED", "COMPLETED", "FAILED", "EXPIRED"}

\* VALID_TRANSITIONS of the command service.
VALID_TRANSITIONS ==
    [s \in Statuses |->
        CASE s = "PENDING"      -> {"SENT", "FAILED", "EXPIRED"}
          [] s = "SENT"         -> {"ACKNOWLEDGED", "COMPLETED", "FAILED", "EXPIRED"}
          [] s = "ACKNOWLEDGED" -> {"COMPLETED", "FAILED"}
          [] OTHER              -> {}]

\* get_command found a row and its status may move to the one asked for.
MayBecome(c, s) == status[c] # "NONE" /\ s \in VALID_TRANSITIONS[status[c]]

Terminal == {"COMPLETED", "FAILED"}

Idle     == [pc |-> "off", batch |-> {}]
Deliver  == [pc |-> "select", batch |-> {}]
TaskType == [pc : {"off", "select", "claim", "send", "revertRead", "revertWrite"},
             batch : SUBSET Cmds]

Ack(c)           == [type |-> "ack", cmd |-> c, ok |-> TRUE, ticket |-> 0]
Result(c, ok, t) == [type |-> "result", cmd |-> c, ok |-> ok, ticket |-> t]
Messages == [type : {"ack", "result"}, cmd : Cmds, ok : BOOLEAN, ticket : Int]
NoMsg == [type |-> "none"]

\* A WebSocket handler: its program counter, the message it is booking, and
\* whether the manager has closed its socket in favour of a newer one.
Handler(pc, m, r) == [pc |-> pc, msg |-> m, replaced |-> r]
HandlerType == [pc : {"none", "serve", "book", "closed"},
                msg : Messages \cup {NoMsg}, replaced : BOOLEAN]

\* The position a CLOSE request may name; other payloads name none.  A deal's
\* number finds no position, as that of a closed one does not.
Targets(c) == IF Kind[c] = "CLOSE" THEN 0 .. tickets ELSE {0}

Init ==
    /\ status = [c \in Cmds |-> "NONE"]
    /\ created = [c \in Cmds |-> 0]
    /\ clock = 1
    /\ target = [c \in Cmds |-> 0]
    /\ outcome = [c \in Cmds |-> 0]
    /\ creator = [c \in Queued |-> "idle"]
    /\ direct = [c \in Direct |-> "idle"]
    /\ task = [t \in Tasks |-> Idle]
    /\ handler = [k \in Conns |-> Handler("none", NoMsg, FALSE)]
    /\ active = NoConn
    /\ ea = NoConn
    /\ toAgent = [k \in Conns |-> <<>>]
    /\ toServer = [k \in Conns |-> <<>>]
    /\ runs = [c \in Cmds |-> 0]
    /\ tickets = 0
    /\ placed = {}
    /\ brokerOpen = {}
    /\ taken = {}
    /\ dbOpen = {}
    /\ dbClosed = {}
    /\ drops = 0
    /\ crashes = 0

-----------------------------------------------------------------------------
(* The queued route: the row is committed first, then a delivery task is    *)
(* spawned if the agent is connected and has nothing in flight.             *)

\* create_command: insert with status PENDING, commit.
CreateCommit(c) ==
    /\ creator[c] = "idle"
    /\ creator' = [creator EXCEPT ![c] = "checkConnected"]
    /\ status' = [status EXCEPT ![c] = "PENDING"]
    /\ created' = [created EXCEPT ![c] = clock]
    /\ clock' = clock + 1
    /\ \E t \in Targets(c) : target' = [target EXCEPT ![c] = t]
    /\ UNCHANGED <<outcome, direct, task, handler, active, ea, wireVars,
                   brokerVars, posVars, faultVars>>

\* agent_manager.is_connected, evaluated when the commit has returned.
CreateCheckConnected(c) ==
    /\ creator[c] = "checkConnected"
    /\ creator' = [creator EXCEPT ![c] =
                      IF active # NoConn THEN "checkInFlight" ELSE "done"]
    /\ UNCHANGED <<rowVars, direct, task, handler, active, ea, wireVars,
                   brokerVars, posVars, faultVars>>

has_in_flight_command == \E c \in Cmds : status[c] \in {"SENT", "ACKNOWLEDGED"}

\* The in-flight query, then asyncio.create_task(_deliver_pending_commands).
CreateSpawn(c) ==
    /\ creator[c] = "checkInFlight"
    /\ creator' = [creator EXCEPT ![c] = "done"]
    /\ task' = IF has_in_flight_command
               THEN task
               ELSE [task EXCEPT ![c] = Deliver]
    /\ UNCHANGED <<rowVars, direct, handler, active, ea, wireVars, brokerVars,
                   posVars, faultVars>>

-----------------------------------------------------------------------------
(* agent_manager.send_json on the registered connection.  When the peer is  *)
(* gone the server may or may not have noticed: the write then either       *)
(* raises, which unregisters the connection, or is accepted and lost.       *)

send_json(c, delivered) ==
    IF active # NoConn /\ active = ea
    THEN /\ delivered = TRUE
         /\ toAgent' = [toAgent EXCEPT ![active] = Append(@, c)]
         /\ active' = active
    ELSE /\ active = NoConn => delivered = FALSE
         /\ toAgent' = toAgent
         /\ active' = IF delivered THEN active ELSE NoConn

\* The rows claim_pending_commands selects: PENDING, oldest first, limited.
claim_pending_commands ==
    LET pending == {c \in Cmds : status[c] = "PENDING"}
    IN {c \in pending :
          Cardinality({d \in pending : created[d] < created[c]}) < ClaimLimit}

\* _deliver_pending_commands: the SELECT of the claim.
TaskSelect(t) ==
    /\ task[t].pc = "select"
    /\ task' = [task EXCEPT ![t] =
                  IF claim_pending_commands = {}
                  THEN Idle
                  ELSE [pc |-> "claim", batch |-> claim_pending_commands]]
    /\ UNCHANGED <<rowVars, reqVars, handler, active, ea, wireVars, brokerVars,
                   posVars, faultVars>>

\* Its UPDATEs and commit: whatever the rows say by now, they become SENT.
TaskClaim(t) ==
    /\ task[t].pc = "claim"
    /\ status' = [c \in Cmds |-> IF c \in task[t].batch THEN "SENT" ELSE status[c]]
    /\ task' = [task EXCEPT ![t].pc = "send"]
    /\ UNCHANGED <<dataVars, reqVars, handler, active, ea, wireVars,
                   brokerVars, posVars, faultVars>>

\* The loop over the claimed commands: one send per command, oldest first;
\* a failed send leaves the loop through the revert.
TaskSend(t) ==
    /\ task[t].pc = "send"
    /\ \E c \in task[t].batch, delivered \in BOOLEAN :
        /\ \A d \in task[t].batch : created[c] <= created[d]
        /\ send_json(c, delivered)
        /\ task' = [task EXCEPT ![t] =
                      IF ~delivered THEN [pc |-> "revertRead", batch |-> {c}]
                      ELSE IF task[t].batch = {c} THEN Idle
                      ELSE [pc |-> "send", batch |-> task[t].batch \ {c}]]
    /\ UNCHANGED <<rowVars, reqVars, handler, ea, toServer, brokerVars,
                   posVars, faultVars>>

\* db.get of the command whose send failed; a row that is not SENT is left.
TaskRevertRead(t) ==
    /\ task[t].pc = "revertRead"
    /\ task' = [task EXCEPT ![t] =
                  IF \E c \in task[t].batch : status[c] = "SENT"
                  THEN [pc |-> "revertWrite", batch |-> task[t].batch]
                  ELSE Idle]
    /\ UNCHANGED <<rowVars, reqVars, handler, active, ea, wireVars, brokerVars,
                   posVars, faultVars>>

\* Mutants: a failed delivery is booked FAILED, or with the status another
\* table uses for a new command.
TaskRevertWrite_Fails(t) ==
    /\ task[t].pc = "revertWrite"
    /\ status' = [c \in Cmds |-> IF c \in task[t].batch THEN "FAILED" ELSE status[c]]
    /\ task' = [task EXCEPT ![t] = Idle]
    /\ UNCHANGED <<dataVars, reqVars, handler, active, ea, wireVars,
                   brokerVars, posVars, faultVars>>

TaskRevertWrite_Created(t) ==
    /\ task[t].pc = "revertWrite"
    /\ status' = [c \in Cmds |-> IF c \in task[t].batch THEN "CREATED" ELSE status[c]]
    /\ task' = [task EXCEPT ![t] = Idle]
    /\ UNCHANGED <<dataVars, reqVars, handler, active, ea, wireVars,
                   brokerVars, posVars, faultVars>>

\* Back to PENDING, commit, and break out of the loop.
TaskRevertWrite(t) ==
    /\ task[t].pc = "revertWrite"
    /\ status' = [c \in Cmds |-> IF c \in task[t].batch THEN "PENDING" ELSE status[c]]
    /\ task' = [task EXCEPT ![t] = Idle]
    /\ UNCHANGED <<dataVars, reqVars, handler, active, ea, wireVars,
                   brokerVars, posVars, faultVars>>

-----------------------------------------------------------------------------
(* The direct routes: execute_demo_trade and evaluate_strategy_for_account  *)
(* flush the row, send it, and commit only afterwards.                      *)

\* is_connected, risk gate (assumed to allow), create_command flushed.
DirectCreate(c) ==
    /\ direct[c] = "idle"
    /\ active # NoConn
    /\ direct' = [direct EXCEPT ![c] = "flushed"]
    /\ created' = [created EXCEPT ![c] = clock]
    /\ clock' = clock + 1
    /\ \E t \in Targets(c) :
        /\ c \in Demo /\ Kind[c] = "CLOSE" => t # 0
        /\ target' = [target EXCEPT ![c] = t]
    /\ UNCHANGED <<status, outcome, creator, task, handler, active, ea, wireVars,
                   brokerVars, posVars, faultVars>>

DirectSend(c) ==
    /\ direct[c] = "flushed"
    /\ \E delivered \in BOOLEAN :
        /\ send_json(c, delivered)
        /\ direct' = [direct EXCEPT ![c] = IF delivered THEN "sent" ELSE "unsent"]
    /\ UNCHANGED <<rowVars, creator, task, handler, ea, toServer, brokerVars,
                   posVars, faultVars>>

\* Mutants: every unsent command is booked FAILED; a sent command is
\* committed without mark_sent.
DirectCommit_FailsDemo(c) ==
    /\ direct[c] \in {"sent", "unsent"}
    /\ status' = [status EXCEPT ![c] = IF direct[c] = "sent" THEN "SENT" ELSE "FAILED"]
    /\ direct' = [direct EXCEPT ![c] = "done"]
    /\ UNCHANGED <<dataVars, creator, task, handler, active, ea, wireVars,
                   brokerVars, posVars, faultVars>>

DirectCommit_NotMarked(c) ==
    /\ direct[c] \in {"sent", "unsent"}
    /\ status' = [status EXCEPT ![c] = IF direct[c] = "sent" THEN "PENDING" ELSE "FAILED"]
    /\ direct' = [direct EXCEPT ![c] = "done"]
    /\ UNCHANGED <<dataVars, creator, task, handler, active, ea, wireVars,
                   brokerVars, posVars, faultVars>>

\* The commit that makes the row visible.  An unsent demo command stays
\* PENDING; an unsent strategy command is booked FAILED.
DirectCommit(c) ==
    /\ direct[c] \in {"sent", "unsent"}
    /\ status' = [status EXCEPT ![c] =
                    IF direct[c] = "sent" THEN "SENT"
                    ELSE IF c \in Demo THEN "PENDING" ELSE "FAILED"]
    /\ direct' = [direct EXCEPT ![c] = "done"]
    /\ UNCHANGED <<dataVars, creator, task, handler, active, ea, wireVars,
                   brokerVars, posVars, faultVars>>

-----------------------------------------------------------------------------
(* The EA.  HandleCommand runs to its end inside one timer callback: it     *)
(* sends the ack, executes, and sends the result.  It keeps no record of    *)
(* the command ids it has seen.                                             *)

(*                                                                         *)
(* Order n and the position it opens both have ticket n; the deal that     *)
(* opens it is numbered in a sequence of its own, written -n here.         *)

\* The ticket an OPEN reports: the newest position in the terminal's list S;
\* if the list is empty the deal's, and the order's if there is no deal.
Newest(S) == {t \in S : \A u \in S : u <= t}
OpenTickets(S, deals, order) == 
    IF S # {} THEN Newest(S) ELSE IF deals # {} THEN deals ELSE {order}

\* An order the broker executes at once (DONE): the list may not show its
\* position yet.
OpenDone(c, res) ==
    /\ tickets' = tickets + 1
    /\ brokerOpen' = brokerOpen \cup {tickets + 1}
    /\ \E S \in {brokerOpen, brokerOpen'}, deals \in {{}, {-(tickets + 1)}} :
         \E t \in OpenTickets(S, deals, tickets + 1) : res = Result(c, TRUE, t)
    /\ UNCHANGED <<placed, taken>>

\* An order the broker has only taken: success if it says PLACED, a failure if
\* the answer is a timeout or any other code.
OpenPlaced(c, res) ==
    /\ tickets' = tickets + 1
    /\ placed' = placed \cup {tickets + 1}
    /\ \/ \E t \in OpenTickets(brokerOpen, {}, tickets + 1) : res = Result(c, TRUE, t)
       \/ res = Result(c, FALSE, 0)
    /\ UNCHANGED <<brokerOpen, taken>>

\* The position a CLOSE acts on: the one named, or the only one there is.
CloseTickets(c) ==
    IF target[c] # 0 THEN {target[c]} \cap brokerOpen
    ELSE {t \in brokerOpen : brokerOpen = {t}}

\* Both DONE and PLACED count as success: the position is closed, or the
\* broker has taken an order to close it.
CloseAccepted(c, res) ==
    \E t \in CloseTickets(c) :
        /\ brokerOpen' \in {brokerOpen, brokerOpen \ {t}}
        /\ taken' = taken \cup {t}
        /\ res = Result(c, TRUE, t)
        /\ UNCHANGED <<tickets, placed>>

\* What HandleCommand may do at the broker for command c, and the result.
\* (A CLOSE that fails and yet reaches the market is BrokerClose later on.)
HandleCommand(c, res) ==
    \/ /\ Kind[c] = "OPEN"
       /\ OpenDone(c, res) \/ OpenPlaced(c, res)
    \/ /\ Kind[c] = "CLOSE"
       /\ CloseAccepted(c, res)
    \/ /\ res = IF Kind[c] = "INFO" THEN Result(c, TRUE, 0) ELSE Result(c, FALSE, 0)
       /\ UNCHANGED <<tickets, placed, brokerOpen, taken>>

EAReceive ==
    /\ ea # NoConn
    /\ toAgent[ea] # <<>>
    /\ LET c == Head(toAgent[ea])
       IN \E res \in {Result(c, TRUE, t) : t \in -(tickets + 1) .. tickets + 1}
                       \cup {Result(c, FALSE, 0)} :
            /\ HandleCommand(c, res)
            /\ runs' = [runs EXCEPT ![c] = @ + 1]
            /\ toServer' = [toServer EXCEPT ![ea] = @ \o <<Ack(c), res>>]
    /\ toAgent' = [toAgent EXCEPT ![ea] = Tail(@)]
    /\ UNCHANGED <<rowVars, reqVars, task, handler, active, ea, posVars,
                   faultVars>>

\* The broker executes an order it has taken; no message tells the server.
ExecuteOrder(n) ==
    /\ n \in placed
    /\ placed' = placed \ {n}
    /\ brokerOpen' = brokerOpen \cup {n}
    /\ UNCHANGED <<rowVars, reqVars, task, handler, active, ea, wireVars, runs,
                   tickets, taken, posVars, faultVars>>

\* A position closes at the broker, by its stop-loss or take-profit or by a
\* close that was only taken; no message tells the server.
BrokerClose(t) ==
    /\ t \in brokerOpen
    /\ brokerOpen' = brokerOpen \ {t}
    /\ UNCHANGED <<rowVars, reqVars, task, handler, active, ea, wireVars, runs,
                   tickets, placed, taken, posVars, faultVars>>

-----------------------------------------------------------------------------
(* The WebSocket handler: one message at a time, with a database session    *)
(* per message, then the inlined delivery task.                             *)

\* The EA opens its next connection: the handshake closes the socket that is
\* registered, registers the new one, and begins by delivering what is pending.
Connect(k) ==
    /\ ea = NoConn
    /\ handler[k].pc = "none"
    /\ ea' = k
    /\ active' = k
    /\ handler' = [h \in Conns |->
                     IF h = k THEN Handler("serve", NoMsg, FALSE)
                     ELSE Handler(handler[h].pc, handler[h].msg,
                                  handler[h].replaced \/ h = active)]
    /\ task' = [task EXCEPT ![k] = Deliver]
    /\ UNCHANGED <<rowVars, reqVars, wireVars, brokerVars, posVars,
                   faultVars>>

Serving(k) == handler[k].pc = "serve" /\ task[k].pc = "off"

\* receive_text, get_command and the transition check.  A refused message is
\* answered with an error the EA only logs.
HandlerRead(k) ==
    /\ Serving(k)
    /\ ~handler[k].replaced
    /\ toServer[k] # <<>>
    /\ LET m == Head(toServer[k])
           next == IF m.type = "ack" THEN "ACKNOWLEDGED"
                   ELSE IF m.ok THEN "COMPLETED" ELSE "FAILED"
       IN handler' = [handler EXCEPT ![k] =
                        IF MayBecome(m.cmd, next)
                        THEN Handler("book", m, FALSE) ELSE @]
    /\ toServer' = [toServer EXCEPT ![k] = Tail(@)]
    /\ UNCHANGED <<rowVars, reqVars, task, active, ea, toAgent, brokerVars,
                   posVars, faultVars>>

acknowledge_command(m) == status' = [status EXCEPT ![m.cmd] = "ACKNOWLEDGED"]

complete_command(m) ==
    /\ status' = [status EXCEPT ![m.cmd] = "COMPLETED"]
    /\ outcome' = [outcome EXCEPT ![m.cmd] = m.ticket]

fail_command(m) ==
    /\ status' = [status EXCEPT ![m.cmd] = "FAILED"]
    /\ UNCHANGED outcome

\* The acknowledgement's UPDATE and commit.
BookAck(k) ==
    /\ handler[k].pc = "book"
    /\ handler[k].msg.type = "ack"
    /\ acknowledge_command(handler[k].msg)
    /\ handler' = [handler EXCEPT ![k] = Handler("serve", NoMsg, @.replaced)]
    /\ UNCHANGED <<dataVars, reqVars, task, active, ea, wireVars,
                   brokerVars, posVars, faultVars>>

\* Mutant: a refused CLOSE closes the row its payload names.
record_agent_execution_result_ClosesOnFailure(m) ==
    LET ticket == IF m.ok THEN m.ticket ELSE target[m.cmd]
        opens  == m.ok /\ Kind[m.cmd] = "OPEN" /\ ticket \notin dbOpen \cup dbClosed
        closes == Kind[m.cmd] = "CLOSE" /\ ticket \in dbOpen
    IN /\ dbOpen' = IF opens THEN dbOpen \cup {ticket}
                    ELSE IF closes THEN dbOpen \ {ticket} ELSE dbOpen
       /\ dbClosed' = IF closes THEN dbClosed \cup {ticket} ELSE dbClosed

\* record_agent_execution_result: the position rows a result leads to.
record_agent_execution_result(m) ==
    LET opens  == m.ok /\ Kind[m.cmd] = "OPEN" /\ m.ticket \notin dbOpen \cup dbClosed
        closes == m.ok /\ Kind[m.cmd] = "CLOSE" /\ m.ticket \in dbOpen
    IN /\ dbOpen' = IF opens THEN dbOpen \cup {m.ticket}
                    ELSE IF closes THEN dbOpen \ {m.ticket} ELSE dbOpen
       /\ dbClosed' = IF closes THEN dbClosed \cup {m.ticket} ELSE dbClosed

\* Mutant: the handler does not look for the next command.
BookResult_NoDelivery(k) ==
    /\ handler[k].pc = "book"
    /\ handler[k].msg.type = "result"
    /\ IF handler[k].msg.ok THEN complete_command(handler[k].msg)
                            ELSE fail_command(handler[k].msg)
    /\ record_agent_execution_result(handler[k].msg)
    /\ handler' = [handler EXCEPT ![k] = Handler("serve", NoMsg, @.replaced)]
    /\ UNCHANGED <<created, clock, target, reqVars, task, active, ea, wireVars,
                   brokerVars, faultVars>>

\* Mutant: the handler of a replaced connection books the command alone.
BookResult_RegisteredOnly(k) ==
    /\ handler[k].pc = "book"
    /\ handler[k].msg.type = "result"
    /\ IF handler[k].msg.ok THEN complete_command(handler[k].msg)
                            ELSE fail_command(handler[k].msg)
    /\ IF active = k THEN record_agent_execution_result(handler[k].msg)
                     ELSE UNCHANGED posVars
    /\ handler' = [handler EXCEPT ![k] = Handler("serve", NoMsg, @.replaced)]
    /\ task' = [task EXCEPT ![k] = Deliver]
    /\ UNCHANGED <<created, clock, target, reqVars, active, ea, wireVars, brokerVars,
                   faultVars>>

\* complete_command or fail_command, the position rows, commit, and then the
\* next delivery.
BookResult(k) ==
    /\ handler[k].pc = "book"
    /\ handler[k].msg.type = "result"
    /\ IF handler[k].msg.ok THEN complete_command(handler[k].msg)
                            ELSE fail_command(handler[k].msg)
    /\ record_agent_execution_result(handler[k].msg)
    /\ handler' = [handler EXCEPT ![k] = Handler("serve", NoMsg, @.replaced)]
    /\ task' = [task EXCEPT ![k] = Deliver]
    /\ UNCHANGED <<created, clock, target, reqVars, active, ea, wireVars, brokerVars,
                   faultVars>>

\* The handler notices that its peer is gone and runs its finally block.
HandlerEnd(k) ==
    /\ Serving(k)
    /\ ea # k
    /\ handler' = [handler EXCEPT ![k] = Handler("closed", NoMsg, @.replaced)]
    /\ active' = IF active = k THEN NoConn ELSE active
    /\ toServer' = [toServer EXCEPT ![k] = <<>>]
    /\ UNCHANGED <<rowVars, reqVars, task, ea, toAgent, brokerVars, posVars,
                   faultVars>>

-----------------------------------------------------------------------------
(* Faults.                                                                  *)

\* The EA's socket breaks: what was on its way to the EA is lost; what the EA
\* had sent may still be read until the handler notices.
Drop ==
    /\ ea # NoConn
    /\ drops < MaxDrops
    /\ drops' = drops + 1
    /\ toAgent' = [toAgent EXCEPT ![ea] = <<>>]
    /\ ea' = NoConn
    /\ UNCHANGED <<rowVars, reqVars, task, handler, active, toServer,
                   brokerVars, posVars, crashes>>

\* The server process restarts: coroutines, connections and uncommitted rows
\* are gone, committed rows stay.
Crash ==
    /\ crashes < MaxCrashes
    /\ crashes' = crashes + 1
    /\ creator' = [c \in Queued |-> IF creator[c] = "idle" THEN "idle" ELSE "done"]
    /\ direct' = [c \in Direct |-> IF direct[c] = "idle" THEN "idle" ELSE "done"]
    /\ task' = [t \in Tasks |-> Idle]
    /\ handler' = [k \in Conns |-> 
                     Handler(IF handler[k].pc = "none" THEN "none" ELSE "closed",
                             NoMsg, FALSE)]
    /\ active' = NoConn
    /\ ea' = NoConn
    /\ toAgent' = [k \in Conns |-> <<>>]
    /\ toServer' = [k \in Conns |-> <<>>]
    /\ UNCHANGED <<rowVars, brokerVars, posVars, drops>>

-----------------------------------------------------------------------------
CreateStep(c)  == CreateCommit(c) \/ CreateCheckConnected(c) \/ CreateSpawn(c)
DirectStep(c)  == DirectCreate(c) \/ DirectSend(c) \/ DirectCommit(c)
TaskStep(t)    == \/ TaskSelect(t) \/ TaskClaim(t) \/ TaskSend(t)
                  \/ TaskRevertRead(t) \/ TaskRevertWrite(t)
HandlerStep(k) == HandlerRead(k) \/ BookAck(k) \/ BookResult(k) \/ HandlerEnd(k)

Next ==
    \/ \E c \in Queued : CreateStep(c)
    \/ \E c \in Direct : DirectStep(c)
    \/ \E t \in Tasks : TaskStep(t)
    \/ \E k \in Conns : Connect(k) \/ HandlerStep(k)
    \/ EAReceive
    \/ \E n \in placed : ExecuteOrder(n)
    \/ \E t \in brokerOpen : BrokerClose(t)
    \/ Drop
    \/ Crash

Spec == Init /\ [][Next]_vars

\* The event loop runs every ready coroutine, the EA's timer keeps polling its
\* socket and reconnecting, and a handler learns that its peer is gone.  No
\* user is obliged to make a request, and no fault is obliged to happen.
Fairness ==
    /\ \A c \in Queued : WF_vars(CreateCheckConnected(c) \/ CreateSpawn(c))
    /\ \A c \in Direct : WF_vars(DirectSend(c) \/ DirectCommit(c))
    /\ \A t \in Tasks : WF_vars(TaskStep(t))
    /\ \A k \in Conns : WF_vars(HandlerStep(k))
    /\ WF_vars(EAReceive)
    /\ WF_vars(\E k \in Conns : Connect(k))

FairSpec == Spec /\ Fairness

-----------------------------------------------------------------------------
(* Properties.                                                              *)

DirectStates == {"idle", "flushed", "sent", "unsent", "done"}

\* The shape of every variable.
TypeOK ==
    /\ status \in [Cmds -> Statuses \cup {"NONE"}]
    /\ created \in [Cmds -> Nat]
    /\ clock \in Nat
    /\ target \in [Cmds -> Nat]
    /\ outcome \in [Cmds -> Int]
    /\ creator \in [Queued -> {"idle", "checkConnected", "checkInFlight", "done"}]
    /\ direct \in [Direct -> DirectStates]
    /\ task \in [Tasks -> TaskType]
    /\ handler \in [Conns -> HandlerType]
    /\ active \in Conns \cup {NoConn}
    /\ ea \in Conns \cup {NoConn}
    /\ toAgent \in [Conns -> Seq(Cmds)]
    /\ toServer \in [Conns -> Seq(Messages)]
    /\ runs \in [Cmds -> Nat]
    /\ tickets \in Nat
    /\ placed \subseteq 1 .. tickets
    /\ brokerOpen \subseteq 1 .. tickets
    /\ taken \subseteq 1 .. tickets
    /\ dbOpen \subseteq Int
    /\ dbClosed \subseteq Int
    /\ drops \in Nat
    /\ crashes \in Nat

\* A row says ACKNOWLEDGED or COMPLETED only for a command the EA has run, and
\* FAILED only for one it has run or for a strategy command whose delivery
\* failed: no interleaving of claims, reverts, reconnects and restarts invents
\* an outcome.
OutcomesReported ==
    \A c \in Cmds :
        /\ status[c] \in {"ACKNOWLEDGED", "COMPLETED"} => runs[c] > 0
        /\ status[c] = "FAILED" => runs[c] > 0 \/ c \in Strategy

\* The numbers the EA's orders have: the order's and position's, or the deal's.
Issued == {n \in Int : n # 0 /\ n <= tickets /\ -n <= tickets}

\* Whatever is claimed twice, reconnected, reordered or answered by another
\* handler, the positions table has rows only for orders the EA has placed
\* (under the order's, the position's or the deal's number), one row per
\* number, and a row is CLOSED only when the broker has taken a close of that
\* very position.  (That it has executed the close, or even the opening order,
\* is more than the EA's PLACED says.)
PositionsTraceable ==
    /\ dbOpen \cup dbClosed \subseteq Issued
    /\ dbOpen \cap dbClosed = {}
    /\ dbClosed \subseteq taken

\* A command booked COMPLETED has its effect in the positions table: the
\* ticket an OPEN reports has a row, whichever handler booked it.
CompletedOpensHaveRows ==
    \A c \in Cmds :
        status[c] = "COMPLETED" /\ Kind[c] = "OPEN"
            => outcome[c] \in dbOpen \cup dbClosed

\* A strategy command is never visible as PENDING, so no delivery task picks it
\* up: whatever else is retried, the EA runs it at most once.
StrategyAtMostOnce == \A c \in Strategy : runs[c] <= 1

\* Without network faults and restarts, every command whose creation committed
\* is settled for good: no command waits for a delivery that nobody makes.
QueuedSettle ==
    \A c \in Queued : status[c] # "NONE" ~> [](status[c] \in Terminal)

-----------------------------------------------------------------------------
(* What the documentation says and the code does not keep.                  *)

\* "At-most-once execution": the EA runs no command twice.
AtMostOnce == \A c \in Cmds : runs[c] <= 1
=============================================================================
