---------------------------- MODULE AgentSession ----------------------------
(***************************************************************************)
(* The life of the connections of ONE agent: the EA's reconnecting client  *)
(* (mt5/Include/AurexisWebSocket.mqh, driven by OnTimer AND by OnTick of    *)
(* mt5/Experts/AurexisAgent.mq5, while only OnTimer looks after the flags  *)
(* g_hello_sent and g_is_welcomed), the server                             *)
(* handler of each connection (backend/api/v1/agent_ws.py), the registry   *)
(* of active connections (backend/ws/agent_manager.py) and the status      *)
(* column of the agent's row.  Commands are the subject of AgentCommands.  *)
(*                                                                         *)
(* A handler runs on one event loop, so a step below is the code between   *)
(* two awaits that really suspend.  WebSocket.accept() does not: uvicorn   *)
(* answers it at once, also when the client has already gone.              *)
(***************************************************************************)
EXTENDS Naturals, Sequences

CONSTANTS MaxConns,        \* connections the EA may open
          MaxInbox,        \* frames in flight from the EA on one connection
          MaxDrops,        \* losses of an established connection
          MaxEarlyDrops,   \* losses of a connection still in its handshake
          MaxCrashes,      \* restarts of the server process
          MaxErrors,       \* exceptions raised outside the handler's try
          MaxFailures,     \* exceptions raised inside it on a live connection
          MaxFaults,       \* all of these together
          MayStop          \* can the EA be removed from its chart?

ASSUME SessionAssumption ==
  /\ MaxConns \in Nat /\ MaxInbox \in Nat
  /\ MaxDrops \in Nat /\ MaxEarlyDrops \in Nat /\ MaxCrashes \in Nat /\ MaxErrors \in Nat
  /\ MaxFailures \in Nat
  /\ MaxFaults \in Nat
  /\ MayStop \in BOOLEAN

Conns == 1 .. MaxConns
None == 0

VARIABLES
  ea,        \* state of the EA's client: m_state
  conn,      \* the EA's own connection, the newest it opened
  hello,     \* g_hello_sent: the connection the hello went on, None when it is false
  welcomed,  \* g_is_welcomed
  up,        \* connections whose transport still reaches the EA
  closed,    \* connections the server has closed
  inbox,     \* frames from the EA a handler has not read
  toEA,      \* what the server has written on each connection
  pc,        \* where the handler of each connection is
  active,    \* _active_connections[agent_id]
  status,    \* MT5Agent.last_known_status
  drops, earlyDrops, crashes, errors, failures

eaVars == <<ea, conn, hello, welcomed>>
wireVars == <<up, closed, inbox, toEA>>
serverVars == <<pc, active, status>>
faultVars == <<drops, earlyDrops, crashes, errors, failures>>
vars == <<eaVars, wireVars, serverVars, faultVars>>

EAStates == {"down", "handshake", "connected", "stopped"}
Frames == {"hello", "heartbeat"}
Replies == {"accept", "welcome"}
HandlerStates == {"none", "auth", "connect", "accept", "deliver", "serve",
                  "welcome", "acknowledge", "final", "offline", "done"}

\* The bound on all faults together: those that HarderFaults names count twice.
MayFail(n) == drops + failures + 2 * (earlyDrops + crashes + errors) + n <= MaxFaults

Dead(c) == c \notin up \/ c \in closed

\* Types of the registry, the per-connection handlers of agent_ws.py and the EA's client state.
TypeOK ==
  /\ ea \in EAStates
  /\ conn \in Conns \cup {None}
  /\ hello \in Conns \cup {None}
  /\ welcomed \in BOOLEAN
  /\ up \subseteq Conns
  /\ closed \subseteq Conns
  /\ inbox \in [Conns -> Seq(Frames)]
  /\ \A c \in Conns : Len(inbox[c]) <= MaxInbox
  /\ toEA \in [Conns -> SUBSET Replies]
  /\ pc \in [Conns -> HandlerStates]
  /\ active \in Conns \cup {None}
  /\ status \in {"UNKNOWN", "CONNECTED", "DISCONNECTED"}
  /\ drops \in 0 .. MaxDrops
  /\ earlyDrops \in 0 .. MaxEarlyDrops
  /\ crashes \in 0 .. MaxCrashes
  /\ errors \in 0 .. MaxErrors
  /\ failures \in 0 .. MaxFailures

\* OnInit has not connected yet, the row is as registration left it.
Init ==
  /\ ea = "down" /\ conn = None /\ hello = None /\ welcomed = FALSE
  /\ up = {} /\ closed = {}
  /\ inbox = [c \in Conns |-> <<>>]
  /\ toEA = [c \in Conns |-> {}]
  /\ pc = [c \in Conns |-> "none"]
  /\ active = None
  /\ status = "UNKNOWN"
  /\ drops = 0 /\ earlyDrops = 0 /\ crashes = 0 /\ errors = 0 /\ failures = 0

-----------------------------------------------------------------------------
(* The EA.  One call of Tick() does one of the five things below; which of  *)
(* the EA's two event handlers made the call decides about the flags.      *)

\* Disconnected: a new socket and the upgrade request on it.  The reconnect
\* delay only spaces the attempts out.
Opens ==
  /\ ea = "down"
  /\ conn < MaxConns
  /\ conn' = conn + 1
  /\ ea' = "handshake"
  /\ up' = up \cup {conn + 1}
  /\ pc' = [pc EXCEPT ![conn + 1] = "auth"]
  /\ UNCHANGED toEA

\* The 101 response is read.
Upgraded ==
  /\ ea = "handshake"
  /\ conn \in up
  /\ "accept" \in toEA[conn]
  /\ ea' = "connected"
  /\ UNCHANGED <<conn, up, pc, toEA>>

\* A frame is read, OnWsMessage: the welcome.
ReadsWelcome ==
  /\ ea = "connected"
  /\ conn \in up
  /\ "welcome" \in toEA[conn]
  /\ toEA' = [toEA EXCEPT ![conn] = @ \ {"welcome"}]
  /\ UNCHANGED <<ea, conn, up, pc>>

\* The socket is lost, or the server's close frame is read: Disconnect().
Loses ==
  /\ ea \in {"handshake", "connected"}
  /\ Dead(conn)
  /\ ea' = "down"
  /\ up' = up \ {conn}
  /\ UNCHANGED <<conn, pc, toEA>>

\* Nothing to read yet, or the reconnect delay has not passed.
Idles == ea # "stopped" /\ UNCHANGED <<ea, conn, up, pc, toEA>>

\* The flag as OnWsMessage leaves it: Tick() takes a frame only to read a welcome.
Welcomed == welcomed \/ toEA' # toEA

\* OnTick: Tick() and the streaming of prices, which needs the flags as they are.
InOnTick == welcomed' = Welcomed /\ UNCHANGED <<hello, inbox>>

\* Mutant of ClearFlags: g_is_welcomed is forgotten.
ClearHelloOnly == hello' = None /\ welcomed' = Welcomed /\ UNCHANGED inbox

\* The else branch of OnTimer.
ClearFlags == hello' = None /\ welcomed' = FALSE /\ UNCHANGED inbox

\* A frame that a connected EA writes; on a connection that is lost it goes nowhere.
Send(f) ==
  /\ Len(inbox[conn]) < MaxInbox
  /\ inbox' = IF Dead(conn) THEN inbox ELSE [inbox EXCEPT ![conn] = Append(@, f)]

\* OnTimer after its Tick(): the hello if none is on record, otherwise a
\* heartbeat every InpHeartbeatSec; the flags are cleared while not connected.
InOnTimer ==
  \/ /\ ea' # "connected"
     /\ ClearFlags
  \/ /\ ea' = "connected" /\ hello = None
     /\ Send("hello")
     /\ hello' = conn /\ welcomed' = Welcomed
  \/ /\ ea' = "connected" /\ hello # None
     /\ Send("heartbeat") \/ UNCHANGED inbox
     /\ welcomed' = Welcomed /\ UNCHANGED hello

Unticked == <<closed, active, status, faultVars>>

OnTick == (Opens \/ Upgraded \/ ReadsWelcome \/ Loses) /\ InOnTick /\ UNCHANGED Unticked

OnTimer == (Opens \/ Upgraded \/ ReadsWelcome \/ Loses \/ Idles) /\ InOnTimer /\ UNCHANGED Unticked

\* OnDeinit: the user removes the EA, whose socket is closed.
EAStop ==
  /\ MayStop
  /\ ea # "stopped"
  /\ ea' = "stopped"
  /\ hello' = None /\ welcomed' = FALSE
  /\ up' = up \ {conn}
  /\ UNCHANGED <<conn, closed, inbox, toEA, serverVars, faultVars>>

-----------------------------------------------------------------------------
(* The handler of connection c: agent_websocket_endpoint. *)

\* The secret is right; the commit that records the connection.
Authenticate(c) ==
  /\ pc[c] = "auth"
  /\ pc' = [pc EXCEPT ![c] = "connect"]
  /\ status' = "CONNECTED"
  /\ UNCHANGED <<eaVars, wireVars, active, faultVars>>

Register(c) ==
  /\ active' = c
  /\ toEA' = [toEA EXCEPT ![c] = @ \cup {"accept"}]
  /\ pc' = [pc EXCEPT ![c] = "deliver"]

\* agent_manager.connect up to its first real await: without an older
\* connection it accepts and registers at once, with one it closes that one
\* and waits for its closing handshake.
Connect(c) ==
  /\ pc[c] = "connect"
  /\ \/ /\ active = None
        /\ Register(c)
        /\ UNCHANGED closed
     \/ /\ active # None
        /\ closed' = closed \cup {active}
        /\ pc' = [pc EXCEPT ![c] = "accept"]
        /\ UNCHANGED <<active, toEA>>
  /\ UNCHANGED <<eaVars, up, inbox, status, faultVars>>

\* The old connection is closed, or its closing timed out.
Accept(c) ==
  /\ pc[c] = "accept"
  /\ Register(c)
  /\ UNCHANGED <<eaVars, up, closed, inbox, status, faultVars>>

\* _deliver_pending_commands before the loop.
Deliver(c) ==
  /\ pc[c] = "deliver"
  /\ pc' = [pc EXCEPT ![c] = "serve"]
  /\ UNCHANGED <<eaVars, wireVars, active, status, faultVars>>

\* accept() or the first delivery raises: both are outside the try, so no
\* finally runs; the server closes the connection of a handler that failed.
Raise(c) ==
  /\ errors < MaxErrors /\ MayFail(2)
  /\ pc[c] \in {"accept", "deliver"}
  /\ errors' = errors + 1
  /\ pc' = [pc EXCEPT ![c] = "done"]
  /\ closed' = closed \cup {c}
  /\ UNCHANGED <<eaVars, up, inbox, toEA, active, status, drops, earlyDrops, crashes, failures>>

\* Mutant of Receive: only the hello rewrites the row.
ReceiveHelloOnly(c) ==
  /\ pc[c] = "serve"
  /\ inbox[c] # <<>>
  /\ inbox' = [inbox EXCEPT ![c] = Tail(@)]
  /\ status' = IF Head(inbox[c]) = "hello" THEN "CONNECTED" ELSE status
  /\ pc' = [pc EXCEPT ![c] = IF Head(inbox[c]) = "hello" THEN "welcome" ELSE "acknowledge"]
  /\ UNCHANGED <<eaVars, up, closed, toEA, active, faultVars>>

\* A hello or a heartbeat: the row is rewritten and committed, then answered.
Receive(c) ==
  /\ pc[c] = "serve"
  /\ inbox[c] # <<>>
  /\ inbox' = [inbox EXCEPT ![c] = Tail(@)]
  /\ status' = "CONNECTED"
  /\ pc' = [pc EXCEPT ![c] = IF Head(inbox[c]) = "hello" THEN "welcome" ELSE "acknowledge"]
  /\ UNCHANGED <<eaVars, up, closed, toEA, active, faultVars>>

\* websocket.send_json raises once the connection is gone.
Answer(c) ==
  /\ pc[c] \in {"welcome", "acknowledge"}
  /\ pc' = [pc EXCEPT ![c] = IF Dead(c) THEN "final" ELSE "serve"]
  /\ toEA' = [toEA EXCEPT ![c] =
                IF pc[c] = "welcome" /\ ~Dead(c) THEN @ \cup {"welcome"} ELSE @]
  /\ UNCHANGED <<eaVars, up, closed, inbox, active, status, faultVars>>

\* receive_text raises WebSocketDisconnect: the client left, its keepalive
\* pings went unanswered, or a newer connection closed this one.
Gone(c) ==
  /\ pc[c] = "serve"
  /\ Dead(c)
  /\ pc' = [pc EXCEPT ![c] = "final"]
  /\ UNCHANGED <<eaVars, wireVars, active, status, faultVars>>

\* Any other exception inside the try, of the database or of a frame's fields:
\* the handler ends although its connection is alive.
Fail(c) ==
  /\ failures < MaxFailures /\ MayFail(1)
  /\ pc[c] \in {"serve", "welcome", "acknowledge"}
  /\ ~Dead(c)
  /\ failures' = failures + 1
  /\ pc' = [pc EXCEPT ![c] = "final"]
  /\ UNCHANGED <<eaVars, wireVars, active, status, drops, earlyDrops, crashes, errors>>

\* Mutant of Disconnect: the entry is popped whichever connection it holds.
DisconnectAny(c) == active' = None

\* agent_manager.disconnect(agent_id, websocket).
Disconnect(c) == active' = IF active = c THEN None ELSE active

\* Mutant of Finalize: the registry is not told.
FinalizeKeepsEntry(c) ==
  /\ pc[c] = "final"
  /\ pc' = [pc EXCEPT ![c] = "offline"]
  /\ UNCHANGED <<eaVars, wireVars, active, status, faultVars>>

\* finally, first statement ...
Finalize(c) ==
  /\ pc[c] = "final"
  /\ Disconnect(c)
  /\ pc' = [pc EXCEPT ![c] = "offline"]
  /\ UNCHANGED <<eaVars, wireVars, status, faultVars>>

\* The server closes the connection of a handler that has returned.
Return(c) ==
  /\ pc[c] = "offline"
  /\ pc' = [pc EXCEPT ![c] = "done"]
  /\ closed' = closed \cup {c}
  /\ UNCHANGED <<eaVars, up, inbox, toEA, active>>

\* Mutants of WriteOffline: it writes only while still registered, or the
\* word of the protocol document instead of the column's.
WriteOfflineIfActive(c) ==
  /\ Return(c)
  /\ status' = IF active = c THEN "DISCONNECTED" ELSE status
  /\ UNCHANGED faultVars

WriteOfflineOtherWord(c) ==
  /\ Return(c)
  /\ status' = "OFFLINE"
  /\ UNCHANGED faultVars

\* ... and the transaction after it, whatever the registry holds by then.
WriteOffline(c) ==
  /\ Return(c)
  /\ status' = "DISCONNECTED"
  /\ UNCHANGED faultVars

\* That transaction raises, which is swallowed.
SwallowOffline(c) ==
  /\ errors < MaxErrors /\ MayFail(2)
  /\ Return(c)
  /\ errors' = errors + 1
  /\ UNCHANGED <<status, drops, earlyDrops, crashes, failures>>

\* agent_manager.send_json of a command fails on the registered connection.
SendFails ==
  /\ active # None
  /\ Dead(active)
  /\ Disconnect(active)
  /\ UNCHANGED <<eaVars, wireVars, pc, status, faultVars>>

-----------------------------------------------------------------------------
(* Faults. *)

\* The network loses an established connection.
Drop ==
  /\ drops < MaxDrops /\ MayFail(1)
  /\ ea = "connected" /\ conn \in up
  /\ up' = up \ {conn}
  /\ drops' = drops + 1
  /\ UNCHANGED <<eaVars, closed, inbox, toEA, serverVars, earlyDrops, crashes, errors, failures>>

\* The network loses a connection before the EA has seen its 101.
EarlyDrop ==
  /\ earlyDrops < MaxEarlyDrops /\ MayFail(2)
  /\ ea = "handshake" /\ conn \in up
  /\ up' = up \ {conn}
  /\ earlyDrops' = earlyDrops + 1
  /\ UNCHANGED <<eaVars, closed, inbox, toEA, serverVars, drops, crashes, errors, failures>>

\* The process restarts: handlers and registry are gone, the row stays.
Crash ==
  /\ crashes < MaxCrashes /\ MayFail(2)
  /\ crashes' = crashes + 1
  /\ up' = {}
  /\ pc' = [c \in Conns |-> IF pc[c] = "none" THEN "none" ELSE "done"]
  /\ active' = None
  /\ UNCHANGED <<eaVars, closed, inbox, toEA, status, drops, earlyDrops, errors, failures>>

Handler(c) == \/ Authenticate(c) \/ Connect(c) \/ Accept(c) \/ Deliver(c)
              \/ Receive(c) \/ Answer(c) \/ Finalize(c) \/ WriteOffline(c)

Next ==
  \/ OnTick \/ OnTimer \/ EAStop
  \/ \E c \in Conns : Handler(c)
  \/ \E c \in Conns : Gone(c)
  \/ \E c \in Conns : Raise(c) \/ Fail(c) \/ SwallowOffline(c)
  \/ SendFails \/ Drop \/ EarlyDrop \/ Crash

Spec == Init /\ [][Next]_vars

\* The event loop runs every handler that can run, a dead connection is
\* noticed (close frame, reset or keepalive timeout), and the EA's one-second
\* timer keeps firing, so that what Tick() can do is done in the end, by
\* OnTimer if not by OnTick.  Nothing is assumed of the user, of price ticks or
\* of the network.
Fairness ==
  /\ \A c \in Conns : WF_vars(Handler(c)) /\ WF_vars(Gone(c))
  /\ WF_vars(OnTimer /\ Opens) /\ WF_vars(OnTimer /\ Upgraded)
  /\ WF_vars(OnTimer /\ ReadsWelcome) /\ WF_vars(OnTimer /\ Loses)
  /\ WF_vars(OnTimer /\ Idles)

FairSpec == Spec /\ Fairness

-----------------------------------------------------------------------------
(* Properties. *)

\* What GET /agents reports: _to_response.
ReportedStatus == IF active # None THEN "CONNECTED" ELSE status

\* What the code has no answer to: a restart leaves CONNECTED in the row of an
\* agent that never comes back, an exception outside the try leaves a registered
\* connection without a handler or, swallowed in the finally, the row unwritten,
\* and a connection that is lost before the EA sees its 101 can take the registry
\* from the EA's next one.
HarderFaults == crashes + errors + earlyDrops > 0

\* agent_manager.disconnect (agent_manager.py 58-65): a handler that cleans up
\* late, after the EA has reconnected, leaves the newer connection registered; a
\* connection leaves the registry for nothing only when it is dead or when it
\* was its own handler that failed.
OnlyOwnUnregistered ==
  [][\A c \in Conns :
       active = c /\ active' = None => Dead(c)' \/ pc[c] = "final"]_vars

\* As long as nothing raised between accept() and the try, a connection the
\* registry hands out has a handler behind it that will read its results and
\* unregister it (agent_ws.py 212-350).
RegisteredIsServed ==
  errors = 0 /\ active # None =>
    pc[active] \in {"deliver", "serve", "welcome", "acknowledge", "final"}

\* Whenever the EA has sent a hello on its connection and takes itself for
\* welcomed, and so sends prices and bars, the handler of that connection serves
\* it and has read that hello (OnTimer 503-548, agent_ws.py 231-244): a welcome
\* of an earlier connection never answers for a hello of this one.
WelcomedByItsHello ==
  welcomed /\ hello = conn =>
    /\ pc[conn] \notin {"none", "auth", "connect", "accept", "deliver"}
    /\ \A i \in DOMAIN inbox[conn] : inbox[conn][i] # "hello"

\* The hello on record went on an earlier connection: OnTick() reconnected before
\* OnTimer() could clear the flags.
HelloIsStale == hello # None /\ hello # conn

\* After its last drop an EA that stays on its chart ends up with its own
\* connection registered and its row CONNECTED for good, although the handlers of
\* its earlier connections still write DISCONNECTED when they end (agent_ws.py
\* 339-349): the heartbeats repair the row.  It is welcomed too, unless the hello
\* of an earlier connection kept it from sending one on this one.
Recovers ==
  <>[]( \/ ea = "stopped" \/ HarderFaults
        \/ /\ ea = "connected" /\ active = conn /\ status = "CONNECTED"
           /\ welcomed \/ HelloIsStale )

\* Once the EA is gone the agent is reported DISCONNECTED for good
\* (MT5_COMMAND_PROTOCOL.md 61).
OfflineIsReported ==
  (ea = "stopped") ~> [](ReportedStatus # "CONNECTED" \/ HarderFaults)

\* "commands are delivered to the latest live connection only"
\* (agent_manager.py 5-6): the EA's own live, accepted connection is never
\* displaced by another one without being closed.
NoSplitBrain ==
  [][\A c \in Conns : active = c /\ active' \in Conns \ {c} => Dead(c)']_vars

=============================================================================
