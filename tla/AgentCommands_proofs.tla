------------------------ MODULE AgentCommands_proofs ------------------------
(***************************************************************************)
(* Proofs about AgentCommands, for every set of commands and connections   *)
(* and any number of faults: the tables never say more than the EA did,    *)
(* and the EA runs a strategy command at most once.                        *)
(*                                                                         *)
(* OutcomesReported and PositionsTraceable are not inductive: a handler books   *)
(* what a message says, so the invariant must also say that the messages   *)
(* are truthful, on the wire and in a handler's hands, and that they stay  *)
(* truthful while the broker moves on.                                     *)
(***************************************************************************)
EXTENDS AgentCommands, TLAPS

\* What a message from the EA guarantees about the broker.
Truthful(m) ==
    /\ runs[m.cmd] > 0
    /\ m.type = "result" /\ m.ok =>
        /\ Kind[m.cmd] = "OPEN" => m.ticket \in Issued
        /\ Kind[m.cmd] = "CLOSE" => m.ticket \in taken

WireTruthful ==
    \A k \in Conns : \A i \in 1 .. Len(toServer[k]) : Truthful(toServer[k][i])

HandTruthful ==
    \A k \in Conns :
        handler[k].pc = "book" => /\ handler[k].msg \in Messages
                                  /\ Truthful(handler[k].msg)

IInv == /\ TypeOK
        /\ WireTruthful
        /\ HandTruthful
        /\ OutcomesReported
        /\ PositionsTraceable
        /\ CompletedOpensHaveRows
-----------------------------------------------------------------------------
USE DEF Cmds, Direct, Tasks

\* What a send does to the wire and to the registry.
LEMMA SendType ==
    ASSUME TypeOK, NEW c \in Cmds, NEW delivered \in BOOLEAN, send_json(c, delivered)
    PROVE  /\ toAgent' \in [Conns -> Seq(Cmds)]
           /\ active' \in Conns \cup {NoConn}
<1>1. CASE active # NoConn /\ active = ea
  <2>1. active \in Conns
    BY <1>1 DEF TypeOK
  <2>2. Append(toAgent[active], c) \in Seq(Cmds)
    BY <2>1 DEF TypeOK
  <2> QED
    BY <1>1, <2>1, <2>2 DEF TypeOK, send_json
<1>2. CASE ~(active # NoConn /\ active = ea)
  BY <1>2 DEF TypeOK, send_json
<1> QED
  BY <1>1, <1>2

\* A handler that is booking a result holds a message.
LEMMA HandType ==
    ASSUME TypeOK, NEW k \in Conns, handler[k].msg.type \in {"ack", "result"}
    PROVE  handler[k].msg \in Messages
<1>1. handler[k].msg \in Messages \cup {NoMsg}
  BY DEF TypeOK, HandlerType
<1>2. NoMsg.type = "none"
  BY DEF NoMsg
<1> QED
  BY <1>1, <1>2

\* What HandleCommand may do, and what it reports.
LEMMA HandleCommandEffect ==
    ASSUME TypeOK, NEW c \in Cmds, NEW res, HandleCommand(c, res)
    PROVE  /\ res \in Messages
           /\ res.cmd = c /\ res.type = "result"
           /\ tickets' \in Nat /\ tickets' >= tickets
           /\ placed' \subseteq 1 .. tickets' /\ brokerOpen' \subseteq 1 .. tickets'
           /\ taken \subseteq taken' /\ taken' \subseteq 1 .. tickets'
           /\ res.ok /\ Kind[c] = "OPEN" => res.ticket \in Issued'
           /\ res.ok /\ Kind[c] = "CLOSE" => res.ticket \in taken'
<1> USE DEF TypeOK, Messages, Result
<1>1. ASSUME NEW S, S \subseteq 1 .. tickets + 1, NEW deals \in {{}, {-(tickets + 1)}},
             NEW t \in OpenTickets(S, deals, tickets + 1)
      PROVE  t \in Int /\ t # 0 /\ -(tickets + 1) <= t /\ t <= tickets + 1
  <2>1. t \in S \/ t = -(tickets + 1) \/ t = tickets + 1
    BY <1>1 DEF OpenTickets, Newest
  <2>2. tickets \in Nat /\ (t \in S => t \in 1 .. tickets + 1)
    BY <1>1
  <2> QED
    BY <2>1, <2>2
<1>2. CASE OpenDone(c, res) /\ Kind[c] = "OPEN"
  <2>1. PICK S \in {brokerOpen, brokerOpen'}, deals \in {{}, {-(tickets + 1)}} :
           \E t \in OpenTickets(S, deals, tickets + 1) : res = Result(c, TRUE, t)
    BY <1>2 DEF OpenDone
  <2>2. PICK t \in OpenTickets(S, deals, tickets + 1) : res = Result(c, TRUE, t)
    BY <2>1
  <2>3. /\ tickets' = tickets + 1 /\ brokerOpen' = brokerOpen \cup {tickets + 1}
        /\ placed' = placed /\ taken' = taken
    BY <1>2 DEF OpenDone
  <2>4. S \subseteq 1 .. tickets + 1
    BY <2>1, <2>3
  <2>5. t \in Int /\ t # 0 /\ -(tickets + 1) <= t /\ t <= tickets + 1
    BY <1>1, <2>4
  <2>6. t \in Issued'
    BY <2>3, <2>5 DEF Issued
  <2> QED
    BY <1>2, <2>2, <2>3, <2>5, <2>6
<1>3. CASE OpenPlaced(c, res) /\ Kind[c] = "OPEN"
  <2>1. /\ tickets' = tickets + 1 /\ placed' = placed \cup {tickets + 1}
        /\ brokerOpen' = brokerOpen /\ taken' = taken
    BY <1>3 DEF OpenPlaced
  <2>2. CASE \E t \in OpenTickets(brokerOpen, {}, tickets + 1) : res = Result(c, TRUE, t)
    <3>1. PICK t \in OpenTickets(brokerOpen, {}, tickets + 1) : res = Result(c, TRUE, t)
      BY <2>2
    <3>4. brokerOpen \subseteq 1 .. tickets + 1 /\ {} \in {{}, {-(tickets + 1)}}
      OBVIOUS
    <3>2. t \in Int /\ t # 0 /\ -(tickets + 1) <= t /\ t <= tickets + 1
      BY <1>1, <3>4
    <3>3. t \in Issued'
      BY <2>1, <3>2 DEF Issued
    <3> QED
      BY <1>3, <2>1, <3>1, <3>2, <3>3
  <2>3. CASE res = Result(c, FALSE, 0)
    BY <1>3, <2>1, <2>3
  <2> QED
    BY <1>3, <2>2, <2>3 DEF OpenPlaced
<1>4. CASE CloseAccepted(c, res) /\ Kind[c] = "CLOSE"
  <2>1. PICK t \in CloseTickets(c) :
           /\ brokerOpen' \in {brokerOpen, brokerOpen \ {t}}
           /\ taken' = taken \cup {t}
           /\ res = Result(c, TRUE, t)
           /\ UNCHANGED <<tickets, placed>>
    BY <1>4 DEF CloseAccepted
  <2>2. t \in brokerOpen
    BY <2>1 DEF CloseTickets
  <2> QED
    BY <1>4, <2>1, <2>2
<1>5. CASE /\ res = IF Kind[c] = "INFO" THEN Result(c, TRUE, 0) ELSE Result(c, FALSE, 0)
           /\ UNCHANGED <<tickets, placed, brokerOpen, taken>>
  <2>1. CASE Kind[c] = "INFO"
    BY <1>5, <2>1
  <2>2. CASE Kind[c] # "INFO"
    BY <1>5, <2>2
  <2> QED
    BY <2>1, <2>2
<1> QED
  BY <1>2, <1>3, <1>4, <1>5 DEF HandleCommand

\* Every variable keeps its type under every step.
LEMMA TypeStep == TypeOK /\ [Next]_vars => TypeOK'
<1> SUFFICES ASSUME TypeOK, [Next]_vars PROVE TypeOK'
  OBVIOUS
<1> USE DEF TypeOK, TaskType
<1>1. CASE UNCHANGED vars
  BY <1>1 DEF vars
<1>2. ASSUME NEW c \in Queued, CreateStep(c) PROVE TypeOK'
  <2>1. CASE CreateCommit(c)
    <3>1. PICK t \in Targets(c) : target' = [target EXCEPT ![c] = t]
      BY <2>1 DEF CreateCommit
    <3>2. t \in Nat
      BY DEF Targets
    <3>3. target' \in [Cmds -> Nat]
      BY <3>1, <3>2
    <3>4. /\ creator' \in [Queued -> {"idle", "checkConnected", "checkInFlight", "done"}]
          /\ status' \in [Cmds -> Statuses \cup {"NONE"}] /\ created' \in [Cmds -> Nat] /\ clock' \in Nat
      BY <2>1 DEF CreateCommit, Statuses
    <3> QED
      BY <2>1, <3>3, <3>4 DEF CreateCommit, wireVars, brokerVars, posVars, faultVars
  <2>2. CASE CreateCheckConnected(c)
    BY <2>2 DEF CreateCheckConnected, rowVars, dataVars, wireVars, brokerVars, posVars, faultVars
  <2>3. CASE CreateSpawn(c)
    BY <2>3 DEF CreateSpawn, Deliver, rowVars, dataVars, wireVars, brokerVars, posVars, faultVars
  <2> QED
    BY <1>2, <2>1, <2>2, <2>3 DEF CreateStep
<1>3. ASSUME NEW c \in Direct, DirectStep(c) PROVE TypeOK'
  <2>1. CASE DirectCreate(c)
    <3>1. PICK t \in Targets(c) : target' = [target EXCEPT ![c] = t]
      BY <2>1 DEF DirectCreate
    <3>2. t \in Nat
      BY DEF Targets
    <3>3. target' \in [Cmds -> Nat]
      BY <3>1, <3>2
    <3>4. direct' \in [Direct -> DirectStates] /\ created' \in [Cmds -> Nat] /\ clock' \in Nat
      BY <2>1 DEF DirectCreate, DirectStates
    <3> QED
      BY <2>1, <3>3, <3>4 DEF DirectCreate, wireVars, brokerVars, posVars, faultVars
  <2>2. CASE DirectSend(c)
    <3>1. PICK delivered \in BOOLEAN :
             /\ send_json(c, delivered)
             /\ direct' = [direct EXCEPT ![c] = IF delivered THEN "sent" ELSE "unsent"]
      BY <2>2 DEF DirectSend
    <3>2. /\ toAgent' \in [Conns -> Seq(Cmds)]
          /\ active' \in Conns \cup {NoConn}
      BY <3>1, SendType
    <3> QED
      BY <2>2, <3>1, <3>2 DEF DirectSend, DirectStates, rowVars, dataVars, brokerVars, posVars, faultVars
  <2>3. CASE DirectCommit(c)
    BY <2>3 DEF DirectCommit, DirectStates, Statuses, dataVars, wireVars, brokerVars, posVars, faultVars
  <2> QED
    BY <1>3, <2>1, <2>2, <2>3 DEF DirectStep
<1>4. ASSUME NEW t \in Tasks, TaskStep(t) PROVE TypeOK'
  <2>1. CASE TaskSelect(t)
    BY <2>1 DEF TaskSelect, Idle, claim_pending_commands, rowVars, dataVars, reqVars, wireVars, brokerVars, posVars, faultVars
  <2>2. CASE TaskClaim(t)
    BY <2>2 DEF TaskClaim, Statuses, dataVars, reqVars, wireVars, brokerVars, posVars, faultVars
  <2>3. CASE TaskSend(t)
    <3>1. PICK c \in task[t].batch, delivered \in BOOLEAN :
             /\ send_json(c, delivered)
             /\ task' = [task EXCEPT ![t] =
                           IF ~delivered THEN [pc |-> "revertRead", batch |-> {c}]
                           ELSE IF task[t].batch = {c} THEN Idle
                           ELSE [pc |-> "send", batch |-> task[t].batch \ {c}]]
      BY <2>3 DEF TaskSend
    <3>2. c \in Cmds /\ task[t].batch \subseteq Cmds
      BY <3>1
    <3>3. /\ toAgent' \in [Conns -> Seq(Cmds)]
          /\ active' \in Conns \cup {NoConn}
      BY <3>1, <3>2, SendType
    <3>4. task' \in [Tasks -> TaskType]
      BY <3>1, <3>2 DEF Idle
    <3> QED
      BY <2>3, <3>3, <3>4 DEF TaskSend, rowVars, dataVars, reqVars, brokerVars, posVars, faultVars
  <2>4. CASE TaskRevertRead(t)
    BY <2>4 DEF TaskRevertRead, Idle, rowVars, dataVars, reqVars, wireVars, brokerVars, posVars, faultVars
  <2>5. CASE TaskRevertWrite(t)
    BY <2>5 DEF TaskRevertWrite, Idle, Statuses, dataVars, reqVars, wireVars, brokerVars, posVars, faultVars
  <2> QED
    BY <1>4, <2>1, <2>2, <2>3, <2>4, <2>5 DEF TaskStep
<1>5. ASSUME NEW k \in Conns, Connect(k) PROVE TypeOK'
  BY <1>5 DEF Connect, Deliver, Handler, HandlerType, rowVars, dataVars, reqVars, wireVars, brokerVars, posVars, faultVars
<1>6. ASSUME NEW k \in Conns, HandlerStep(k) PROVE TypeOK'
  <2>1. CASE HandlerRead(k)
    <3>1. toServer[k] \in Seq(Messages) /\ toServer[k] # <<>> /\ toServer' = [toServer EXCEPT ![k] = Tail(@)]
      BY <2>1 DEF HandlerRead
    <3>2. PICK m \in Messages : m = Head(toServer[k])
      BY <3>1
    <3>3. Tail(toServer[k]) \in Seq(Messages)
      BY <3>1
    <3>4. toServer' \in [Conns -> Seq(Messages)]
      BY <3>1, <3>3
    <3>5. Handler("book", m, FALSE) \in HandlerType
      BY DEF Handler, HandlerType
    <3>6. handler' = handler \/ handler' = [handler EXCEPT ![k] = Handler("book", m, FALSE)]
      <4>1. handler' = handler \/ handler' = [handler EXCEPT ![k] = @] \/ handler' = [handler EXCEPT ![k] = Handler("book", m, FALSE)]
        BY <2>1, <3>2 DEF HandlerRead
      <4> QED BY <4>1
    <3>7. handler' \in [Conns -> HandlerType]
      BY <3>5, <3>6
    <3> QED
      BY <2>1, <3>4, <3>7 DEF HandlerRead, rowVars, dataVars, reqVars, brokerVars, posVars, faultVars
  <2>2. CASE BookAck(k)
    BY <2>2 DEF BookAck, acknowledge_command, Handler, HandlerType, Statuses, dataVars, reqVars, wireVars, brokerVars, posVars, faultVars
  <2>3. CASE BookResult(k)
    <3>1. handler[k].msg \in Messages
      BY <2>3, HandType DEF BookResult
    <3>2. handler' \in [Conns -> HandlerType] /\ task' \in [Tasks -> TaskType]
      BY <2>3 DEF BookResult, Deliver, Handler, HandlerType
    <3>3. dbOpen' \subseteq Int /\ dbClosed' \subseteq Int
      BY <2>3, <3>1 DEF BookResult, record_agent_execution_result, Messages
    <3>4. status' \in [Cmds -> Statuses \cup {"NONE"}] /\ outcome' \in [Cmds -> Int]
      BY <2>3, <3>1 DEF BookResult, complete_command, fail_command, Messages, Statuses
    <3> QED
      BY <2>3, <3>2, <3>3, <3>4 DEF BookResult, reqVars, wireVars, brokerVars, faultVars
  <2>4. CASE HandlerEnd(k)
    BY <2>4 DEF HandlerEnd, Handler, HandlerType, rowVars, dataVars, reqVars, brokerVars, posVars, faultVars
  <2> QED
    BY <1>6, <2>1, <2>2, <2>3, <2>4 DEF HandlerStep
<1>7. CASE EAReceive
  <2> DEFINE c == Head(toAgent[ea])
  <2>1. ea \in Conns /\ toAgent[ea] \in Seq(Cmds) /\ toAgent[ea] # <<>>
    BY <1>7 DEF EAReceive
  <2>2. c \in Cmds /\ Tail(toAgent[ea]) \in Seq(Cmds)
    BY <2>1
  <2>3. PICK res : /\ HandleCommand(c, res)
                   /\ runs' = [runs EXCEPT ![c] = @ + 1]
                   /\ toServer' = [toServer EXCEPT ![ea] = @ \o <<Ack(c), res>>]
    BY <1>7 DEF EAReceive
  <2>4. /\ res \in Messages /\ tickets' \in Nat /\ brokerOpen' \subseteq 1 .. tickets'
        /\ placed' \subseteq 1 .. tickets' /\ taken' \subseteq 1 .. tickets'
    BY <2>2, <2>3, HandleCommandEffect
  <2>5. Ack(c) \in Messages
    BY <2>2 DEF Ack, Messages
  <2>6. <<Ack(c), res>> \in Seq(Messages)
    BY <2>4, <2>5
  <2>7. toServer[ea] \o <<Ack(c), res>> \in Seq(Messages)
    BY <2>1, <2>6
  <2>8. toServer' \in [Conns -> Seq(Messages)] /\ runs' \in [Cmds -> Nat]
    BY <2>1, <2>2, <2>3, <2>7
  <2>9. toAgent' \in [Conns -> Seq(Cmds)]
    BY <1>7, <2>1, <2>2 DEF EAReceive
  <2> QED
    BY <1>7, <2>4, <2>8, <2>9 DEF EAReceive, rowVars, dataVars, reqVars, posVars, faultVars
<1>8. ASSUME NEW t \in brokerOpen, BrokerClose(t) PROVE TypeOK'
  BY <1>8 DEF BrokerClose, rowVars, dataVars, reqVars, wireVars, posVars, faultVars
<1>11. ASSUME NEW n \in placed, ExecuteOrder(n) PROVE TypeOK'
  BY <1>11 DEF ExecuteOrder, rowVars, dataVars, reqVars, wireVars, posVars, faultVars
<1>9. CASE Drop
  BY <1>9 DEF Drop, rowVars, dataVars, reqVars, brokerVars, posVars
<1>10. CASE Crash
  <2>1. toAgent' \in [Conns -> Seq(Cmds)] /\ toServer' \in [Conns -> Seq(Messages)]
    BY <1>10 DEF Crash
  <2>2. handler' \in [Conns -> HandlerType]
    BY <1>10 DEF Crash, Handler, HandlerType
  <2>4. task' \in [Tasks -> TaskType]
    BY <1>10 DEF Crash, Idle
  <2>3. /\ creator' \in [Queued -> {"idle", "checkConnected", "checkInFlight", "done"}]
        /\ direct' \in [Direct -> DirectStates]
    BY <1>10 DEF Crash, DirectStates
  <2>5. /\ active' = NoConn /\ ea' = NoConn /\ crashes' = crashes + 1
        /\ UNCHANGED <<status, created, clock, target, outcome, runs, tickets, placed,
                       brokerOpen, taken, dbOpen, dbClosed, drops>>
    BY <1>10 DEF Crash, rowVars, dataVars, brokerVars, posVars
  <2> QED
    BY <2>1, <2>2, <2>3, <2>4, <2>5
<1> QED
  BY <1>1, <1>2, <1>3, <1>4, <1>5, <1>6, <1>7, <1>8, <1>9, <1>10, <1>11 DEF Next

-----------------------------------------------------------------------------
(* Messages stay truthful.                                                  *)

\* The broker only moves forward: a run is never undone, an order's number
\* never reused, an accepted close never forgotten.
BrokerForward ==
    /\ \A c \in Cmds : runs[c] > 0 => runs'[c] > 0
    /\ tickets' \in Nat /\ tickets' >= tickets
    /\ taken \subseteq taken'

\* Every step moves the broker forward, if at all (AurexisAgent.mq5's
\* HandleCommand places orders, and the broker never reuses their numbers).
LEMMA BrokerStep == TypeOK /\ [Next]_vars => BrokerForward
<1> SUFFICES ASSUME TypeOK, [Next]_vars PROVE BrokerForward
  OBVIOUS
<1> USE DEF TypeOK, BrokerForward
<1>1. CASE UNCHANGED brokerVars
  BY <1>1 DEF brokerVars
<1>2. CASE EAReceive
  <2> DEFINE c == Head(toAgent[ea])
  <2>1. c \in Cmds
    BY <1>2 DEF EAReceive
  <2>2. PICK res : HandleCommand(c, res) /\ runs' = [runs EXCEPT ![c] = @ + 1]
    BY <1>2 DEF EAReceive
  <2>3. tickets' \in Nat /\ tickets' >= tickets /\ taken \subseteq taken'
    BY <2>1, <2>2, HandleCommandEffect
  <2>4. \A d \in Cmds : runs[d] > 0 => runs'[d] > 0
    BY <2>1, <2>2
  <2> QED
    BY <2>3, <2>4
<1>3. ASSUME NEW t \in brokerOpen, BrokerClose(t) PROVE BrokerForward
  BY <1>3 DEF BrokerClose
<1>10. ASSUME NEW n \in placed, ExecuteOrder(n) PROVE BrokerForward
  BY <1>10 DEF ExecuteOrder
<1>4. ASSUME NEW c \in Queued, CreateStep(c) PROVE UNCHANGED brokerVars
  BY <1>4 DEF CreateStep, CreateCommit, CreateCheckConnected, CreateSpawn
<1>5. ASSUME NEW c \in Direct, DirectStep(c) PROVE UNCHANGED brokerVars
  BY <1>5 DEF DirectStep, DirectCreate, DirectSend, DirectCommit
<1>6. ASSUME NEW t \in Tasks, TaskStep(t) PROVE UNCHANGED brokerVars
  BY <1>6 DEF TaskStep, TaskSelect, TaskClaim, TaskSend, TaskRevertRead, TaskRevertWrite
<1>7. ASSUME NEW k \in Conns, Connect(k) \/ HandlerStep(k) PROVE UNCHANGED brokerVars
  BY <1>7 DEF Connect, HandlerStep, HandlerRead, BookAck, BookResult, HandlerEnd
<1>8. CASE Drop \/ Crash
  BY <1>1, <1>8 DEF Drop, Crash
<1>9. CASE UNCHANGED vars
  BY <1>1, <1>9 DEF vars, brokerVars
<1> QED
  BY <1>1, <1>2, <1>3, <1>4, <1>5, <1>6, <1>7, <1>8, <1>9, <1>10 DEF Next

\* Numbers are issued for good.
LEMMA IssuedGrows ==
    ASSUME TypeOK, BrokerForward
    PROVE  Issued \subseteq Issued'
<1>1. tickets \in Nat /\ tickets' \in Nat /\ tickets' >= tickets
  BY DEF TypeOK, BrokerForward
<1>2. ASSUME NEW n \in Int, n <= tickets, -n <= tickets PROVE n <= tickets' /\ -n <= tickets'
  BY <1>1, <1>2
<1> QED
  BY <1>2 DEF Issued

\* A truthful message stays truthful.
LEMMA TruthfulStable ==
    ASSUME TypeOK, BrokerForward, NEW m \in Messages, Truthful(m)
    PROVE  Truthful(m)'
<1>1. Issued \subseteq Issued'
  BY IssuedGrows
<1> QED
  BY <1>1 DEF BrokerForward, Truthful, Messages

\* What the EA adds to the wire is truthful.
LEMMA EAReports ==
    ASSUME TypeOK, WireTruthful, EAReceive
    PROVE  WireTruthful'
<1> DEFINE s == toServer[ea]
<1>0. PICK c \in Cmds : c = Head(toAgent[ea])
  BY DEF EAReceive, TypeOK
<1>1. ea \in Conns /\ c \in Cmds /\ s \in Seq(Messages)
  BY DEF EAReceive, TypeOK
<1>2. PICK res : /\ HandleCommand(c, res)
                 /\ runs' = [runs EXCEPT ![c] = @ + 1]
                 /\ toServer' = [toServer EXCEPT ![ea] = @ \o <<Ack(c), res>>]
  BY <1>0 DEF EAReceive
<1>3. BrokerForward
  BY BrokerStep DEF Next
<1>4. runs'[c] > 0
  BY <1>1, <1>2 DEF TypeOK
<1>5. Truthful(res)' /\ res \in Messages
  BY <1>1, <1>2, <1>4, HandleCommandEffect DEF Truthful
<1>6. Truthful(Ack(c))' /\ Ack(c) \in Messages
  BY <1>1, <1>4 DEF Truthful, Ack, Messages
<1>7. ASSUME NEW k \in Conns, NEW i \in 1 .. Len(toServer'[k])
      PROVE  Truthful(toServer[k][i])'
  <2>1. CASE k # ea
    <3>1. toServer'[k] = toServer[k] /\ toServer[k] \in Seq(Messages)
      BY <1>2, <2>1, <1>7 DEF TypeOK
    <3>2. Truthful(toServer[k][i]) /\ toServer[k][i] \in Messages
      BY <1>7, <3>1 DEF WireTruthful
    <3>3. PICK m \in Messages : m = toServer[k][i] /\ Truthful(m)
      BY <3>2
    <3>4. Truthful(m)'
      BY <1>3, <3>3, TruthfulStable
    <3> QED
      BY <3>1, <3>3, <3>4 DEF Truthful
  <2>2. CASE k = ea
    <3>1. toServer'[k] = s \o <<Ack(c), res>>
      BY <1>1, <1>2, <2>2 DEF TypeOK
    <3>2. CASE i \in 1 .. Len(s)
      <4>1. toServer'[k][i] = s[i] /\ s[i] \in Messages
        BY <1>1, <3>1, <3>2
      <4>2. PICK m \in Messages : m = s[i] /\ Truthful(m)
        BY <1>1, <3>2, <4>1 DEF WireTruthful
      <4>3. Truthful(m)'
        BY <1>3, <4>2, TruthfulStable
      <4> QED
        BY <4>1, <4>2, <4>3 DEF Truthful
    <3>3. CASE i = Len(s) + 1
      <4>1. toServer'[k][i] = Ack(c)
        BY <1>1, <3>1, <3>3
      <4> QED
        BY <4>1, <1>6 DEF Truthful
    <3>4. CASE i = Len(s) + 2
      <4>1. toServer'[k][i] = res
        BY <1>1, <3>1, <3>4
      <4> QED
        BY <4>1, <1>5 DEF Truthful
    <3>5. Len(toServer'[k]) = Len(s) + 2
      BY <1>1, <3>1
    <3> QED
      BY <1>1, <1>7, <3>2, <3>3, <3>4, <3>5
  <2> QED
    BY <2>1, <2>2
<1> QED
  BY <1>7 DEF WireTruthful

\* A step that only takes messages off the wire leaves it truthful.
LEMMA WireKept ==
    ASSUME TypeOK, WireTruthful, BrokerForward,
           \A k \in Conns : \A i \in 1 .. Len(toServer'[k]) :
               \E j \in 1 .. Len(toServer[k]) : toServer'[k][i] = toServer[k][j]
    PROVE  WireTruthful'
<1>1. ASSUME NEW k \in Conns, NEW i \in 1 .. Len(toServer'[k])
      PROVE  Truthful(toServer[k][i])'
  <2>1. PICK j \in 1 .. Len(toServer[k]) : toServer'[k][i] = toServer[k][j]
    BY <1>1
  <2>2. PICK m \in Messages : m = toServer[k][j] /\ Truthful(m)
    BY <1>1, <2>1 DEF WireTruthful, TypeOK
  <2>3. Truthful(m)'
    BY <2>2, TruthfulStable
  <2> QED
    BY <2>1, <2>2, <2>3 DEF Truthful
<1> QED
  BY <1>1 DEF WireTruthful

\* A handler holds a message it took from its own wire, or none.
LEMMA HandKept ==
    ASSUME TypeOK, WireTruthful, HandTruthful, BrokerForward,
           \A k \in Conns : handler'[k].pc = "book" =>
               \/ handler[k].pc = "book" /\ handler'[k].msg = handler[k].msg
               \/ \E j \in 1 .. Len(toServer[k]) : handler'[k].msg = toServer[k][j]
    PROVE  HandTruthful'
<1>1. ASSUME NEW k \in Conns, handler'[k].pc = "book"
      PROVE  handler'[k].msg \in Messages /\ Truthful(handler[k].msg)'
  <2>1. PICK m \in Messages : m = handler'[k].msg /\ Truthful(m)
    <3>1. CASE handler[k].pc = "book" /\ handler'[k].msg = handler[k].msg
      BY <1>1, <3>1 DEF HandTruthful
    <3>2. ASSUME NEW j \in 1 .. Len(toServer[k]), handler'[k].msg = toServer[k][j]
          PROVE  \E m \in Messages : m = handler'[k].msg /\ Truthful(m)
      <4>1. toServer[k][j] \in Messages
        BY <3>2 DEF TypeOK
      <4> QED
        BY <1>1, <3>2, <4>1 DEF WireTruthful
    <3> QED
      BY <1>1, <3>1, <3>2
  <2>2. Truthful(m)'
    BY <2>1, TruthfulStable
  <2> QED
    BY <2>1, <2>2 DEF Truthful
<1> QED
  BY <1>1 DEF HandTruthful

\* No step puts an untruthful message on the wire or into a handler's hands.
LEMMA MessagesStep ==
    TypeOK /\ WireTruthful /\ HandTruthful /\ [Next]_vars => WireTruthful' /\ HandTruthful'
<1> SUFFICES ASSUME TypeOK, WireTruthful, HandTruthful, [Next]_vars
             PROVE  WireTruthful' /\ HandTruthful'
  OBVIOUS
<1>0. BrokerForward
  BY BrokerStep
<1>1. CASE UNCHANGED <<toServer, handler>>
  BY <1>0, <1>1, WireKept, HandKept DEF TypeOK
<1>2. ASSUME NEW c \in Queued, CreateStep(c) PROVE UNCHANGED <<toServer, handler>>
  BY <1>2 DEF CreateStep, CreateCommit, CreateCheckConnected, CreateSpawn, wireVars
<1>3. ASSUME NEW c \in Direct, DirectStep(c) PROVE UNCHANGED <<toServer, handler>>
  BY <1>3 DEF DirectStep, DirectCreate, DirectSend, DirectCommit, wireVars
<1>4. ASSUME NEW t \in Tasks, TaskStep(t) PROVE UNCHANGED <<toServer, handler>>
  BY <1>4 DEF TaskStep, TaskSelect, TaskClaim, TaskSend, TaskRevertRead, TaskRevertWrite, wireVars
<1>5. ASSUME NEW t \in brokerOpen, BrokerClose(t) PROVE UNCHANGED <<toServer, handler>>
  BY <1>5 DEF BrokerClose, wireVars
<1>11. ASSUME NEW n \in placed, ExecuteOrder(n) PROVE UNCHANGED <<toServer, handler>>
  BY <1>11 DEF ExecuteOrder, wireVars
<1>6. CASE Drop \/ UNCHANGED vars
  BY <1>1, <1>6 DEF Drop, vars
<1>7. CASE EAReceive
  BY <1>0, <1>7, EAReports, HandKept DEF EAReceive, TypeOK
<1>8. ASSUME NEW k \in Conns, Connect(k) PROVE WireTruthful' /\ HandTruthful'
  <2>1. toServer' = toServer
    BY <1>8 DEF Connect, wireVars
  <2>2. \A h \in Conns : handler'[h].pc = "book" =>
            handler[h].pc = "book" /\ handler'[h].msg = handler[h].msg
    BY <1>8 DEF Connect, Handler
  <2> QED
    BY <1>0, <2>1, <2>2, WireKept, HandKept DEF TypeOK
<1>9. ASSUME NEW k \in Conns, HandlerStep(k) PROVE WireTruthful' /\ HandTruthful'
  <2>1. CASE HandlerRead(k)
    <3>1. toServer[k] \in Seq(Messages) /\ toServer[k] # <<>>
      BY <2>1 DEF HandlerRead, TypeOK
    <3>2. /\ Len(toServer[k]) >= 1
          /\ Head(toServer[k]) = toServer[k][1]
          /\ Len(Tail(toServer[k])) = Len(toServer[k]) - 1
          /\ \A i \in 1 .. Len(toServer[k]) - 1 : Tail(toServer[k])[i] = toServer[k][i + 1]
      BY <3>1
    <3>3. \A h \in Conns : \A i \in 1 .. Len(toServer'[h]) :
             \E j \in 1 .. Len(toServer[h]) : toServer'[h][i] = toServer[h][j]
      <4> SUFFICES ASSUME NEW h \in Conns, NEW i \in 1 .. Len(toServer'[h])
                   PROVE  \E j \in 1 .. Len(toServer[h]) : toServer'[h][i] = toServer[h][j]
        OBVIOUS
      <4>1. CASE h # k
        BY <2>1, <4>1 DEF HandlerRead, TypeOK
      <4>2. CASE h = k
        <5>1. toServer'[h] = Tail(toServer[k])
          BY <2>1, <4>2 DEF HandlerRead, TypeOK
        <5>2. i \in 1 .. Len(toServer[k]) - 1
          BY <3>2, <5>1
        <5>3. i + 1 \in 1 .. Len(toServer[k]) /\ toServer'[h][i] = toServer[h][i + 1]
          BY <3>1, <3>2, <4>2, <5>1, <5>2
        <5> QED
          BY <4>2, <5>3
      <4> QED
        BY <4>1, <4>2
    <3>4. \A h \in Conns : handler'[h].pc = "book" =>
             \/ handler[h].pc = "book" /\ handler'[h].msg = handler[h].msg
             \/ \E j \in 1 .. Len(toServer[h]) : handler'[h].msg = toServer[h][j]
      <4>1. \A h \in Conns : h # k => handler'[h] = handler[h]
        BY <2>1 DEF HandlerRead, TypeOK
      <4>2. \/ handler'[k] = Handler("book", Head(toServer[k]), FALSE)
            \/ handler'[k] = handler[k]
        BY <2>1 DEF HandlerRead, TypeOK
      <4>3. handler'[k] = handler[k] \/ handler'[k].msg = toServer[k][1]
        BY <3>2, <4>2 DEF Handler
      <4> QED
        BY <3>1, <3>2, <4>1, <4>3
    <3> QED
      BY <1>0, <3>3, <3>4, WireKept, HandKept
  <2>2. CASE BookAck(k) \/ BookResult(k)
    <3>1. toServer' = toServer
      BY <2>2 DEF BookAck, BookResult, wireVars
    <3>2. handler' = [handler EXCEPT ![k] = Handler("serve", NoMsg, @.replaced)]
      BY <2>2 DEF BookAck, BookResult
    <3>3. \A h \in Conns : handler'[h].pc = "book" => handler'[h] = handler[h]
      BY <3>2 DEF Handler, TypeOK
    <3> QED
      BY <1>0, <3>1, <3>3, WireKept, HandKept DEF TypeOK
  <2>3. CASE HandlerEnd(k)
    <3>1. \A h \in Conns : handler'[h].pc = "book" => handler'[h] = handler[h]
      BY <2>3 DEF HandlerEnd, Handler, TypeOK
    <3>2. \A h \in Conns : toServer'[h] = toServer[h] \/ toServer'[h] = <<>>
      BY <2>3 DEF HandlerEnd, TypeOK
    <3>3. \A h \in Conns : \A i \in 1 .. Len(toServer'[h]) :
             \E j \in 1 .. Len(toServer[h]) : toServer'[h][i] = toServer[h][j]
      BY <3>2
    <3> QED
      BY <1>0, <3>1, <3>3, WireKept, HandKept
  <2> QED
    BY <1>9, <2>1, <2>2, <2>3 DEF HandlerStep
<1>10. CASE Crash
  <2>1. \A k \in Conns : toServer'[k] = <<>> /\ handler'[k].pc # "book"
    BY <1>10 DEF Crash, Handler
  <2> QED
    BY <2>1 DEF WireTruthful, HandTruthful
<1> QED
  BY <1>1, <1>2, <1>3, <1>4, <1>5, <1>6, <1>7, <1>8, <1>9, <1>10, <1>11 DEF Next

-----------------------------------------------------------------------------
(* The tables.                                                              *)

Tables == OutcomesReported /\ PositionsTraceable /\ CompletedOpensHaveRows

\* A step that books no outcome from the EA keeps the tables right, whatever
\* claims, reverts or faults it consists of.
LEMMA TablesKept ==
    ASSUME TypeOK, Tables, BrokerForward,
           UNCHANGED <<outcome, dbOpen, dbClosed>>,
           \A c \in Cmds : \/ status'[c] = status[c]
                           \/ status'[c] \in {"PENDING", "SENT"}
                           \/ status'[c] = "FAILED" /\ c \in Strategy
    PROVE  Tables'
<1>1. OutcomesReported'
  BY DEF Tables, OutcomesReported, BrokerForward
<1>2. PositionsTraceable'
  <2>1. Issued \subseteq Issued' /\ taken \subseteq taken'
    BY IssuedGrows DEF BrokerForward
  <2> QED
    BY <2>1 DEF Tables, PositionsTraceable
<1>3. CompletedOpensHaveRows'
  BY DEF Tables, CompletedOpensHaveRows
<1> QED
  BY <1>1, <1>2, <1>3 DEF Tables

\* Booking an acknowledgement.
LEMMA BookAckTables ==
    ASSUME IInv, NEW k \in Conns, BookAck(k)
    PROVE  Tables'
<1> DEFINE c == handler[k].msg.cmd
<1>1. c \in Cmds /\ runs[c] > 0
  BY DEF BookAck, IInv, HandTruthful, Truthful, Messages
<1>2. /\ status' = [status EXCEPT ![c] = "ACKNOWLEDGED"]
      /\ UNCHANGED <<outcome, dbOpen, dbClosed, runs, tickets, taken>>
  BY DEF BookAck, acknowledge_command, dataVars, posVars, brokerVars
<1>3. \A d \in Cmds : status'[d] = status[d] \/ (d = c /\ status'[d] = "ACKNOWLEDGED")
  BY <1>1, <1>2 DEF IInv, TypeOK
<1>4. OutcomesReported'
  BY <1>1, <1>2, <1>3 DEF IInv, OutcomesReported
<1>5. PositionsTraceable' /\ CompletedOpensHaveRows'
  BY <1>2, <1>3 DEF IInv, PositionsTraceable, CompletedOpensHaveRows, Issued
<1> QED
  BY <1>4, <1>5 DEF Tables

\* Booking a result: the status, the result and the position rows together.
LEMMA BookResultTables ==
    ASSUME IInv, NEW k \in Conns, BookResult(k)
    PROVE  Tables'
<1> DEFINE m == handler[k].msg
           c == m.cmd
<1>1. /\ m \in Messages /\ c \in Cmds /\ runs[c] > 0 /\ m.type = "result"
      /\ m.ok /\ Kind[c] = "OPEN" => m.ticket \in Issued
      /\ m.ok /\ Kind[c] = "CLOSE" => m.ticket \in taken
  BY DEF BookResult, IInv, HandTruthful, Truthful, Messages
<1>2. /\ status' = [status EXCEPT ![c] = IF m.ok THEN "COMPLETED" ELSE "FAILED"]
      /\ outcome' = IF m.ok THEN [outcome EXCEPT ![c] = m.ticket] ELSE outcome
      /\ UNCHANGED <<runs, tickets, taken>>
  BY DEF BookResult, complete_command, fail_command, brokerVars
<1>3. record_agent_execution_result(m)
  BY DEF BookResult
<1>4. OutcomesReported'
  <2>1. \A d \in Cmds : d # c => status'[d] = status[d]
    BY <1>1, <1>2 DEF IInv, TypeOK
  <2> QED
    BY <1>1, <1>2, <2>1 DEF IInv, OutcomesReported
<1>5. PositionsTraceable'
  <2>0. Issued' = Issued /\ taken' = taken
    BY <1>2 DEF Issued
  <2>1. CASE m.ok /\ Kind[c] = "OPEN"
    BY <1>1, <1>3, <2>0, <2>1 DEF IInv, PositionsTraceable, record_agent_execution_result
  <2>2. CASE m.ok /\ Kind[c] = "CLOSE"
    BY <1>1, <1>3, <2>0, <2>2 DEF IInv, PositionsTraceable, record_agent_execution_result
  <2>3. CASE ~m.ok \/ Kind[c] \notin {"OPEN", "CLOSE"}
    BY <1>3, <2>0, <2>3 DEF IInv, PositionsTraceable, record_agent_execution_result
  <2> QED
    BY <2>1, <2>2, <2>3
<1>6. CompletedOpensHaveRows'
  <2>1. dbOpen \cup dbClosed \subseteq (dbOpen \cup dbClosed)'
    BY <1>3 DEF record_agent_execution_result
  <2>2. ASSUME NEW d \in Cmds, status'[d] = "COMPLETED", Kind[d] = "OPEN"
        PROVE  outcome'[d] \in (dbOpen \cup dbClosed)'
    <3>1. CASE d # c
      <4>1. status'[d] = status[d] /\ outcome'[d] = outcome[d]
        BY <1>1, <1>2, <3>1 DEF IInv, TypeOK
      <4> QED
        BY <2>1, <2>2, <4>1 DEF IInv, CompletedOpensHaveRows
    <3>2. CASE d = c
      <4>1. status'[c] = IF m.ok THEN "COMPLETED" ELSE "FAILED"
        BY <1>1, <1>2 DEF IInv, TypeOK
      <4>2. m.ok
        BY <2>2, <3>2, <4>1
      <4>3. outcome'[c] = m.ticket
        BY <1>1, <1>2, <4>2 DEF IInv, TypeOK
      <4>4. m.ticket \in (dbOpen \cup dbClosed)'
        BY <1>1, <1>3, <2>2, <3>2, <4>2 DEF record_agent_execution_result
      <4> QED
        BY <3>2, <4>3, <4>4
    <3> QED
      BY <3>1, <3>2
  <2> QED
    BY <2>2 DEF CompletedOpensHaveRows
<1> QED
  BY <1>4, <1>5, <1>6 DEF Tables

\* Every step keeps the command and position tables truthful about the broker
\* (agent_ws.py's result handler and execution_service.py are the only writers).
LEMMA TablesStep == IInv /\ [Next]_vars => Tables'
<1> SUFFICES ASSUME IInv, [Next]_vars PROVE Tables'
  OBVIOUS
<1>0. TypeOK /\ Tables /\ BrokerForward
  BY BrokerStep DEF IInv, Tables
<1>1. CASE UNCHANGED <<status, outcome, dbOpen, dbClosed>>
  BY <1>0, <1>1, TablesKept
<1>2. ASSUME NEW c \in Queued, CreateStep(c) PROVE Tables'
  <2>1. /\ UNCHANGED <<outcome, dbOpen, dbClosed>>
        /\ status' = status \/ status' = [status EXCEPT ![c] = "PENDING"]
    BY <1>2 DEF CreateStep, CreateCommit, CreateCheckConnected, CreateSpawn, rowVars, dataVars, posVars
  <2>2. \A d \in Cmds : status'[d] = status[d] \/ status'[d] = "PENDING"
    BY <1>0, <2>1 DEF TypeOK
  <2> QED
    BY <1>0, <2>1, <2>2, TablesKept
<1>3. ASSUME NEW c \in Direct, DirectStep(c) PROVE Tables'
  <2>1. CASE DirectCreate(c) \/ DirectSend(c)
    BY <1>1, <2>1 DEF DirectCreate, DirectSend, rowVars, dataVars, posVars
  <2>2. CASE DirectCommit(c)
    <3>1. UNCHANGED <<outcome, dbOpen, dbClosed>>
      BY <2>2 DEF DirectCommit, dataVars, posVars
    <3>2. \A d \in Cmds : \/ status'[d] = status[d]
                          \/ status'[d] \in {"PENDING", "SENT"}
                          \/ status'[d] = "FAILED" /\ d \in Strategy
      BY <1>0, <2>2 DEF DirectCommit, TypeOK
    <3> QED
      BY <1>0, <3>1, <3>2, TablesKept
  <2> QED
    BY <1>3, <2>1, <2>2 DEF DirectStep
<1>4. ASSUME NEW t \in Tasks, TaskStep(t) PROVE Tables'
  <2>1. /\ UNCHANGED <<outcome, dbOpen, dbClosed>>
        /\ \A d \in Cmds : status'[d] = status[d] \/ status'[d] \in {"PENDING", "SENT"}
    BY <1>4 DEF TaskStep, TaskSelect, TaskClaim, TaskSend, TaskRevertRead, TaskRevertWrite,
                rowVars, dataVars, posVars
  <2> QED
    BY <1>0, <2>1, TablesKept
<1>5. ASSUME NEW k \in Conns, Connect(k) \/ HandlerStep(k) PROVE Tables'
  <2>1. CASE Connect(k) \/ HandlerRead(k) \/ HandlerEnd(k)
    BY <1>1, <2>1 DEF Connect, HandlerRead, HandlerEnd, rowVars, dataVars, posVars
  <2> QED
    BY <1>5, <2>1, BookAckTables, BookResultTables DEF HandlerStep
<1>6. ASSUME NEW t \in brokerOpen, BrokerClose(t) PROVE Tables'
  BY <1>1, <1>6 DEF BrokerClose, rowVars, dataVars, posVars
<1>8. ASSUME NEW n \in placed, ExecuteOrder(n) PROVE Tables'
  BY <1>1, <1>8 DEF ExecuteOrder, rowVars, dataVars, posVars
<1>7. CASE EAReceive \/ Drop \/ Crash \/ UNCHANGED vars
  BY <1>1, <1>7 DEF EAReceive, Drop, Crash, vars, rowVars, dataVars, posVars
<1> QED
  BY <1>2, <1>3, <1>4, <1>5, <1>6, <1>7, <1>8 DEF Next

-----------------------------------------------------------------------------
\* The inductive invariant holds in the initial states: empty tables, no connection.
LEMMA InitIInv == Init => IInv
<1> SUFFICES ASSUME Init PROVE IInv
  OBVIOUS
<1>1. TypeOK
  BY DEF Init, TypeOK, Idle, TaskType, Handler, HandlerType, DirectStates
<1>2. WireTruthful /\ HandTruthful
  BY DEF Init, WireTruthful, HandTruthful, Handler
<1>3. OutcomesReported /\ PositionsTraceable /\ CompletedOpensHaveRows
  BY DEF Init, OutcomesReported, PositionsTraceable, CompletedOpensHaveRows
<1> QED
  BY <1>1, <1>2, <1>3 DEF IInv

\* The inductive invariant is preserved by every step of the server, the EA and the network.
LEMMA StepIInv == IInv /\ [Next]_vars => IInv'
BY TypeStep, MessagesStep, TablesStep DEF IInv, Tables

\* The inductive invariant holds in every reachable state.
THEOREM Invariance == Spec => []IInv
BY InitIInv, StepIInv, PTL DEF Spec

\* Every variable of the command channel keeps its type.
THEOREM TypeCorrect == Spec => []TypeOK
BY Invariance, PTL DEF IInv

\* No row of the command table claims an outcome the EA did not produce.
THEOREM OutcomesCorrect == Spec => []OutcomesReported
BY Invariance, PTL DEF IInv

\* The positions table names only numbers of orders the EA has placed, each
\* once, and calls CLOSED only what the broker has taken a close of.
THEOREM PositionsCorrect == Spec => []PositionsTraceable
BY Invariance, PTL DEF IInv

\* A completed OPEN has its position row.
THEOREM CompletedCorrect == Spec => []CompletedOpensHaveRows
BY Invariance, PTL DEF IInv
-----------------------------------------------------------------------------
(* A strategy command is run at most once.                                 *)

\* No delivery task has the command in hand or will find it.
NotClaimed(c) == status[c] # "PENDING" /\ \A t \in Tasks : c \notin task[t].batch

\* The command is on no wire to the EA, or in one place of one wire.
Away(c)  == \A k \in Conns : \A i \in 1 .. Len(toAgent[k]) : toAgent[k][i] # c
OneCopy(c) ==
    \A k, l \in Conns : \A i \in 1 .. Len(toAgent[k]), j \in 1 .. Len(toAgent[l]) :
        toAgent[k][i] = c /\ toAgent[l][j] = c => k = l /\ i = j

\* It has been sent at most once, by its own request.
SentOnce(c) ==
    /\ OneCopy(c)
    /\ runs[c] = 0 \/ (runs[c] = 1 /\ Away(c))
    /\ direct[c] \in {"idle", "flushed"} => runs[c] = 0 /\ Away(c)

Once == \A c \in Strategy : NotClaimed(c) /\ SentOnce(c)

\* A strategy command comes from no other route.
LEMMA StrategyOnly ==
    ASSUME NEW c \in Strategy
    PROVE  c \in Cmds /\ c \in Direct /\ c \notin Queued /\ c \notin Demo
BY SourcesDisjoint

\* claim_pending_commands never picks it up, and no other write of the status
\* column makes it PENDING.
LEMMA NotClaimedStep ==
    ASSUME TypeOK, [Next]_vars, NEW c \in Strategy, NotClaimed(c)
    PROVE  NotClaimed(c)'
<1>0. c \in Cmds /\ c \in Direct /\ c \notin Queued /\ c \notin Demo
  BY StrategyOnly
<1>1. /\ status \in [Cmds -> Statuses \cup {"NONE"}] /\ task \in [Tasks -> TaskType]
      /\ status[c] # "PENDING" /\ \A t \in Tasks : c \notin task[t].batch
  BY DEF TypeOK, NotClaimed
<1>2. ASSUME UNCHANGED <<status, task>> PROVE NotClaimed(c)'
  BY <1>1, <1>2 DEF NotClaimed
<1>3. ASSUME NEW d \in Queued, CreateStep(d) PROVE NotClaimed(c)'
  <2>1. CASE CreateCommit(d)
    BY <1>0, <1>1, <2>1 DEF CreateCommit, NotClaimed
  <2>2. CASE CreateCheckConnected(d)
    BY <1>2, <2>2 DEF CreateCheckConnected, rowVars
  <2>3. CASE CreateSpawn(d)
    <3>1. status' = status /\ (task' = task \/ task' = [task EXCEPT ![d] = Deliver])
      BY <2>3 DEF CreateSpawn, rowVars
    <3> QED BY <1>1, <3>1 DEF NotClaimed, Deliver
  <2> QED BY <1>3, <2>1, <2>2, <2>3 DEF CreateStep
<1>4. ASSUME NEW d \in Direct, DirectStep(d) PROVE NotClaimed(c)'
  <2>1. CASE DirectCreate(d) \/ DirectSend(d)
    BY <1>2, <2>1 DEF DirectCreate, DirectSend, rowVars
  <2>2. CASE DirectCommit(d)
    BY <1>0, <1>1, <2>2 DEF DirectCommit, NotClaimed
  <2> QED BY <1>4, <2>1, <2>2 DEF DirectStep
<1>5. ASSUME NEW t \in Tasks, TaskStep(t) PROVE NotClaimed(c)'
  <2>1. CASE TaskSelect(t)
    <3>1. c \notin claim_pending_commands
      BY <1>1 DEF claim_pending_commands
    <3>2. PICK b : b = IF claim_pending_commands = {} THEN Idle
                       ELSE [pc |-> "claim", batch |-> claim_pending_commands]
      OBVIOUS
    <3>3. c \notin b.batch
      BY <3>1, <3>2 DEF Idle
    <3>4. status' = status /\ task' = [task EXCEPT ![t] = b]
      BY <2>1, <3>2 DEF TaskSelect, rowVars
    <3> QED BY <1>1, <3>3, <3>4 DEF NotClaimed
  <2>2. CASE TaskClaim(t)
    <3>1. status'[c] = status[c]
      BY <1>0, <1>1, <2>2 DEF TaskClaim
    <3>2. \A u \in Tasks : task'[u].batch = task[u].batch
      BY <1>1, <2>2 DEF TaskClaim, TaskType
    <3> QED BY <1>1, <3>1, <3>2 DEF NotClaimed
  <2>3. CASE TaskSend(t)
    <3>1. status' = status
      BY <2>3 DEF TaskSend, rowVars
    <3>2. PICK d \in task[t].batch, delivered \in BOOLEAN :
             task' = [task EXCEPT ![t] =
                        IF ~delivered THEN [pc |-> "revertRead", batch |-> {d}]
                        ELSE IF task[t].batch = {d} THEN Idle
                        ELSE [pc |-> "send", batch |-> task[t].batch \ {d}]]
      BY <2>3 DEF TaskSend
    <3>3. task'[t].batch \subseteq task[t].batch
      BY <1>1, <3>2 DEF Idle
    <3>4. \A u \in Tasks : u # t => task'[u] = task[u]
      BY <1>1, <3>2
    <3> QED BY <1>1, <3>1, <3>3, <3>4 DEF NotClaimed
  <2>4. CASE TaskRevertRead(t)
    <3>1. status' = status
      BY <2>4 DEF TaskRevertRead, rowVars
    <3>2. task'[t].batch \subseteq task[t].batch /\ \A u \in Tasks : u # t => task'[u] = task[u]
      BY <1>1, <2>4 DEF TaskRevertRead, Idle
    <3> QED BY <1>1, <3>1, <3>2 DEF NotClaimed
  <2>5. CASE TaskRevertWrite(t)
    <3>1. status'[c] = status[c]
      BY <1>0, <1>1, <2>5 DEF TaskRevertWrite
    <3>2. \A u \in Tasks : c \notin task'[u].batch
      BY <1>1, <2>5 DEF TaskRevertWrite, Idle
    <3> QED BY <1>1, <3>1, <3>2 DEF NotClaimed
  <2> QED BY <1>5, <2>1, <2>2, <2>3, <2>4, <2>5 DEF TaskStep
<1>6. ASSUME NEW k \in Conns, Connect(k) \/ HandlerStep(k) PROVE NotClaimed(c)'
  <2>0. k \in Tasks
    OBVIOUS
  <2>1. CASE Connect(k)
    BY <1>1, <2>0, <2>1 DEF Connect, rowVars, Deliver, NotClaimed
  <2>2. CASE HandlerRead(k) \/ HandlerEnd(k)
    BY <1>2, <2>2 DEF HandlerRead, HandlerEnd, rowVars
  <2>3. CASE BookAck(k)
    BY <1>0, <1>1, <2>3 DEF BookAck, acknowledge_command, NotClaimed
  <2>4. CASE BookResult(k)
    <3>1. status'[c] # "PENDING"
      BY <1>0, <1>1, <2>4 DEF BookResult, complete_command, fail_command
    <3>2. \A u \in Tasks : c \notin task'[u].batch
      BY <1>1, <2>0, <2>4 DEF BookResult, Deliver
    <3> QED BY <3>1, <3>2 DEF NotClaimed
  <2> QED BY <1>6, <2>1, <2>2, <2>3, <2>4 DEF HandlerStep
<1>7. CASE EAReceive \/ (\E t \in brokerOpen : BrokerClose(t)) \/ (\E n \in placed : ExecuteOrder(n)) \/ Drop
  BY <1>2, <1>7 DEF EAReceive, BrokerClose, ExecuteOrder, Drop, rowVars
<1>8. CASE Crash
  BY <1>1, <1>8 DEF Crash, rowVars, Idle, NotClaimed
<1>9. CASE UNCHANGED vars
  BY <1>2, <1>9 DEF vars
<1> QED
  BY <1>3, <1>4, <1>5, <1>6, <1>7, <1>8, <1>9 DEF Next

\* A step that touches neither the wires nor the EA, nor sets the request back.
LEMMA SentOnceKept ==
    ASSUME NEW c \in Strategy, SentOnce(c), UNCHANGED <<toAgent, runs>>,
           direct'[c] \in {"idle", "flushed"} => direct[c] \in {"idle", "flushed"}
    PROVE  SentOnce(c)'
BY DEF SentOnce, OneCopy, Away

\* A broken socket loses what was on its wire (Drop, Crash).
LEMMA SentOnceLost ==
    ASSUME NEW c \in Strategy, SentOnce(c), UNCHANGED runs,
           \A k \in Conns : toAgent'[k] = toAgent[k] \/ toAgent'[k] = << >>,
           direct'[c] \in {"idle", "flushed"} => direct[c] \in {"idle", "flushed"}
    PROVE  SentOnce(c)'
<1>1. Away(c) => Away(c)'
  BY DEF Away
<1>2. OneCopy(c)'
  BY DEF SentOnce, OneCopy
<1> QED BY <1>1, <1>2 DEF SentOnce

\* send_json of another command, or of this one by its request.
LEMMA SentOnceSend ==
    ASSUME TypeOK, NEW c \in Strategy, SentOnce(c), NEW d \in Cmds, NEW delivered \in BOOLEAN,
           send_json(d, delivered), UNCHANGED runs,
           \/ d # c /\ (direct'[c] \in {"idle", "flushed"} => direct[c] \in {"idle", "flushed"})
           \/ d = c /\ direct[c] = "flushed" /\ direct'[c] \notin {"idle", "flushed"}
    PROVE  SentOnce(c)'
<1>1. CASE toAgent' = toAgent
  BY <1>1, SentOnceKept
<1>2. CASE active # NoConn /\ active = ea
  <2>1. active \in Conns /\ toAgent \in [Conns -> Seq(Cmds)] /\ toAgent' = [toAgent EXCEPT ![active] = Append(@, d)]
    BY <1>2 DEF TypeOK, send_json
  <2>2. PICK n \in Nat : n = Len(toAgent[active])
    BY <2>1
  <2>3. /\ Len(toAgent'[active]) = n + 1 /\ toAgent'[active][n + 1] = d
        /\ \A i \in 1 .. n : toAgent'[active][i] = toAgent[active][i]
        /\ \A k \in Conns : k # active => toAgent'[k] = toAgent[k]
    BY <2>1, <2>2
  <2>4. 1 .. (n + 1) = (1 .. n) \cup {n + 1}
    OBVIOUS
  <2>5. CASE d # c
    <3>1. ASSUME NEW k \in Conns, NEW i \in 1 .. Len(toAgent'[k]), toAgent'[k][i] = c
          PROVE  i \in 1 .. Len(toAgent[k]) /\ toAgent[k][i] = c
      <4>1. CASE k # active
        BY <2>3, <3>1, <4>1
      <4>2. CASE k = active
        BY <2>2, <2>3, <2>4, <2>5, <3>1, <4>2
      <4> QED BY <4>1, <4>2
    <3>2. Away(c) => Away(c)'
      BY <3>1 DEF Away
    <3>3. OneCopy(c)'
      BY <3>1 DEF OneCopy, SentOnce
    <3> QED BY <2>5, <3>2, <3>3 DEF SentOnce
  <2>6. CASE d = c
    <3>1. direct[c] = "flushed" /\ direct'[c] \notin {"idle", "flushed"}
      BY <2>6
    <3>2. runs[c] = 0 /\ Away(c)
      BY <3>1 DEF SentOnce
    <3>3. ASSUME NEW k \in Conns, NEW i \in 1 .. Len(toAgent'[k]), toAgent'[k][i] = c
          PROVE  k = active /\ i = n + 1
      <4>1. CASE k # active
        BY <2>3, <3>2, <3>3, <4>1 DEF Away
      <4>2. CASE k = active
        BY <2>2, <2>3, <2>4, <3>2, <3>3, <4>2 DEF Away
      <4> QED BY <4>1, <4>2
    <3>4. OneCopy(c)'
      BY <3>3 DEF OneCopy
    <3> QED BY <3>1, <3>2, <3>4 DEF SentOnce
  <2> QED BY <2>5, <2>6
<1> QED BY <1>1, <1>2 DEF send_json

\* The EA takes the first command off its wire and runs it.
LEMMA SentOnceRun ==
    ASSUME TypeOK, NEW c \in Strategy, SentOnce(c), EAReceive
    PROVE  SentOnce(c)'
<1>0. c \in Cmds
  BY StrategyOnly
<1>1. /\ ea \in Conns /\ toAgent \in [Conns -> Seq(Cmds)] /\ runs \in [Cmds -> Nat]
      /\ toAgent[ea] # << >> /\ toAgent' = [toAgent EXCEPT ![ea] = Tail(@)] /\ direct' = direct
      /\ runs' = [runs EXCEPT ![Head(toAgent[ea])] = @ + 1]
  BY DEF EAReceive, TypeOK, reqVars
<1>2. PICK q \in Seq(Cmds) : q = toAgent[ea]
  BY <1>1
<1>3. Len(q) \in Nat /\ Len(q) >= 1 /\ 1 \in 1 .. Len(q) /\ Head(q) = q[1] /\ q[1] \in Cmds
  BY <1>1, <1>2
<1>4. /\ Len(Tail(q)) = Len(q) - 1
      /\ \A i \in 1 .. Len(Tail(q)) : i + 1 \in 1 .. Len(q) /\ Tail(q)[i] = q[i + 1]
  BY <1>2, <1>3
<1>5. toAgent'[ea] = Tail(q) /\ \A k \in Conns : k # ea => toAgent'[k] = toAgent[k]
  BY <1>1, <1>2
<1>6. CASE q[1] # c
  <2>1. runs'[c] = runs[c]
    BY <1>0, <1>1, <1>2, <1>3, <1>6
  <2>2. Away(c) => Away(c)'
    <3>1. SUFFICES ASSUME Away(c), NEW k \in Conns, NEW i \in 1 .. Len(toAgent'[k]), toAgent'[k][i] = c
                   PROVE  FALSE
      BY DEF Away
    <3>2. CASE k = ea
      <4>1. i \in 1 .. Len(Tail(q)) /\ Tail(q)[i] = c
        BY <1>5, <3>1, <3>2
      <4>2. i + 1 \in 1 .. Len(q) /\ q[i + 1] = c
        BY <1>4, <4>1
      <4> QED BY <1>1, <1>2, <3>1, <4>2 DEF Away
    <3>3. CASE k # ea
      BY <1>5, <3>1, <3>3 DEF Away
    <3> QED BY <3>2, <3>3
  <2>3. OneCopy(c)'
    <3>1. SUFFICES ASSUME NEW k \in Conns, NEW l \in Conns, NEW i \in 1 .. Len(toAgent'[k]),
                          NEW j \in 1 .. Len(toAgent'[l]), toAgent'[k][i] = c, toAgent'[l][j] = c
                   PROVE  k = l /\ i = j
      BY DEF OneCopy
    <3> DEFINE Before(h, x) == IF h = ea THEN x + 1 ELSE x
    <3>2. Before(k, i) \in 1 .. Len(toAgent[k]) /\ toAgent[k][Before(k, i)] = c
      BY <1>2, <1>4, <1>5, <3>1
    <3>3. Before(l, j) \in 1 .. Len(toAgent[l]) /\ toAgent[l][Before(l, j)] = c
      BY <1>2, <1>4, <1>5, <3>1
    <3> HIDE DEF Before
    <3>4. k = l /\ Before(k, i) = Before(l, j)
      BY <3>2, <3>3 DEF SentOnce, OneCopy
    <3>5. i \in Nat /\ j \in Nat
      BY <3>1
    <3> QED BY <3>4, <3>5 DEF Before
  <2> QED BY <1>1, <2>1, <2>2, <2>3 DEF SentOnce
<1>7. CASE q[1] = c
  <2>1. ~Away(c)
    BY <1>1, <1>2, <1>3, <1>7 DEF Away
  <2>2. runs[c] = 0 /\ direct[c] \notin {"idle", "flushed"}
    BY <2>1 DEF SentOnce
  <2>3. runs'[c] = 1
    BY <1>0, <1>1, <1>2, <1>3, <1>7, <2>2
  <2>4. Away(c)'
    <3>1. SUFFICES ASSUME NEW k \in Conns, NEW i \in 1 .. Len(toAgent'[k]), toAgent'[k][i] = c PROVE FALSE
      BY DEF Away
    <3>2. \A l \in Conns : \A j \in 1 .. Len(toAgent[l]) : toAgent[l][j] = c => l = ea /\ j = 1
      BY <1>1, <1>2, <1>3, <1>7 DEF SentOnce, OneCopy
    <3>3. CASE k # ea
      BY <1>5, <3>1, <3>2, <3>3
    <3>4. CASE k = ea
      <4>1. i \in 1 .. Len(Tail(q)) /\ Tail(q)[i] = c
        BY <1>5, <3>1, <3>4
      <4>2. i + 1 \in 1 .. Len(q) /\ q[i + 1] = c
        BY <1>4, <4>1
      <4>3. i + 1 = 1
        BY <1>1, <1>2, <3>2, <4>2
      <4> QED BY <1>3, <1>4, <4>1, <4>3
    <3> QED BY <3>3, <3>4
  <2>5. OneCopy(c)'
    BY <2>4 DEF Away, OneCopy
  <2> QED BY <1>1, <2>2, <2>3, <2>4, <2>5 DEF SentOnce
<1> QED BY <1>6, <1>7

\* Every step keeps it.
LEMMA SentOnceStep ==
    ASSUME TypeOK, [Next]_vars, NEW c \in Strategy, NotClaimed(c), SentOnce(c)
    PROVE  SentOnce(c)'
<1>0. c \in Cmds /\ c \in Direct /\ direct \in [Direct -> DirectStates] /\ task \in [Tasks -> TaskType]
  BY StrategyOnly DEF TypeOK
<1>1. ASSUME UNCHANGED <<toAgent, runs, direct>> PROVE SentOnce(c)'
  BY <1>1, SentOnceKept
<1>2. ASSUME NEW d \in Queued, CreateStep(d) PROVE SentOnce(c)'
  BY <1>1, <1>2
  DEF CreateStep, CreateCommit, CreateCheckConnected, CreateSpawn, wireVars, brokerVars
<1>3. ASSUME NEW d \in Direct, DirectStep(d) PROVE SentOnce(c)'
  <2>1. CASE DirectCreate(d)
    <3>1. UNCHANGED <<toAgent, runs>>
      BY <2>1 DEF DirectCreate, wireVars, brokerVars
    <3>2. direct'[c] \in {"idle", "flushed"} => direct[c] \in {"idle", "flushed"}
      BY <1>0, <2>1 DEF DirectCreate
    <3> QED BY <3>1, <3>2, SentOnceKept
  <2>2. CASE DirectSend(d)
    <3>1. PICK delivered \in BOOLEAN :
             /\ send_json(d, delivered)
             /\ direct' = [direct EXCEPT ![d] = IF delivered THEN "sent" ELSE "unsent"]
      BY <2>2 DEF DirectSend
    <3>2. UNCHANGED runs /\ direct[d] = "flushed" /\ d \in Cmds
      BY <2>2 DEF DirectSend, brokerVars
    <3>3. CASE d = c
      <4>1. direct'[c] \notin {"idle", "flushed"}
        BY <1>0, <3>1, <3>3
      <4> QED BY <3>1, <3>2, <3>3, <4>1, SentOnceSend
    <3>4. CASE d # c
      <4>1. direct'[c] = direct[c]
        BY <1>0, <3>1, <3>4
      <4> QED BY <3>1, <3>2, <3>4, <4>1, SentOnceSend
    <3> QED BY <3>3, <3>4
  <2>3. CASE DirectCommit(d)
    <3>1. UNCHANGED <<toAgent, runs>>
      BY <2>3 DEF DirectCommit, wireVars, brokerVars
    <3>2. direct'[c] \in {"idle", "flushed"} => direct[c] \in {"idle", "flushed"}
      BY <1>0, <2>3 DEF DirectCommit
    <3> QED BY <3>1, <3>2, SentOnceKept
  <2> QED BY <1>3, <2>1, <2>2, <2>3 DEF DirectStep
<1>4. ASSUME NEW t \in Tasks, TaskStep(t) PROVE SentOnce(c)'
  <2>1. CASE TaskSelect(t) \/ TaskClaim(t) \/ TaskRevertRead(t) \/ TaskRevertWrite(t)
    BY <1>1, <2>1 DEF TaskSelect, TaskClaim, TaskRevertRead, TaskRevertWrite, wireVars, brokerVars, reqVars
  <2>2. CASE TaskSend(t)
    <3>1. PICK d \in task[t].batch, delivered \in BOOLEAN : send_json(d, delivered)
      BY <2>2 DEF TaskSend
    <3>2. UNCHANGED <<runs, direct>>
      BY <2>2 DEF TaskSend, brokerVars, reqVars
    <3>3. d # c /\ d \in Cmds
      BY <1>0, <3>1 DEF NotClaimed, TaskType
    <3> QED BY <3>1, <3>2, <3>3, SentOnceSend
  <2> QED BY <1>4, <2>1, <2>2 DEF TaskStep
<1>5. ASSUME NEW k \in Conns, Connect(k) \/ HandlerStep(k) PROVE SentOnce(c)'
  BY <1>1, <1>5
  DEF Connect, HandlerStep, HandlerRead, BookAck, BookResult, HandlerEnd, wireVars, brokerVars, reqVars
<1>6. CASE EAReceive
  BY <1>6, SentOnceRun
<1>7. CASE (\E t \in brokerOpen : BrokerClose(t)) \/ (\E n \in placed : ExecuteOrder(n))
  BY <1>1, <1>7 DEF BrokerClose, ExecuteOrder, wireVars, reqVars
<1>8. CASE Drop
  <2>1. UNCHANGED <<runs, direct>>
    BY <1>8 DEF Drop, brokerVars, reqVars
  <2>2. \A k \in Conns : toAgent'[k] = toAgent[k] \/ toAgent'[k] = << >>
    BY <1>8 DEF Drop, TypeOK
  <2> QED BY <2>1, <2>2, SentOnceLost
<1>9. CASE Crash
  <2>1. UNCHANGED runs
    BY <1>9 DEF Crash, brokerVars
  <2>2. \A k \in Conns : toAgent'[k] = << >>
    BY <1>9 DEF Crash
  <2>3. direct'[c] \in {"idle", "flushed"} => direct[c] \in {"idle", "flushed"}
    BY <1>0, <1>9 DEF Crash
  <2> QED BY <2>1, <2>2, <2>3, SentOnceLost
<1>10. CASE UNCHANGED vars
  BY <1>1, <1>10 DEF vars
<1> QED
  BY <1>2, <1>3, <1>4, <1>5, <1>6, <1>7, <1>8, <1>9, <1>10 DEF Next

\* Whatever is claimed, reverted, retried, dropped or restarted around it, the
\* EA runs a command of the strategy engine at most once: its row is never
\* visible as PENDING, so only its own request sends it.
THEOREM StrategyRunsOnce == Spec => []StrategyAtMostOnce
<1>1. Init => Once
  <2> SUFFICES ASSUME Init, NEW c \in Strategy PROVE NotClaimed(c) /\ SentOnce(c)
    BY DEF Once
  <2>1. NotClaimed(c)
    BY StrategyOnly DEF Init, NotClaimed, Idle
  <2>2. \A k \in Conns : Len(toAgent[k]) = 0
    BY DEF Init
  <2>3. Away(c) /\ OneCopy(c)
    BY <2>2 DEF Away, OneCopy
  <2>4. runs[c] = 0
    BY StrategyOnly DEF Init
  <2> QED BY <2>1, <2>3, <2>4 DEF SentOnce
<1>2. TypeOK /\ Once /\ [Next]_vars => Once'
  BY NotClaimedStep, SentOnceStep DEF Once
<1>3. Once => StrategyAtMostOnce
  BY DEF Once, SentOnce, StrategyAtMostOnce
<1> QED
  BY <1>1, <1>2, <1>3, TypeCorrect, PTL DEF Spec
=============================================================================
