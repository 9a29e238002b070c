------------------------- MODULE AgentSession_proofs -------------------------
(***************************************************************************)
(* The registry's safety, and what the EA's flags are worth, for any       *)
(* number of connections and faults.                                       *)
(***************************************************************************)
EXTENDS AgentSession, TLAPS

Unregistered == {"none", "auth", "connect", "accept", "deliver"}
HelloFree(q) == \A i \in DOMAIN q : q[i] # "hello"
HelloFirst(q) == \A i \in DOMAIN q : q[i] = "hello" => i = 1

\* Connections the EA has not opened have no handler, transport or frames.
UnopenedIdle ==
  \A c \in Conns : c > conn =>
    pc[c] = "none" /\ c \notin up /\ inbox[c] = <<>> /\ toEA[c] = {}

\* The EA's own connection, and that of its last hello, were opened.
EAOpened == (ea \in {"handshake", "connected"} => conn # None) /\ hello <= conn

\* The registry names opened connections only.
ActiveOpened == active # None => pc[active] # "none"

\* Nothing has been said on connection c.
Silent(c) == inbox[c] = <<>> /\ "welcome" \notin toEA[c] /\ pc[c] # "welcome"

\* Until it has a hello on record the EA has said nothing on its connection, and
\* it is not welcomed: OnTimer clears both flags or neither.
SilentAtFirst ==
  /\ ea = "handshake" => Silent(conn)
  /\ ea = "connected" /\ hello = None => Silent(conn)
  /\ hello = None => ~welcomed

\* A connection carries one hello, its first frame, which a welcome answers.
HelloAnswered ==
  \A c \in Conns :
    /\ HelloFirst(inbox[c])
    /\ "welcome" \in toEA[c] => pc[c] \notin Unregistered
    /\ "welcome" \in toEA[c] \/ pc[c] = "welcome" => HelloFree(inbox[c])

WelcomedRead == welcomed /\ hello = conn => /\ pc[conn] \notin Unregistered
                                            /\ HelloFree(inbox[conn])

IInv == /\ TypeOK
        /\ UnopenedIdle
        /\ EAOpened
        /\ ActiveOpened
        /\ SilentAtFirst
        /\ HelloAnswered
        /\ WelcomedRead

-----------------------------------------------------------------------------
(* Where the hello stands in a connection's frames. *)

LEMMA EmptyFree == HelloFree(<<>>) /\ HelloFirst(<<>>)
BY DEF HelloFree, HelloFirst

LEMMA AppendHeartbeat ==
  ASSUME NEW q \in Seq(Frames)
  PROVE  /\ HelloFree(q) => HelloFree(Append(q, "heartbeat"))
         /\ HelloFirst(q) => HelloFirst(Append(q, "heartbeat"))
<1>1. \A i \in DOMAIN Append(q, "heartbeat") :
        \/ i \in DOMAIN q /\ Append(q, "heartbeat")[i] = q[i]
        \/ Append(q, "heartbeat")[i] = "heartbeat"
  OBVIOUS
<1> QED BY <1>1 DEF HelloFree, HelloFirst

LEMMA AppendHello == HelloFirst(Append(<<>>, "hello"))
BY DEF HelloFirst

LEMMA TailFree ==
  ASSUME NEW q \in Seq(Frames), q # <<>>, HelloFirst(q)
  PROVE  HelloFree(Tail(q)) /\ HelloFirst(Tail(q))
<1>1. \A i \in DOMAIN Tail(q) : i \in Nat \ {0} /\ i + 1 \in DOMAIN q /\ Tail(q)[i] = q[i + 1]
  OBVIOUS
<1>2. \A i \in DOMAIN Tail(q) : Tail(q)[i] # "hello"
  <2> TAKE i \in DOMAIN Tail(q)
  <2>1. q[i + 1] # "hello"
    BY <1>1 DEF HelloFirst
  <2> QED BY <1>1, <2>1
<1> QED BY <1>2 DEF HelloFree, HelloFirst

\* What the EA writes lands behind what it wrote before, if it lands at all.
LEMMA SendStep ==
  ASSUME TypeOK, conn \in Conns, NEW f \in Frames, Send(f)
  PROVE  /\ inbox' \in [Conns -> Seq(Frames)]
         /\ \A c \in Conns : Len(inbox'[c]) <= MaxInbox
         /\ \A c \in Conns : \/ inbox'[c] = inbox[c]
                             \/ c = conn /\ inbox'[c] = Append(inbox[c], f)
<1>1. inbox \in [Conns -> Seq(Frames)] /\ \A c \in Conns : Len(inbox[c]) <= MaxInbox
  BY DEF TypeOK
<1>2. CASE Dead(conn)
  BY <1>1, <1>2 DEF Send
<1>3. CASE ~Dead(conn)
  <2>1. inbox' = [inbox EXCEPT ![conn] = Append(inbox[conn], f)] /\ Len(inbox[conn]) < MaxInbox
    BY <1>3 DEF Send
  <2>2. inbox[conn] \in Seq(Frames)
    BY <1>1
  <2>3. /\ Append(inbox[conn], f) \in Seq(Frames)
        /\ Len(Append(inbox[conn], f)) = Len(inbox[conn]) + 1
    BY <2>2
  <2>4. Len(inbox[conn]) \in Nat /\ MaxInbox \in Nat
    BY <2>2, SessionAssumption
  <2>5. Len(Append(inbox[conn], f)) <= MaxInbox
    BY <2>1, <2>3, <2>4
  <2> QED BY <1>1, <2>1, <2>3, <2>5
<1> QED BY <1>2, <1>3

-----------------------------------------------------------------------------
(* The inductive invariant. *)

\* Init => IInv: nothing is open yet.
LEMMA InitHolds == Init => IInv
<1> SUFFICES ASSUME Init PROVE IInv
  OBVIOUS
<1> USE DEF Init, Conns, None
<1>1. TypeOK
  <2>1. <<>> \in Seq(Frames) /\ Len(<<>>) = 0
    OBVIOUS
  <2>2. inbox \in [Conns -> Seq(Frames)] /\ \A c \in Conns : Len(inbox[c]) <= MaxInbox
    BY <2>1, SessionAssumption
  <2>3. toEA \in [Conns -> SUBSET Replies] /\ pc \in [Conns -> HandlerStates]
    BY DEF HandlerStates
  <2>4. drops \in 0 .. MaxDrops /\ earlyDrops \in 0 .. MaxEarlyDrops
        /\ crashes \in 0 .. MaxCrashes /\ errors \in 0 .. MaxErrors /\ failures \in 0 .. MaxFailures
    BY SessionAssumption
  <2>5. ea \in EAStates /\ welcomed \in BOOLEAN
    BY DEF EAStates
  <2> QED BY <2>2, <2>3, <2>4, <2>5 DEF TypeOK
<1>2. UnopenedIdle /\ EAOpened /\ ActiveOpened /\ SilentAtFirst /\ WelcomedRead
  BY DEF UnopenedIdle, EAOpened, ActiveOpened, SilentAtFirst, WelcomedRead
<1>3. HelloAnswered
  BY EmptyFree DEF HelloAnswered
<1> QED BY <1>1, <1>2, <1>3 DEF IInv

Ticks == Opens \/ Upgraded \/ ReadsWelcome \/ Loses \/ Idles

\* One call of Tick() keeps the types of what it changes, and stays on the EA's
\* connection when it ends connected.
LEMMA TickTypes ==
  ASSUME TypeOK, EAOpened, Ticks
  PROVE  /\ ea' \in EAStates /\ conn' \in Conns \cup {None} /\ up' \subseteq Conns
         /\ pc' \in [Conns -> HandlerStates] /\ toEA' \in [Conns -> SUBSET Replies]
         /\ Welcomed \in BOOLEAN
         /\ ea' = "connected" => conn' = conn /\ conn \in Conns
<1> USE SessionAssumption
<1> USE DEF TypeOK, EAOpened, Conns, None, EAStates, Replies, HandlerStates, Welcomed
<1>1. CASE Opens
  BY <1>1 DEF Opens
<1>2. CASE Upgraded
  BY <1>2 DEF Upgraded
<1>3. CASE ReadsWelcome
  BY <1>3 DEF ReadsWelcome
<1>4. CASE Loses
  BY <1>4 DEF Loses
<1>5. CASE Idles
  BY <1>5 DEF Idles
<1> QED BY <1>1, <1>2, <1>3, <1>4, <1>5 DEF Ticks

\* Every action keeps the types.
LEMMA TypeStep == IInv /\ [Next]_vars => TypeOK'
<1> SUFFICES ASSUME IInv, [Next]_vars PROVE TypeOK'
  OBVIOUS
<1> USE SessionAssumption
<1> USE DEF TypeOK, Conns, None, EAStates, Frames, Replies, HandlerStates
<1>0. TypeOK /\ EAOpened
  BY DEF IInv
<1>1. CASE OnTick
  <2>1. Ticks
    BY <1>1 DEF OnTick, Ticks
  <2>2. /\ ea' \in EAStates /\ conn' \in Conns \cup {None} /\ up' \subseteq Conns
        /\ pc' \in [Conns -> HandlerStates] /\ toEA' \in [Conns -> SUBSET Replies]
        /\ Welcomed \in BOOLEAN
    BY <1>0, <2>1, TickTypes
  <2>3. welcomed' \in BOOLEAN /\ UNCHANGED <<hello, inbox, closed, active, status, faultVars>>
    BY <1>1, <2>2 DEF OnTick, InOnTick, Unticked
  <2> QED BY <1>0, <2>2, <2>3 DEF faultVars
<1>2. CASE OnTimer
  <2>1. Ticks
    BY <1>2 DEF OnTimer, Ticks
  <2>2. /\ ea' \in EAStates /\ conn' \in Conns \cup {None} /\ up' \subseteq Conns
        /\ pc' \in [Conns -> HandlerStates] /\ toEA' \in [Conns -> SUBSET Replies]
        /\ Welcomed \in BOOLEAN
        /\ ea' = "connected" => conn' = conn /\ conn \in Conns
    BY <1>0, <2>1, TickTypes
  <2>3. hello' \in Conns \cup {None} /\ welcomed' \in BOOLEAN
    BY <1>0, <1>2, <2>2 DEF OnTimer, InOnTimer, ClearFlags
  <2>4. inbox' \in [Conns -> Seq(Frames)] /\ \A c \in Conns : Len(inbox'[c]) <= MaxInbox
    <3>1. CASE inbox' = inbox
      BY <1>0, <3>1
    <3>2. CASE inbox' # inbox
      <4>1. ea' = "connected" /\ \E f \in Frames : Send(f)
        BY <1>2, <3>2 DEF OnTimer, InOnTimer, ClearFlags
      <4> QED BY <1>0, <2>2, <4>1, SendStep
    <3> QED BY <3>1, <3>2
  <2>5. UNCHANGED <<closed, active, status, faultVars>>
    BY <1>2 DEF OnTimer, Unticked
  <2> QED BY <1>0, <2>2, <2>3, <2>4, <2>5 DEF faultVars
<1>6. CASE EAStop
  BY <1>0, <1>6 DEF EAStop, serverVars, faultVars
<1>7. ASSUME NEW c \in Conns, Authenticate(c) PROVE TypeOK'
  BY <1>0, <1>7 DEF Authenticate, eaVars, wireVars, faultVars
<1>8. ASSUME NEW c \in Conns, Connect(c) PROVE TypeOK'
  <2>1. CASE active = None
    <3>1. toEA' \in [Conns -> SUBSET Replies] /\ pc' \in [Conns -> HandlerStates] /\ active' \in Conns
      BY <1>0, <1>8, <2>1 DEF Connect, Register
    <3>2. UNCHANGED <<closed, eaVars, up, inbox, status, faultVars>>
      BY <1>8, <2>1 DEF Connect
    <3> QED BY <1>0, <3>1, <3>2 DEF eaVars, faultVars
  <2>2. CASE active # None
    BY <1>0, <1>8, <2>2 DEF Connect, eaVars, faultVars
  <2> QED BY <2>1, <2>2
<1>9. ASSUME NEW c \in Conns, Accept(c) PROVE TypeOK'
  BY <1>0, <1>9 DEF Accept, Register, eaVars, faultVars
<1>10. ASSUME NEW c \in Conns, Deliver(c) PROVE TypeOK'
  BY <1>0, <1>10 DEF Deliver, eaVars, wireVars, faultVars
<1>11. ASSUME NEW c \in Conns, Receive(c) PROVE TypeOK'
  <2>1. inbox[c] \in Seq(Frames) /\ inbox[c] # <<>> /\ Len(inbox[c]) <= MaxInbox
    BY <1>0, <1>11 DEF Receive
  <2>2. Tail(inbox[c]) \in Seq(Frames) /\ Len(Tail(inbox[c])) <= MaxInbox
    BY <2>1
  <2>3. inbox' \in [Conns -> Seq(Frames)] /\ \A d \in Conns : Len(inbox'[d]) <= MaxInbox
    BY <1>0, <1>11, <2>2 DEF Receive
  <2>4. pc' \in [Conns -> HandlerStates]
    BY <1>0, <1>11 DEF Receive
  <2> QED BY <1>0, <1>11, <2>3, <2>4 DEF Receive, eaVars, faultVars
<1>12. ASSUME NEW c \in Conns, Answer(c) PROVE TypeOK'
  BY <1>0, <1>12 DEF Answer, eaVars, faultVars
<1>13. ASSUME NEW c \in Conns, Gone(c) PROVE TypeOK'
  BY <1>0, <1>13 DEF Gone, eaVars, wireVars, faultVars
<1>14. ASSUME NEW c \in Conns, Finalize(c) PROVE TypeOK'
  BY <1>0, <1>14 DEF Finalize, Disconnect, eaVars, wireVars, faultVars
<1>15. ASSUME NEW c \in Conns, WriteOffline(c) \/ SwallowOffline(c) PROVE TypeOK'
  <2>1. pc' \in [Conns -> HandlerStates] /\ closed' \subseteq Conns
    BY <1>0, <1>15 DEF WriteOffline, SwallowOffline, Return
  <2>a. /\ errors \in 0 .. MaxErrors
        /\ errors' = errors \/ (errors < MaxErrors /\ errors' = errors + 1)
    BY <1>0, <1>15 DEF WriteOffline, SwallowOffline, faultVars
  <2>b. errors' \in 0 .. MaxErrors
    BY <2>a
  <2>2. errors' \in 0 .. MaxErrors /\ status' \in {"UNKNOWN", "CONNECTED", "DISCONNECTED"}
    BY <1>0, <1>15, <2>b DEF WriteOffline, SwallowOffline
  <2> QED BY <1>0, <1>15, <2>1, <2>2 DEF WriteOffline, SwallowOffline, Return, eaVars, faultVars
<1>16. ASSUME NEW c \in Conns, Raise(c) PROVE TypeOK'
  <2>1. pc' \in [Conns -> HandlerStates] /\ closed' \subseteq Conns
    BY <1>0, <1>16 DEF Raise
  <2>a. errors \in 0 .. MaxErrors /\ errors < MaxErrors /\ errors' = errors + 1
    BY <1>0, <1>16 DEF Raise
  <2>2. errors' \in 0 .. MaxErrors
    BY <2>a
  <2> QED BY <1>0, <1>16, <2>1, <2>2 DEF Raise, eaVars
<1>3. ASSUME NEW c \in Conns, Fail(c) PROVE TypeOK'
  <2>1. pc' \in [Conns -> HandlerStates]
    BY <1>0, <1>3 DEF Fail
  <2>a. failures \in 0 .. MaxFailures /\ failures < MaxFailures /\ failures' = failures + 1
    BY <1>0, <1>3 DEF Fail
  <2>2. failures' \in 0 .. MaxFailures
    BY <2>a
  <2> QED BY <1>0, <1>3, <2>1, <2>2 DEF Fail, eaVars, wireVars
<1>17. CASE SendFails
  BY <1>0, <1>17 DEF SendFails, Disconnect, eaVars, wireVars, faultVars
<1>18. CASE Drop
  BY <1>0, <1>18 DEF Drop, eaVars, serverVars
<1>19. CASE EarlyDrop
  BY <1>0, <1>19 DEF EarlyDrop, eaVars, serverVars
<1>20. CASE Crash
  BY <1>0, <1>20 DEF Crash, eaVars
<1>21. CASE UNCHANGED vars
  BY <1>0, <1>21 DEF vars, eaVars, wireVars, serverVars, faultVars
<1> QED
  BY <1>1, <1>2, <1>3, <1>6, <1>7, <1>8, <1>9, <1>10, <1>11, <1>12, <1>13,
     <1>14, <1>15, <1>16, <1>17, <1>18, <1>19, <1>20, <1>21
  DEF Next, Handler
\* One call of Tick() keeps what is said of the connections.
LEMMA TickRest ==
  ASSUME IInv, Ticks
  PROVE  /\ \A c \in Conns : c > conn' =>
              pc'[c] = "none" /\ c \notin up' /\ inbox[c] = <<>> /\ toEA'[c] = {}
         /\ (ea' \in {"handshake", "connected"} => conn' # None) /\ hello <= conn'
         /\ active # None => pc'[active] # "none"
         /\ \A c \in Conns :
              /\ HelloFirst(inbox[c])
              /\ "welcome" \in toEA'[c] => pc'[c] \notin Unregistered
              /\ "welcome" \in toEA'[c] \/ pc'[c] = "welcome" => HelloFree(inbox[c])
         /\ ea' = "handshake" \/ (ea' = "connected" /\ hello = None)
            => inbox[conn'] = <<>> /\ "welcome" \notin toEA'[conn'] /\ pc'[conn'] # "welcome"
         /\ hello = None => ~Welcomed
         /\ Welcomed /\ hello = conn' => pc'[conn'] \notin Unregistered /\ HelloFree(inbox[conn'])
<1> USE SessionAssumption
<1> USE DEF Conns, None, UnopenedIdle, EAOpened, ActiveOpened, Silent, SilentAtFirst, HelloAnswered,
            WelcomedRead, Unregistered, Welcomed
<1>0. /\ pc \in [Conns -> HandlerStates] /\ toEA \in [Conns -> SUBSET Replies]
      /\ inbox \in [Conns -> Seq(Frames)] /\ hello \in Conns \cup {None}
      /\ conn \in Conns \cup {None} /\ active \in Conns \cup {None} /\ MaxConns \in Nat
  BY DEF IInv, TypeOK
<1>i. /\ UnopenedIdle /\ EAOpened /\ ActiveOpened /\ SilentAtFirst /\ HelloAnswered /\ WelcomedRead
  BY DEF IInv
<1>1. CASE Opens
  <2>1. conn + 1 \in Conns /\ conn' = conn + 1 /\ ea' = "handshake" /\ toEA' = toEA
    BY <1>0, <1>1 DEF Opens
  <2>2. pc[conn + 1] = "none" /\ inbox[conn + 1] = <<>> /\ toEA[conn + 1] = {}
    BY <1>i, <2>1, <1>0
  <2>3. \A c \in Conns : pc'[c] = IF c = conn + 1 THEN "auth" ELSE pc[c]
    BY <1>0, <1>1, <2>1 DEF Opens
  <2>4. \A c \in Conns : c > conn' =>
          pc'[c] = "none" /\ c \notin up' /\ inbox[c] = <<>> /\ toEA'[c] = {}
    <3>1. \A c \in Conns : c > conn + 1 => c > conn /\ c # conn + 1
      BY <1>0
    <3> QED BY <1>i, <1>1, <2>1, <2>3, <3>1 DEF Opens
  <2>5. conn' # None /\ hello <= conn' /\ hello # conn'
    BY <1>0, <1>i, <2>1
  <2>6. active # None => pc'[active] # "none"
    BY <1>0, <1>i, <2>1, <2>3
  <2>7. \A c \in Conns :
          /\ HelloFirst(inbox[c])
          /\ "welcome" \in toEA'[c] => pc'[c] \notin Unregistered
          /\ "welcome" \in toEA'[c] \/ pc'[c] = "welcome" => HelloFree(inbox[c])
    BY <1>i, <2>1, <2>2, <2>3
  <2>8. inbox[conn'] = <<>> /\ "welcome" \notin toEA'[conn'] /\ pc'[conn'] # "welcome"
    BY <2>1, <2>2, <2>3
  <2>9. hello = None => ~Welcomed
    BY <1>i, <2>1
  <2> QED BY <2>4, <2>5, <2>6, <2>7, <2>8, <2>9
<1>2. CASE Upgraded
  BY <1>0, <1>i, <1>2 DEF Upgraded
<1>3. CASE ReadsWelcome
  <2>1. conn \in Conns /\ "welcome" \in toEA[conn] /\ toEA' = [toEA EXCEPT ![conn] = @ \ {"welcome"}]
    BY <1>0, <1>i, <1>3 DEF ReadsWelcome
  <2>2. \A c \in Conns : toEA'[c] \subseteq toEA[c]
    BY <1>0, <2>1
  <2>3. pc' = pc /\ up' = up /\ conn' = conn /\ ea' = ea /\ ea = "connected"
    BY <1>3 DEF ReadsWelcome
  <2>4. hello # None
    BY <1>i, <2>1, <2>3
  <2>5. pc[conn] \notin Unregistered /\ HelloFree(inbox[conn])
    BY <1>i, <2>1
  <2>6. \A c \in Conns : c > conn' =>
          pc'[c] = "none" /\ c \notin up' /\ inbox[c] = <<>> /\ toEA'[c] = {}
    BY <1>i, <2>2, <2>3
  <2>7. \A c \in Conns :
          /\ HelloFirst(inbox[c])
          /\ "welcome" \in toEA'[c] => pc'[c] \notin Unregistered
          /\ "welcome" \in toEA'[c] \/ pc'[c] = "welcome" => HelloFree(inbox[c])
    BY <1>i, <2>2, <2>3
  <2>8. (conn' # None /\ hello <= conn') /\ (active # None => pc'[active] # "none")
    BY <1>0, <1>i, <2>1, <2>3
  <2> QED BY <2>3, <2>4, <2>5, <2>6, <2>7, <2>8
<1>4. CASE Loses
  BY <1>0, <1>i, <1>4 DEF Loses
<1>5. CASE Idles
  BY <1>0, <1>i, <1>5 DEF Idles
<1> QED BY <1>1, <1>2, <1>3, <1>4, <1>5 DEF Ticks

\* OnTick leaves the flags and the frames alone.
LEMMA OnTickRest == ASSUME IInv, OnTick PROVE IInv'
<1>1. /\ Ticks /\ inbox' = inbox /\ hello' = hello /\ active' = active /\ welcomed' = Welcomed
  BY DEF OnTick, InOnTick, Unticked, Ticks
<1>2. TypeOK'
  BY TypeStep DEF Next
<1>3. UnopenedIdle' /\ EAOpened' /\ ActiveOpened'
  BY <1>1, TickRest DEF UnopenedIdle, EAOpened, ActiveOpened, Conns, None
<1>4. HelloAnswered'
  BY <1>1, TickRest DEF HelloAnswered, Conns
<1>5. SilentAtFirst' /\ WelcomedRead'
  BY <1>1, TickRest DEF SilentAtFirst, WelcomedRead, Silent, None
<1> QED BY <1>2, <1>3, <1>4, <1>5 DEF IInv

\* OnTimer clears both flags, or speaks on the connection it is connected on.
LEMMA OnTimerRest == ASSUME IInv, OnTimer PROVE IInv'
<1>1. Ticks /\ InOnTimer /\ active' = active
  BY DEF OnTimer, Unticked, Ticks
<1>2. TypeOK'
  BY TypeStep DEF Next
<1>t. TypeOK /\ EAOpened
  BY DEF IInv
<1>c. ea' = "connected" => conn' = conn /\ conn \in Conns
  BY <1>1, <1>t, TickTypes
<1>3. CASE ea' # "connected" /\ ClearFlags
  <2>1. inbox' = inbox /\ hello' = None /\ ~welcomed' /\ ea' # "connected"
    BY <1>3 DEF ClearFlags
  <2>2. UnopenedIdle' /\ ActiveOpened'
    BY <1>1, <2>1, TickRest DEF UnopenedIdle, ActiveOpened, Conns, None
  <2>3. EAOpened'
    <3>1. conn' \in Conns \cup {None}
      BY <1>2 DEF TypeOK
    <3> QED BY <1>1, <2>1, <3>1, TickRest DEF EAOpened, Conns, None
  <2>4. HelloAnswered'
    BY <1>1, <2>1, TickRest DEF HelloAnswered, Conns
  <2>5. SilentAtFirst' /\ WelcomedRead'
    BY <1>1, <2>1, TickRest DEF SilentAtFirst, WelcomedRead, Silent, None
  <2> QED BY <1>2, <2>2, <2>3, <2>4, <2>5 DEF IInv
<1>4. CASE ea' = "connected" /\ hello = None /\ Send("hello") /\ hello' = conn /\ welcomed' = Welcomed
  <2>1. \A c \in Conns : \/ inbox'[c] = inbox[c]
                         \/ c = conn /\ inbox'[c] = Append(inbox[c], "hello")
    BY <1>4, <1>c, <1>t, SendStep DEF Frames
  <2>2. inbox[conn] = <<>> /\ "welcome" \notin toEA'[conn] /\ pc'[conn] # "welcome" /\ ~Welcomed
    BY <1>1, <1>4, <1>c, TickRest
  <2>3. HelloFirst(inbox'[conn])
    BY <2>1, <2>2, <1>4, <1>c, EmptyFree, AppendHello
  <2>4. UnopenedIdle'
    <3>1. \A c \in Conns : c > conn => c # conn
      BY <1>4, <1>c DEF Conns
    <3> QED BY <1>1, <1>4, <1>c, <2>1, <3>1, TickRest DEF UnopenedIdle, Conns
  <2>5. EAOpened' /\ ActiveOpened'
    BY <1>1, <1>4, <1>c, TickRest DEF EAOpened, ActiveOpened, Conns, None
  <2>6. HelloAnswered'
    BY <1>1, <1>c, <2>1, <2>2, <2>3, TickRest DEF HelloAnswered, Conns
  <2>7. SilentAtFirst' /\ WelcomedRead'
    BY <1>4, <1>c, <2>2 DEF SilentAtFirst, WelcomedRead, Conns, None
  <2> QED BY <1>2, <2>4, <2>5, <2>6, <2>7 DEF IInv
<1>5. CASE /\ ea' = "connected" /\ hello # None /\ (Send("heartbeat") \/ UNCHANGED inbox)
           /\ welcomed' = Welcomed /\ UNCHANGED hello
  <2>1. \A c \in Conns : \/ inbox'[c] = inbox[c]
                         \/ c = conn /\ inbox'[c] = Append(inbox[c], "heartbeat")
    BY <1>5, <1>c, <1>t, SendStep DEF Frames
  <2>2. \A c \in Conns : /\ HelloFree(inbox[c]) => HelloFree(inbox'[c])
                         /\ HelloFirst(inbox[c]) => HelloFirst(inbox'[c])
    <3>1. \A c \in Conns : inbox[c] \in Seq(Frames)
      BY <1>t DEF TypeOK
    <3> QED BY <2>1, <3>1, AppendHeartbeat
  <2>4. UnopenedIdle'
    <3>1. \A c \in Conns : c > conn => c # conn
      BY <1>5, <1>c DEF Conns
    <3> QED BY <1>1, <1>5, <1>c, <2>1, <3>1, TickRest DEF UnopenedIdle, Conns
  <2>5. EAOpened' /\ ActiveOpened'
    BY <1>1, <1>5, <1>c, TickRest DEF EAOpened, ActiveOpened, Conns, None
  <2>6. HelloAnswered'
    BY <1>1, <2>2, TickRest DEF HelloAnswered, Conns
  <2>7. SilentAtFirst'
    BY <1>5 DEF SilentAtFirst
  <2>8. WelcomedRead'
    BY <1>1, <1>5, <1>c, <2>2, TickRest DEF WelcomedRead
  <2> QED BY <1>2, <2>4, <2>5, <2>6, <2>7, <2>8 DEF IInv
<1> QED BY <1>1, <1>3, <1>4, <1>5 DEF InOnTimer

\* A step in which handlers only move on, or end, and nothing is said.
LEMMA QuietStep ==
  ASSUME IInv, TypeOK', eaVars' = eaVars, inbox' = inbox, toEA' = toEA, up' \subseteq up,
         active' = active \/ active' = None,
         \A d \in Conns : \/ pc'[d] = pc[d]
                          \/ pc[d] # "none" /\ pc'[d] \notin Unregistered /\ pc'[d] # "welcome"
  PROVE  IInv'
<1>i. /\ UnopenedIdle /\ EAOpened /\ ActiveOpened /\ SilentAtFirst /\ HelloAnswered /\ WelcomedRead
      /\ conn \in Conns \cup {None} /\ active \in Conns \cup {None}
      /\ UNCHANGED <<ea, conn, hello, welcomed>>
  BY DEF IInv, TypeOK, eaVars
<1>1. UnopenedIdle' /\ EAOpened'
  BY <1>i DEF UnopenedIdle, EAOpened
<1>2. ActiveOpened'
  BY <1>i DEF ActiveOpened, Unregistered
<1>3. HelloAnswered'
  BY <1>i DEF HelloAnswered
<1>4. SilentAtFirst' /\ WelcomedRead'
  <2>1. CASE conn \in Conns
    BY <1>i, <2>1 DEF SilentAtFirst, Silent, WelcomedRead
  <2>2. CASE conn = None
    BY <1>i, <2>2 DEF SilentAtFirst, WelcomedRead, EAOpened, Silent
  <2> QED BY <1>i, <2>1, <2>2
<1> QED BY <1>1, <1>2, <1>3, <1>4 DEF IInv

\* A step of a handler on its way to its loop.
LEMMA SetupStep ==
  ASSUME IInv, TypeOK', eaVars' = eaVars, inbox' = inbox, up' = up, NEW c \in Conns,
         pc[c] \in Unregistered, pc[c] # "none",
         pc'[c] \notin {"none", "welcome"},
         \A d \in Conns : d # c => pc'[d] = pc[d] /\ toEA'[d] = toEA[d],
         toEA'[c] \subseteq toEA[c] \cup {"accept"},
         active' = active \/ active' = c
  PROVE  IInv'
<1>i. /\ UnopenedIdle /\ EAOpened /\ ActiveOpened /\ SilentAtFirst /\ HelloAnswered /\ WelcomedRead
      /\ conn \in Conns \cup {None} /\ active \in Conns \cup {None}
      /\ UNCHANGED <<ea, conn, hello, welcomed>>
  BY DEF IInv, TypeOK, eaVars
<1>0. "welcome" \notin toEA[c] /\ "welcome" \notin toEA'[c]
  BY <1>i DEF HelloAnswered
<1>1. UnopenedIdle' /\ EAOpened'
  BY <1>i DEF UnopenedIdle, EAOpened
<1>2. ActiveOpened'
  BY <1>i DEF ActiveOpened, Unregistered
<1>3. HelloAnswered'
  BY <1>i, <1>0 DEF HelloAnswered
<1>4. SilentAtFirst' /\ WelcomedRead'
  <2>1. CASE conn \in Conns
    BY <1>i, <1>0, <2>1 DEF SilentAtFirst, Silent, WelcomedRead
  <2>2. CASE conn = None
    BY <1>i, <2>2 DEF SilentAtFirst, WelcomedRead, EAOpened, Silent
  <2> QED BY <1>i, <2>1, <2>2
<1> QED BY <1>1, <1>2, <1>3, <1>4 DEF IInv

\* Every action keeps the invariant.
LEMMA RestStep == IInv /\ [Next]_vars => IInv'
<1> SUFFICES ASSUME IInv, [Next]_vars PROVE IInv'
  OBVIOUS
<1> USE DEF Conns, None, UnopenedIdle, EAOpened, ActiveOpened, Silent, SilentAtFirst, HelloAnswered,
            WelcomedRead, Unregistered
<1>0. TypeOK' /\ TypeOK
  BY TypeStep DEF IInv
<1>p. /\ pc \in [Conns -> HandlerStates] /\ toEA \in [Conns -> SUBSET Replies]
      /\ inbox \in [Conns -> Seq(Frames)]
      /\ conn \in Conns \cup {None} /\ active \in Conns \cup {None} /\ MaxConns \in Nat
  BY <1>0, SessionAssumption DEF TypeOK
<1>i. /\ UnopenedIdle /\ EAOpened /\ ActiveOpened /\ SilentAtFirst /\ HelloAnswered /\ WelcomedRead
  BY DEF IInv
<1> HIDE DEF IInv
<1>1. CASE OnTick
  BY <1>1, OnTickRest
<1>2. CASE OnTimer
  BY <1>2, OnTimerRest
<1>6. CASE EAStop
  BY <1>0, <1>p, <1>i, <1>6 DEF EAStop, serverVars, IInv
<1>7. ASSUME NEW c \in Conns, Authenticate(c) \/ Deliver(c) PROVE IInv'
  <2>1. /\ pc[c] \in {"auth", "deliver"} /\ pc'[c] \in {"connect", "serve"}
        /\ \A d \in Conns : d # c => pc'[d] = pc[d]
        /\ UNCHANGED <<eaVars, inbox, up, toEA, active>>
    BY <1>p, <1>7 DEF Authenticate, Deliver, wireVars
  <2> QED BY <1>0, <2>1, SetupStep
<1>8. ASSUME NEW c \in Conns, Connect(c) \/ Accept(c) PROVE IInv'
  <2>1. /\ pc[c] \in {"connect", "accept"} /\ pc'[c] \in {"accept", "deliver"}
        /\ \A d \in Conns : d # c => pc'[d] = pc[d] /\ toEA'[d] = toEA[d]
        /\ toEA'[c] \subseteq toEA[c] \cup {"accept"}
        /\ active' = active \/ active' = c
        /\ UNCHANGED <<eaVars, inbox, up>>
    BY <1>p, <1>8 DEF Connect, Accept, Register
  <2> QED BY <1>0, <2>1, SetupStep
<1>9. ASSUME NEW c \in Conns, Gone(c) PROVE IInv'
  BY <1>0, <1>p, <1>9, QuietStep DEF Gone, wireVars
<1>11. ASSUME NEW c \in Conns, Receive(c) PROVE IInv'
  <2>1. inbox[c] \in Seq(Frames) /\ inbox[c] # <<>> /\ pc[c] = "serve" /\ HelloFirst(inbox[c])
    BY <1>p, <1>i, <1>11 DEF Receive
  <2>2. HelloFree(Tail(inbox[c])) /\ HelloFirst(Tail(inbox[c]))
    BY <2>1, TailFree
  <2>3. /\ \A d \in Conns : inbox'[d] = IF d = c THEN Tail(inbox[c]) ELSE inbox[d]
        /\ \A d \in Conns : pc'[d] = IF d = c THEN pc'[c] ELSE pc[d]
        /\ pc'[c] \in {"welcome", "acknowledge"}
        /\ UNCHANGED <<ea, conn, hello, welcomed, up, toEA, active>>
    BY <1>p, <1>11 DEF Receive, eaVars
  <2>4. UnopenedIdle' /\ EAOpened' /\ ActiveOpened'
    BY <1>p, <1>i, <2>1, <2>3
  <2>5. HelloAnswered' /\ WelcomedRead'
    BY <1>p, <1>i, <2>2, <2>3
  <2>6. SilentAtFirst'
    BY <1>p, <1>i, <2>1, <2>3
  <2> QED BY <1>0, <2>4, <2>5, <2>6 DEF IInv
<1>12. ASSUME NEW c \in Conns, Answer(c) PROVE IInv'
  <2>1. /\ pc[c] \in {"welcome", "acknowledge"}
        /\ \A d \in Conns : pc'[d] = IF d = c THEN pc'[c] ELSE pc[d]
        /\ pc'[c] \in {"final", "serve"}
        /\ \A d \in Conns : toEA'[d] \subseteq toEA[d] \cup {"welcome"}
        /\ \A d \in Conns : "welcome" \in toEA'[d] =>
             "welcome" \in toEA[d] \/ (d = c /\ pc[c] = "welcome")
        /\ \A d \in Conns : d # c => toEA'[d] = toEA[d]
        /\ UNCHANGED <<ea, conn, hello, welcomed, up, inbox, active>>
    BY <1>p, <1>12 DEF Answer, eaVars
  <2>4. UnopenedIdle' /\ EAOpened' /\ ActiveOpened'
    BY <1>p, <1>i, <2>1
  <2>5. HelloAnswered' /\ WelcomedRead'
    BY <1>p, <1>i, <2>1
  <2>6. SilentAtFirst'
    BY <1>p, <1>i, <2>1
  <2> QED BY <1>0, <2>4, <2>5, <2>6 DEF IInv
<1>14. ASSUME NEW c \in Conns, Finalize(c) PROVE IInv'
  BY <1>0, <1>p, <1>14, QuietStep DEF Finalize, Disconnect, wireVars
<1>15. ASSUME NEW c \in Conns, WriteOffline(c) \/ SwallowOffline(c) PROVE IInv'
  BY <1>0, <1>p, <1>15, QuietStep DEF WriteOffline, SwallowOffline, Return
<1>16. ASSUME NEW c \in Conns, Raise(c) \/ Fail(c) PROVE IInv'
  BY <1>0, <1>p, <1>16, QuietStep DEF Raise, Fail, wireVars
<1>17. CASE SendFails
  BY <1>0, <1>17, QuietStep DEF SendFails, Disconnect, wireVars
<1>18. CASE Drop \/ EarlyDrop
  BY <1>0, <1>18, QuietStep DEF Drop, EarlyDrop, serverVars
<1>20. CASE Crash
  BY <1>0, <1>p, <1>20, QuietStep DEF Crash
<1>21. CASE UNCHANGED vars
  BY <1>0, <1>21, QuietStep DEF vars, wireVars, serverVars
<1> QED
  BY <1>1, <1>2, <1>6, <1>7, <1>8, <1>9, <1>11, <1>12, <1>14, <1>15, <1>16, <1>17, <1>18,
     <1>20, <1>21
  DEF Next, Handler

-----------------------------------------------------------------------------
(* The theorems. *)

\* The invariant holds of every behaviour, whatever the bounds.
THEOREM Invariance == Spec => []IInv
<1>1. Init => IInv
  BY InitHolds
<1>2. IInv /\ [Next]_vars => IInv'
  BY RestStep
<1> QED
  BY <1>1, <1>2, PTL DEF Spec

\* Every variable keeps its type; the EA never overfills a connection's inbox.
THEOREM TypeCorrect == Spec => []TypeOK
<1>1. IInv => TypeOK
  BY DEF IInv
<1> QED
  BY Invariance, <1>1, PTL

\* An EA that takes itself for welcomed on the connection of its last hello has
\* had that very hello read by the connection's handler, although OnTick keeps
\* the flags of an earlier connection across a reconnect.
THEOREM WelcomedCorrect == Spec => []WelcomedByItsHello
<1>1. IInv => WelcomedByItsHello
  BY DEF IInv, WelcomedRead, WelcomedByItsHello, HelloFree, Unregistered
<1> QED
  BY Invariance, <1>1, PTL

\* A step that empties the registry removes a dead connection (a failed send on
\* it, or a restart) or is the finally of that connection's own handler.
LEMMA EmptyingStep ==
  ASSUME NEW c \in Conns, IInv, [Next]_vars, active = c, active' = None
  PROVE  Dead(c)' \/ pc[c] = "final"
<1> USE DEF Dead
<1>0. active # None
  BY DEF Conns, None
<1>1. CASE OnTick \/ OnTimer \/ EAStop
  BY <1>0, <1>1 DEF OnTick, OnTimer, Unticked, EAStop, serverVars
<1>2. CASE \E d \in Conns : Handler(d)
  <2> PICK d \in Conns : Handler(d)
    BY <1>2
  <2>1. CASE Finalize(d)
    <3>1. d = c
      BY <1>0, <2>1 DEF Finalize, Disconnect
    <3> QED BY <2>1, <3>1 DEF Finalize
  <2>2. CASE ~Finalize(d)
    <3>1. active' = active \/ active' = d
      BY <2>2 DEF Handler, Authenticate, Connect, Accept, Register, Deliver, Receive,
                  Answer, WriteOffline, Return, vars
    <3> QED BY <1>0, <3>1 DEF Conns, None
  <2> QED BY <2>1, <2>2
<1>3. CASE \E d \in Conns : Gone(d) \/ Raise(d) \/ Fail(d) \/ SwallowOffline(d)
  BY <1>0, <1>3 DEF Gone, Raise, Fail, SwallowOffline, Return
<1>4. CASE SendFails
  BY <1>4 DEF SendFails, wireVars
<1>5. CASE Drop \/ EarlyDrop
  BY <1>0, <1>5 DEF Drop, EarlyDrop, serverVars
<1>6. CASE Crash
  BY <1>6 DEF Crash
<1>7. CASE UNCHANGED vars
  BY <1>0, <1>7 DEF vars, serverVars
<1> QED
  BY <1>1, <1>2, <1>3, <1>4, <1>5, <1>6, <1>7 DEF Next

\* agent_manager.disconnect never lets the handler of one connection take another
\* one, alive, out of the registry, however late it cleans up.
THEOREM OnlyOwnCorrect == Spec => OnlyOwnUnregistered
<1>1. IInv /\ [Next]_vars
      => [\A c \in Conns :
            active = c /\ active' = None => Dead(c)' \/ pc[c] = "final"]_vars
  BY EmptyingStep
<1> QED
  BY Invariance, <1>1, PTL DEF Spec, OnlyOwnUnregistered

\* A step keeps a handler behind the registered connection, or is an exception
\* outside the try.
LEMMA ServedStep ==
  ASSUME IInv, RegisteredIsServed, [Next]_vars
  PROVE  RegisteredIsServed'
<1> USE DEF RegisteredIsServed, faultVars
<1>p. /\ pc \in [Conns -> HandlerStates] /\ active \in Conns \cup {None}
      /\ conn \in Conns \cup {None} /\ UnopenedIdle /\ ActiveOpened /\ MaxConns \in Nat
      /\ None \notin Conns /\ errors \in Nat
  BY SessionAssumption DEF IInv, TypeOK, Conns, None
<1>1. CASE OnTick \/ OnTimer
  <2>1. active' = active /\ errors' = errors
    BY <1>1 DEF OnTick, OnTimer, Unticked
  <2>2. CASE pc' = pc
    BY <2>1, <2>2
  <2>3. CASE Opens
    <3>1. conn + 1 \in Conns /\ pc[conn + 1] = "none"
      BY <1>p, <2>3 DEF Opens, UnopenedIdle, Conns, None
    <3> QED BY <1>p, <2>1, <2>3, <3>1 DEF Opens, ActiveOpened
  <2> QED BY <1>1, <2>2, <2>3 DEF OnTick, OnTimer, Upgraded, ReadsWelcome, Loses, Idles
<1>2. CASE EAStop \/ Drop \/ EarlyDrop
  BY <1>2 DEF EAStop, Drop, EarlyDrop, serverVars
<1>3. ASSUME NEW c \in Conns, Authenticate(c) \/ Deliver(c) \/ Receive(c) \/ Answer(c)
                               \/ WriteOffline(c) \/ Gone(c) \/ Fail(c)
      PROVE  RegisteredIsServed'
  BY <1>p, <1>3 DEF Authenticate, Deliver, Receive, Answer, WriteOffline, Return, Gone, Fail
<1>4. ASSUME NEW c \in Conns, Connect(c) \/ Accept(c) PROVE RegisteredIsServed'
  BY <1>p, <1>4 DEF Connect, Accept, Register
<1>5. ASSUME NEW c \in Conns, Finalize(c) PROVE RegisteredIsServed'
  BY <1>p, <1>5 DEF Finalize, Disconnect
<1>6. ASSUME NEW c \in Conns, Raise(c) \/ SwallowOffline(c) PROVE RegisteredIsServed'
  <2>1. errors' = errors + 1 BY <1>6 DEF Raise, SwallowOffline
  <2>2. errors' # 0 BY <1>p, <2>1
  <2> QED BY <2>2
<1>7. CASE SendFails
  BY <1>p, <1>7 DEF SendFails, Disconnect
<1>8. CASE Crash
  BY <1>8 DEF Crash
<1>9. CASE UNCHANGED vars
  BY <1>9 DEF vars, serverVars, faultVars
<1> QED
  BY <1>1, <1>2, <1>3, <1>4, <1>5, <1>6, <1>7, <1>8, <1>9 DEF Next, Handler

\* Whatever the drops, reconnects and restarts, the registered connection has a
\* handler as long as nothing has raised between accept() and the try.
THEOREM ServedCorrect == Spec => []RegisteredIsServed
<1>1. Init => RegisteredIsServed
  BY DEF Init, RegisteredIsServed
<1>2. IInv /\ RegisteredIsServed /\ [Next]_vars => RegisteredIsServed'
  BY ServedStep
<1> QED
  BY Invariance, <1>1, <1>2, PTL DEF Spec
=============================================================================
