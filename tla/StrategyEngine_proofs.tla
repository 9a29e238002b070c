------------------------ MODULE StrategyEngine_proofs ------------------------
(***************************************************************************)
(* No evaluation, among any number that run at once, sends a live order    *)
(* against a reason that held all the time since it began; the worker,     *)
(* when it is alone, sends one order for a candle.                         *)
(***************************************************************************)
EXTENDS StrategyEngine, TLAPS

PastState == Steps \ {"idle", "state"}
PastAccount == Steps \ {"idle", "state", "account", "selfdisable"}
PastGate == {"limits", "flush", "dispatch", "commit"}
PastDryRun == {"flush", "dispatch", "commit"}
HasCandle == {"gate", "limits", "nothing", "blocked", "flush", "dispatch", "commit"}

\* What an evaluation has read rules out the reasons it was read against.
Cleared(e) ==
  /\ pc[e] \in PastState => "disabled" \notin stops[e]
  /\ (pc[e] \in PastState /\ ~sawDry[e]) => "dry" \notin stops[e]
  /\ (pc[e] \in PastAccount /\ ~sawDry[e]) => "account" \notin stops[e]
  /\ pc[e] \in PastGate => "killed" \notin stops[e]

\* Only a live evaluation that saw the agent gets past the dry-run gate.
LiveOnly(e) == pc[e] \in PastDryRun => ~sawDry[e] /\ sawAgent[e]

\* Its candle is newer than the one the state row named.
CandleNew(e) == pc[e] \in HasCandle => sawLast[e] < forCandle[e]

Sound(e) == Cleared(e) /\ LiveOnly(e) /\ CandleNew(e)

IInv == TypeOK /\ \A e \in Evaluators : Sound(e)

\* The inductive invariant holds initially, when no evaluation is under way.
LEMMA InitHolds == Init => IInv
<1> SUFFICES ASSUME Init PROVE IInv
  OBVIOUS
<1> USE StrategyAssumption
<1>1. /\ pc \in [Evaluators -> Steps] /\ stops \in [Evaluators -> SUBSET Stops]
      /\ sawDry \in [Evaluators -> BOOLEAN] /\ sawAgent \in [Evaluators -> BOOLEAN]
  BY DEF Init, Steps
<1>2. /\ sawLast \in [Evaluators -> Candles] /\ forCandle \in [Evaluators -> Candles]
      /\ mine \in [Evaluators -> Orders \cup {NoOrder}] /\ orderCandle \in [Orders -> Candles]
      /\ nextOrder \in 0 .. MaxOrders /\ lost \in 0 .. MaxLost
      /\ lastCandle \in Candles /\ candle \in Candles
  BY DEF Init, Candles, NoOrder
<1>3. TypeOK
  BY <1>1, <1>2 DEF Init, TypeOK, Accounts, Feeds, Warmth
<1>4. ASSUME NEW e \in Evaluators PROVE Sound(e)
  BY DEF Init, Sound, Cleared, LiveOnly, CandleNew, PastState, PastAccount, PastGate,
         PastDryRun, HasCandle
<1> QED BY <1>3, <1>4 DEF IInv

\* A history that is only intersected keeps what it has ruled out.
LEMMA StopsShrink ==
  ASSUME TypeOK, KeepStops
  PROVE  /\ stops' \in [Evaluators -> SUBSET Stops]
         /\ \A e \in Evaluators : stops'[e] = stops[e] \cap StopsNow'
BY DEF TypeOK, KeepStops

\* The end of an evaluation leaves the types in place and forgets what that evaluation had read
\* (the return of evaluate_strategy_for_account).
LEMMA EndClears ==
  ASSUME NEW e \in Evaluators, TypeOK, End(e)
  PROVE  /\ pc' \in [Evaluators -> Steps]
         /\ sawDry' \in [Evaluators -> BOOLEAN] /\ sawAgent' \in [Evaluators -> BOOLEAN]
         /\ sawLast' \in [Evaluators -> Candles] /\ forCandle' \in [Evaluators -> Candles]
         /\ mine' \in [Evaluators -> Orders \cup {NoOrder}]
         /\ pc'[e] = "idle"
         /\ \A d \in Evaluators \ {e} :
              /\ pc'[d] = pc[d] /\ sawDry'[d] = sawDry[d] /\ sawLast'[d] = sawLast[d]
              /\ sawAgent'[d] = sawAgent[d] /\ forCandle'[d] = forCandle[d]
              /\ mine'[d] = mine[d]
BY StrategyAssumption DEF TypeOK, End, Steps, Candles, NoOrder

\* Every action keeps the types.
LEMMA TypeStep == IInv /\ [Next]_vars => TypeOK'
<1> SUFFICES ASSUME IInv, [Next]_vars PROVE TypeOK'
  OBVIOUS
<1> USE StrategyAssumption
<1> USE DEF stateVars, envVars, sawVars, orderVars, brokerVars
<1>0. TypeOK
  BY DEF IInv
<1>1. ASSUME NEW e \in Evaluators, Start(e) PROVE TypeOK'
  BY <1>0, <1>1 DEF Start, Goto, StopsNow, TypeOK, Steps
<1>k. ASSUME KeepStops PROVE stops' \in [Evaluators -> SUBSET Stops]
  BY <1>0, <1>k, StopsShrink
<1>2. ASSUME NEW e \in Evaluators, ReadState(e) PROVE TypeOK'
  <2>1. CASE enabled
    <3>1. /\ pc' \in [Evaluators -> Steps] /\ sawDry' \in [Evaluators -> BOOLEAN]
          /\ sawLast' \in [Evaluators -> Candles]
          /\ UNCHANGED <<sawAgent, forCandle, mine>>
      BY <1>0, <1>2, <2>1 DEF ReadState, Goto, TypeOK, Steps
    <3> QED BY <1>0, <1>2, <1>k, <3>1 DEF ReadState, TypeOK
  <2>2. CASE ~enabled
    BY <1>0, <1>2, <1>k, <2>2, EndClears DEF ReadState, TypeOK
  <2> QED BY <2>1, <2>2
<1>3. ASSUME NEW e \in Evaluators, ReadAccount(e) PROVE TypeOK'
  <2>1. CASE End(e)
    BY <1>0, <1>3, <1>k, <2>1, EndClears DEF ReadAccount, TypeOK
  <2>2. CASE UNCHANGED <<sawVars, mine>> /\ (Goto(e, "selfdisable") \/ Goto(e, "agent"))
    BY <1>0, <1>3, <1>k, <2>2 DEF ReadAccount, Goto, TypeOK, Steps
  <2> QED BY <1>3, <2>1, <2>2 DEF ReadAccount
<1>4. ASSUME NEW e \in Evaluators, SelfDisable(e) PROVE TypeOK'
  BY <1>0, <1>4, <1>k, EndClears DEF SelfDisable, TypeOK
<1>5. ASSUME NEW e \in Evaluators, ReadAgent(e) PROVE TypeOK'
  <2>1. CASE End(e)
    BY <1>0, <1>5, <1>k, <2>1, EndClears DEF ReadAgent, TypeOK
  <2>2. CASE ~End(e)
    <3>1. /\ pc' \in [Evaluators -> Steps] /\ sawAgent' \in [Evaluators -> BOOLEAN]
          /\ UNCHANGED <<sawDry, sawLast, forCandle, mine>>
      BY <1>0, <1>5, <2>2 DEF ReadAgent, Goto, TypeOK, Steps
    <3> QED BY <1>0, <1>5, <1>k, <3>1 DEF ReadAgent, TypeOK
  <2> QED BY <2>1, <2>2
<1>6. ASSUME NEW e \in Evaluators, ReadPosition(e) \/ Seed(e) PROVE TypeOK'
  <2>0. /\ UNCHANGED <<stateVars, killed, account, agentUp, feed, candle, lock, orderVars,
                        brokerVars, lost>>
        /\ bars' \in Warmth /\ KeepStops
    BY <1>0, <1>6 DEF ReadPosition, Seed, TypeOK, Warmth
  <2>1. CASE End(e)
    BY <1>0, <1>k, <2>0, <2>1, EndClears DEF TypeOK
  <2>2. CASE ~End(e)
    <3>1. /\ pc' \in [Evaluators -> Steps] /\ forCandle' \in [Evaluators -> Candles]
          /\ UNCHANGED <<sawDry, sawLast, sawAgent, mine>>
      BY <1>0, <1>6, <2>2 DEF ReadPosition, Seed, Consider, Goto, TypeOK, Steps
    <3> QED BY <1>0, <1>k, <2>0, <3>1 DEF TypeOK
  <2> QED BY <2>1, <2>2
<1>7. ASSUME NEW e \in Evaluators, Record(e) PROVE TypeOK'
  BY <1>0, <1>7, <1>k, EndClears DEF Record, TypeOK
<1>8. ASSUME NEW e \in Evaluators, ReadKillSwitch(e) \/ PassLimits(e) PROVE TypeOK'
  BY <1>0, <1>8, <1>k DEF ReadKillSwitch, PassLimits, Goto, TypeOK, Steps
<1>9. ASSUME NEW e \in Evaluators, Flush(e) PROVE TypeOK'
  BY <1>0, <1>9, <1>k DEF Flush, Goto, TypeOK, Steps
<1>10. ASSUME NEW e \in Evaluators, Dispatch(e) PROVE TypeOK'
  <2>1. /\ nextOrder' \in 0 .. MaxOrders /\ sent' \subseteq Orders
        /\ orderCandle' \in [Orders -> Candles]
        /\ mine' \in [Evaluators -> Orders \cup {NoOrder}]
    <3>1. nextOrder + 1 \in Orders
      BY <1>0, <1>10 DEF Dispatch, TypeOK, Orders
    <3>2. CASE agentUp
      <4>1. /\ nextOrder' = nextOrder + 1
            /\ orderCandle' = [orderCandle EXCEPT ![nextOrder + 1] = forCandle[e]]
            /\ sent' = sent \cup {nextOrder + 1}
            /\ mine' = [mine EXCEPT ![e] = nextOrder + 1]
        BY <1>10, <3>2 DEF Dispatch
      <4>2. forCandle[e] \in Candles
        BY <1>0 DEF TypeOK
      <4>3. nextOrder' \in 0 .. MaxOrders
        BY <3>1, <4>1 DEF Orders
      <4>4. orderCandle' \in [Orders -> Candles]
        BY <1>0, <4>1, <4>2 DEF TypeOK
      <4>5. sent' \subseteq Orders
        BY <1>0, <3>1, <4>1 DEF TypeOK
      <4>6. mine' \in [Evaluators -> Orders \cup {NoOrder}]
        BY <1>0, <3>1, <4>1 DEF TypeOK
      <4> QED BY <4>3, <4>4, <4>5, <4>6
    <3>3. CASE ~agentUp
      BY <1>0, <1>10, <3>3 DEF Dispatch, TypeOK
    <3> QED BY <3>2, <3>3
  <2>2. pc' \in [Evaluators -> Steps]
    BY <1>0, <1>10 DEF Dispatch, Goto, TypeOK, Steps
  <2> QED BY <1>0, <1>10, <1>k, <2>1, <2>2 DEF Dispatch, TypeOK
<1>11. ASSUME NEW e \in Evaluators, Commit(e) PROVE TypeOK'
  <2>1. stored' \subseteq Orders /\ lastCandle' \in Candles
    BY <1>0, <1>11 DEF Commit, TypeOK
  <2> QED BY <1>0, <1>11, <1>k, <2>1, EndClears DEF Commit, TypeOK
<1>12. ASSUME NEW e \in Evaluators, LoseCommit(e) PROVE TypeOK'
  BY <1>0, <1>12, <1>k, EndClears DEF LoseCommit, TypeOK
<1>13. ASSUME NEW dry \in BOOLEAN, enable_strategy(dry) PROVE TypeOK'
  BY <1>0, <1>13, <1>k DEF enable_strategy, TypeOK
<1>14. CASE disable_strategy
  BY <1>0, <1>14, <1>k DEF disable_strategy, TypeOK
<1>15. ASSUME NEW active \in BOOLEAN, set_kill_switch(active) PROVE TypeOK'
  BY <1>0, <1>15, <1>k DEF set_kill_switch, TypeOK
<1>16. ASSUME NEW state \in Accounts, ChangeAccount(state) PROVE TypeOK'
  BY <1>0, <1>16, <1>k DEF ChangeAccount, TypeOK
<1>17. CASE NextCandle
  BY <1>0, <1>17, <1>k DEF NextCandle, TypeOK, Candles
<1>18. CASE Environment
  BY <1>0, <1>18, <1>k DEF Environment, TypeOK
<1>19. ASSUME NEW i \in Orders, Fill(i) \/ Refuse(i) \/ Book(i) \/ CloseByCommand(i) \/ BrokerClose(i)
       PROVE  TypeOK'
  BY <1>0, <1>19, <1>k DEF Fill, Refuse, Book, CloseByCommand, BrokerClose, TypeOK
<1>20. CASE UNCHANGED vars
  BY <1>0, <1>20 DEF vars, TypeOK
<1> QED
  BY <1>1, <1>2, <1>3, <1>4, <1>5, <1>6, <1>7, <1>8, <1>9, <1>10, <1>11, <1>12, <1>13,
     <1>14, <1>15, <1>16, <1>17, <1>18, <1>19, <1>20
  DEF Next, Evaluate

\* An evaluation that is not the one that moves stays sound: its locals are
\* its own, and the history only shrinks.
LEMMA OthersSound ==
  ASSUME NEW d \in Evaluators, Sound(d), TypeOK,
         pc'[d] = pc[d], sawDry'[d] = sawDry[d], sawLast'[d] = sawLast[d],
         sawAgent'[d] = sawAgent[d], forCandle'[d] = forCandle[d],
         stops'[d] \subseteq stops[d]
  PROVE  Sound(d)'
BY DEF Sound, Cleared, LiveOnly, CandleNew

\* Every action keeps every evaluation sound.
LEMMA SoundStep ==
  ASSUME IInv, [Next]_vars, NEW d \in Evaluators
  PROVE  Sound(d)'
<1> USE StrategyAssumption
<1> USE DEF stateVars, envVars, sawVars, PastState, PastAccount, PastGate, PastDryRun,
            HasCandle, Steps
<1>0. /\ TypeOK /\ TypeOK' /\ Sound(d)
  BY TypeStep DEF IInv, TypeOK, Candles
<1>t. /\ pc \in [Evaluators -> Steps] /\ stops \in [Evaluators -> SUBSET Stops]
      /\ sawDry \in [Evaluators -> BOOLEAN] /\ sawAgent \in [Evaluators -> BOOLEAN]
      /\ sawLast \in [Evaluators -> Candles] /\ forCandle \in [Evaluators -> Candles]
      /\ mine \in [Evaluators -> Orders \cup {NoOrder}]
  BY <1>0 DEF TypeOK
<1>k. ASSUME KeepStops PROVE stops'[d] = stops[d] \cap StopsNow'
  BY <1>0, <1>k, StopsShrink
<1>e. ASSUME NEW e \in Evaluators, End(e), KeepStops PROVE Sound(d)'
  <2>1. CASE d = e
    BY <1>0, <1>e, <2>1, EndClears DEF Sound, Cleared, LiveOnly, CandleNew
  <2>2. CASE d # e
    <3>1. stops'[d] \subseteq stops[d]
      BY <1>e, <1>k
    <3> QED BY <1>0, <1>e, <2>2, <3>1, EndClears, OthersSound
  <2> QED BY <2>1, <2>2
<1>1. ASSUME NEW e \in Evaluators, Start(e) PROVE Sound(d)'
  <2>1. CASE d = e
    BY <1>t, <1>1, <2>1 DEF Start, Goto, Sound, Cleared, LiveOnly, CandleNew
  <2>2. CASE d # e
    BY <1>0, <1>t, <1>1, <2>2, OthersSound DEF Start, Goto
  <2> QED BY <2>1, <2>2
<1>2. ASSUME NEW e \in Evaluators, ReadState(e) PROVE Sound(d)'
  <2>1. CASE ~enabled
    BY <1>2, <1>e, <2>1 DEF ReadState
  <2>2. CASE enabled /\ d = e
    <3>1. /\ pc'[d] = "account" /\ sawDry'[d] = dryRun
          /\ enabled' = enabled /\ dryRun' = dryRun
      BY <1>t, <1>2, <2>2 DEF ReadState, Goto
    <3>2. "disabled" \notin stops'[d] /\ (~dryRun => "dry" \notin stops'[d])
      BY <1>2, <1>k, <2>2, <3>1 DEF ReadState, StopsNow
    <3> QED BY <3>1, <3>2 DEF Sound, Cleared, LiveOnly, CandleNew
  <2>3. CASE enabled /\ d # e
    <3>1. stops'[d] \subseteq stops[d]
      BY <1>2, <1>k DEF ReadState
    <3> QED BY <1>0, <1>t, <1>2, <2>3, <3>1, OthersSound DEF ReadState, Goto
  <2> QED BY <2>1, <2>2, <2>3
<1>3. ASSUME NEW e \in Evaluators, ReadAccount(e) PROVE Sound(d)'
  <2>1. CASE End(e)
    BY <1>3, <1>e, <2>1 DEF ReadAccount
  <2>2. CASE ~End(e) /\ d = e
    <3>1. /\ UNCHANGED <<sawDry, account>> /\ pc[d] = "account"
          /\ pc'[d] \in {"selfdisable", "agent"}
          /\ (pc'[d] = "agent" /\ ~sawDry[d]) => account = "authorised"
      BY <1>t, <1>3, <2>2 DEF ReadAccount, Goto
    <3>2. stops'[d] = stops[d] \cap StopsNow'
      BY <1>3, <1>k DEF ReadAccount
    <3>3. (pc'[d] = "agent" /\ ~sawDry'[d]) => "account" \notin stops'[d]
      BY <3>1, <3>2 DEF StopsNow
    <3>4. "disabled" \notin stops'[d] /\ (~sawDry'[d] => "dry" \notin stops'[d])
      BY <1>0, <3>1, <3>2 DEF Sound, Cleared
    <3> QED BY <3>1, <3>3, <3>4 DEF Sound, Cleared, LiveOnly, CandleNew
  <2>3. CASE ~End(e) /\ d # e
    <3>1. stops'[d] \subseteq stops[d]
      BY <1>3, <1>k DEF ReadAccount
    <3> QED BY <1>0, <1>t, <1>3, <2>3, <3>1, OthersSound DEF ReadAccount, Goto
  <2> QED BY <2>1, <2>2, <2>3
<1>4. ASSUME NEW e \in Evaluators,
             SelfDisable(e) \/ Record(e) \/ Commit(e) \/ LoseCommit(e)
      PROVE  Sound(d)'
  BY <1>4, <1>e DEF SelfDisable, Record, Commit, LoseCommit
<1>5. ASSUME NEW e \in Evaluators, ReadAgent(e) PROVE Sound(d)'
  <2>1. CASE End(e)
    BY <1>5, <1>e, <2>1 DEF ReadAgent
  <2>2. CASE ~End(e)
    <3>1. stops'[d] \subseteq stops[d]
      BY <1>5, <1>k DEF ReadAgent
    <3>2. CASE d = e
      BY <1>0, <1>t, <1>5, <2>2, <3>1, <3>2
      DEF ReadAgent, Goto, Sound, Cleared, LiveOnly, CandleNew
    <3>3. CASE d # e
      BY <1>0, <1>t, <1>5, <2>2, <3>1, <3>3, OthersSound DEF ReadAgent, Goto
    <3> QED BY <3>2, <3>3
  <2> QED BY <2>1, <2>2
<1>6. ASSUME NEW e \in Evaluators, ReadPosition(e) \/ Seed(e) PROVE Sound(d)'
  <2>0. KeepStops /\ pc[e] \in {"position", "seed"}
    BY <1>6 DEF ReadPosition, Seed
  <2>1. CASE End(e)
    BY <1>e, <2>0, <2>1
  <2>2. CASE ~End(e)
    <3>1. stops'[d] \subseteq stops[d]
      BY <1>k, <2>0
    <3>2. CASE d = e
      BY <1>0, <1>t, <1>6, <2>0, <2>2, <3>1, <3>2
      DEF ReadPosition, Seed, Consider, Goto, Sound, Cleared, LiveOnly, CandleNew
    <3>3. CASE d # e
      BY <1>0, <1>t, <1>6, <2>2, <3>1, <3>3, OthersSound DEF ReadPosition, Seed, Consider, Goto
    <3> QED BY <3>2, <3>3
  <2> QED BY <2>1, <2>2
<1>7. ASSUME NEW e \in Evaluators, ReadKillSwitch(e) PROVE Sound(d)'
  <2>1. stops'[d] = stops[d] \cap StopsNow' /\ stops'[d] \subseteq stops[d]
    BY <1>7, <1>k DEF ReadKillSwitch
  <2>2. CASE d = e
    <3>1. ~killed => "killed" \notin stops'[d]
      BY <1>7, <2>1 DEF ReadKillSwitch, StopsNow
    <3> QED BY <1>0, <1>t, <1>7, <2>1, <2>2, <3>1
            DEF ReadKillSwitch, Goto, Sound, Cleared, LiveOnly, CandleNew
  <2>3. CASE d # e
    BY <1>0, <1>t, <1>7, <2>1, <2>3, OthersSound DEF ReadKillSwitch, Goto
  <2> QED BY <2>2, <2>3
<1>8. ASSUME NEW e \in Evaluators, PassLimits(e) \/ Flush(e) PROVE Sound(d)'
  <2>1. stops'[d] \subseteq stops[d]
    BY <1>8, <1>k DEF PassLimits, Flush
  <2>2. CASE d = e
    BY <1>0, <1>t, <1>8, <2>1, <2>2
    DEF PassLimits, Flush, Goto, Sound, Cleared, LiveOnly, CandleNew
  <2>3. CASE d # e
    BY <1>0, <1>t, <1>8, <2>1, <2>3, OthersSound DEF PassLimits, Flush, Goto
  <2> QED BY <2>2, <2>3
<1>9. ASSUME NEW e \in Evaluators, Dispatch(e) PROVE Sound(d)'
  <2>1. stops'[d] \subseteq stops[d]
    BY <1>9, <1>k DEF Dispatch
  <2>2. CASE d = e
    BY <1>0, <1>t, <1>9, <2>1, <2>2 DEF Dispatch, Goto, Sound, Cleared, LiveOnly, CandleNew
  <2>3. CASE d # e
    BY <1>0, <1>t, <1>9, <2>1, <2>3, OthersSound DEF Dispatch, Goto
  <2> QED BY <2>2, <2>3
<1>10. ASSUME UNCHANGED <<pc, sawVars>>, stops'[d] \subseteq stops[d]
       PROVE  Sound(d)'
  BY <1>0, <1>10, OthersSound
<1>11. CASE \/ \E dry \in BOOLEAN : enable_strategy(dry)
            \/ disable_strategy
            \/ \E active \in BOOLEAN : set_kill_switch(active)
            \/ \E state \in Accounts : ChangeAccount(state)
            \/ NextCandle \/ Environment
  <2>1. KeepStops /\ UNCHANGED <<pc, sawVars>>
    BY <1>0, <1>11
    DEF enable_strategy, disable_strategy, set_kill_switch, ChangeAccount, NextCandle,
        Environment
  <2> QED BY <1>k, <1>10, <2>1
<1>12. CASE \E i \in Orders : Fill(i) \/ Refuse(i) \/ Book(i) \/ CloseByCommand(i) \/ BrokerClose(i)
  <2>1. KeepStops /\ UNCHANGED <<pc, sawVars>>
    BY <1>0, <1>12 DEF Fill, Refuse, Book, CloseByCommand, BrokerClose
  <2> QED BY <1>k, <1>10, <2>1
<1>13. CASE UNCHANGED vars
  BY <1>0, <1>10, <1>13 DEF vars
<1> QED
  BY <1>1, <1>2, <1>3, <1>4, <1>5, <1>6, <1>7, <1>8, <1>9, <1>11, <1>12, <1>13
  DEF Next, Evaluate

-----------------------------------------------------------------------------

\* The invariant holds of every behaviour, for any set of evaluations.
THEOREM Invariance == Spec => []IInv
<1>1. Init => IInv
  BY InitHolds
<1>2. IInv /\ [Next]_vars => IInv'
  BY TypeStep, SoundStep DEF IInv
<1> QED
  BY <1>1, <1>2, PTL DEF Spec

\* Every variable keeps its type.
THEOREM TypeCorrect == Spec => []TypeOK
<1>1. IInv => TypeOK
  BY DEF IInv
<1> QED
  BY Invariance, <1>1, PTL

\* The step that sends an order: every reason has been ruled out by then.
LEMMA SendStep ==
  ASSUME IInv, [Next]_vars, NEW d \in Evaluators, mine[d] = NoOrder, mine'[d] # NoOrder
  PROVE  stops[d] = {}
<1> USE DEF stateVars, envVars, sawVars, orderVars, brokerVars
<1>0. TypeOK /\ Sound(d)
  BY DEF IInv
<1>1. ASSUME NEW e \in Evaluators, End(e) PROVE FALSE
  BY <1>0, <1>1, EndClears DEF End, TypeOK
<1>2. ASSUME NEW e \in Evaluators, Dispatch(e) PROVE stops[d] = {}
  <2>1. d = e /\ pc[d] = "dispatch"
    BY <1>0, <1>2 DEF Dispatch, TypeOK
  <2>2. stops[d] \subseteq {"disabled", "dry", "killed", "account"}
    BY <1>0 DEF TypeOK, Stops
  <2> QED BY <1>0, <2>1, <2>2
          DEF Sound, Cleared, LiveOnly, PastState, PastAccount, PastGate, PastDryRun, Steps
<1>3. CASE UNCHANGED mine
  BY <1>3
<1>4. \/ UNCHANGED mine \/ \E e \in Evaluators : End(e) \/ Dispatch(e)
  BY DEF Next, Evaluate, Start, ReadState, ReadAccount, SelfDisable, ReadAgent, ReadPosition,
         Seed, Consider, Record, ReadKillSwitch, PassLimits, Flush, Commit, LoseCommit, enable_strategy,
         disable_strategy, set_kill_switch, ChangeAccount, NextCandle, Environment, Fill, Refuse,
         Book, CloseByCommand, BrokerClose, vars
<1> QED BY <1>1, <1>2, <1>3, <1>4

\* However the operator's requests fall between the awaits of any number of
\* evaluations, no live order is sent against a reason that held throughout.
THEOREM StopsCorrect == Spec => StopsRespected
<1>1. IInv /\ [Next]_vars
      => [\A e \in Evaluators : mine[e] = NoOrder /\ mine'[e] # NoOrder => stops[e] = {}]_vars
  BY SendStep
<1> QED
  BY Invariance, <1>1, PTL DEF Spec, StopsRespected

-----------------------------------------------------------------------------
(* The worker alone.                                                       *)

\* Between the worker's read of the state row and its commit nobody else
\* writes the candle.
RowCurrent == pc[Worker] \in PastState => sawLast[Worker] = lastCandle

\* The row names a candle at least as new as that of every order, but for the
\* order that waits for its commit.
Recorded ==
  \A i \in 1 .. nextOrder :
    \/ orderCandle[i] <= lastCandle
    \/ pc[Worker] = "commit" /\ i = nextOrder /\ orderCandle[i] = forCandle[Worker]

Alone == RowCurrent /\ Recorded /\ OneOrderPerCandle

\* A step that only ends an evaluation that has sent nothing, or moves it on
\* before its order, keeps the orders apart (the early returns of
\* evaluate_strategy_for_account).
LEMMA NoOrderStep ==
  ASSUME Recorded, OneOrderPerCandle, pc[Worker] # "commit", UNCHANGED <<nextOrder, orderCandle, lastCandle>>
  PROVE  Recorded' /\ OneOrderPerCandle'
BY DEF Recorded, OneOrderPerCandle

\* Every action keeps it when the worker is the only one that evaluates and no
\* commit is lost.
LEMMA AloneStep ==
  ASSUME Evaluators = {Worker}, MaxLost = 0, IInv, Alone, [Next]_vars
  PROVE  Alone'
<1> USE DEF stateVars, envVars, sawVars, orderVars, brokerVars
<1>0. TypeOK /\ TypeOK' /\ CandleNew(Worker)
  BY TypeStep DEF IInv, Sound
<1>t. /\ pc \in [{Worker} -> Steps] /\ sawLast \in [{Worker} -> Candles]
      /\ forCandle \in [{Worker} -> Candles] /\ orderCandle \in [Orders -> Candles]
      /\ nextOrder \in Nat /\ lastCandle \in Nat /\ Candles \subseteq Nat
      /\ forCandle[Worker] \in Nat /\ sawLast[Worker] \in Nat
  BY <1>0, StrategyAssumption DEF TypeOK, Candles
<1>a. RowCurrent /\ Recorded /\ OneOrderPerCandle
  BY DEF Alone
<1>n. ASSUME NEW i \in 1 .. nextOrder PROVE i \in Orders /\ orderCandle[i] \in Nat /\ i # nextOrder + 1
  <2>1. nextOrder \in 0 .. MaxOrders /\ MaxOrders \in Nat
    BY <1>0, StrategyAssumption DEF TypeOK
  <2>2. i \in Orders /\ i # nextOrder + 1
    BY <2>1 DEF Orders
  <2> QED BY <1>t, <2>2
<1>e. ASSUME End(Worker) PROVE pc'[Worker] = "idle" /\ RowCurrent'
  BY <1>t, <1>e DEF End, RowCurrent, PastState, Steps
<1>1. ASSUME NEW e \in Evaluators, Start(e) PROVE Alone'
  <2>1. e = Worker /\ pc[Worker] = "idle" /\ UNCHANGED <<nextOrder, orderCandle, lastCandle>>
    BY <1>1 DEF Start
  <2>2. RowCurrent'
    BY <1>t, <1>1, <2>1 DEF Start, Goto, RowCurrent, PastState
  <2> QED BY <1>a, <2>1, <2>2, NoOrderStep DEF Alone
<1>2. ASSUME NEW e \in Evaluators, ReadState(e) PROVE Alone'
  <2>1. e = Worker /\ pc[Worker] = "state" /\ UNCHANGED <<nextOrder, orderCandle, lastCandle>>
    BY <1>2 DEF ReadState
  <2>2. RowCurrent'
    <3>1. CASE enabled
      BY <1>t, <1>2, <2>1, <3>1 DEF ReadState, Goto, RowCurrent, PastState
    <3>2. CASE ~enabled
      BY <1>2, <1>e, <2>1, <3>2 DEF ReadState
    <3> QED BY <3>1, <3>2
  <2> QED BY <1>a, <2>1, <2>2, NoOrderStep DEF Alone
<1>3. ASSUME NEW e \in Evaluators,
             \/ ReadAccount(e) \/ SelfDisable(e) \/ ReadAgent(e) \/ ReadPosition(e) \/ Seed(e)
             \/ ReadKillSwitch(e) \/ PassLimits(e) \/ Flush(e)
      PROVE  Alone'
  <2>1. /\ e = Worker /\ pc[Worker] # "commit" /\ pc[Worker] \in PastState
        /\ UNCHANGED <<nextOrder, orderCandle, lastCandle>>
    BY <1>3 DEF ReadAccount, SelfDisable, ReadAgent, ReadPosition, Seed, ReadKillSwitch, PassLimits, Flush,
                PastState, Steps
  <2>2. End(Worker) \/ UNCHANGED sawLast
    BY <1>3, <2>1 DEF ReadAccount, SelfDisable, ReadAgent, ReadPosition, Seed, Consider, ReadKillSwitch,
                PassLimits, Flush
  <2>3. RowCurrent'
    BY <1>a, <1>e, <2>1, <2>2 DEF RowCurrent
  <2> QED BY <1>a, <2>1, <2>3, NoOrderStep DEF Alone
<1>4. ASSUME NEW e \in Evaluators, Record(e) PROVE Alone'
  <2>1. /\ e = Worker /\ pc[Worker] \in {"nothing", "blocked"} /\ End(Worker)
        /\ lastCandle' = forCandle[Worker] /\ UNCHANGED <<nextOrder, orderCandle>>
    BY <1>4 DEF Record
  <2>2. lastCandle < forCandle[Worker]
    BY <1>0, <1>a, <2>1 DEF CandleNew, HasCandle, RowCurrent, PastState, Steps
  <2>3. ASSUME NEW i \in 1 .. nextOrder PROVE orderCandle[i] <= lastCandle'
    <3>1. orderCandle[i] <= lastCandle
      BY <1>a, <2>1 DEF Recorded
    <3>2. orderCandle[i] \in Nat
      BY <1>n
    <3> QED BY <1>t, <2>1, <2>2, <3>1, <3>2
  <2>4. Recorded' /\ OneOrderPerCandle'
    BY <1>a, <2>1, <2>3 DEF Recorded, OneOrderPerCandle
  <2> QED BY <1>e, <2>1, <2>4 DEF Alone
<1>5. ASSUME NEW e \in Evaluators, Dispatch(e) PROVE Alone'
  <2>1. /\ e = Worker /\ pc[Worker] = "dispatch" /\ pc'[Worker] = "commit"
        /\ UNCHANGED <<lastCandle, sawLast, forCandle>>
    BY <1>t, <1>5 DEF Dispatch, Goto
  <2>2. RowCurrent'
    BY <1>a, <2>1 DEF RowCurrent, PastState, Steps
  <2>3. lastCandle < forCandle[Worker]
    BY <1>0, <1>a, <2>1 DEF CandleNew, HasCandle, RowCurrent, PastState, Steps
  <2>4. \A i \in 1 .. nextOrder : orderCandle[i] <= lastCandle
    BY <1>a, <2>1 DEF Recorded
  <2>5. CASE ~agentUp
    <3>1. UNCHANGED <<nextOrder, orderCandle>>
      BY <1>5, <2>5 DEF Dispatch
    <3>2. Recorded' /\ OneOrderPerCandle'
      BY <1>a, <2>1, <2>4, <3>1 DEF Recorded, OneOrderPerCandle
    <3> QED BY <2>2, <3>2 DEF Alone
  <2>6. CASE agentUp
    <3>1. /\ nextOrder' = nextOrder + 1 /\ nextOrder + 1 \in Orders
          /\ orderCandle' = [orderCandle EXCEPT ![nextOrder + 1] = forCandle[Worker]]
      BY <1>0, <1>5, <2>1, <2>6 DEF Dispatch, TypeOK, Orders
    <3>2. orderCandle'[nextOrder + 1] = forCandle[Worker]
      BY <1>t, <3>1
    <3>3. ASSUME NEW i \in 1 .. nextOrder PROVE orderCandle'[i] = orderCandle[i] /\ orderCandle[i] \in Nat
      <4>1. i \in Orders /\ i # nextOrder + 1 /\ orderCandle[i] \in Nat
        BY <1>n
      <4> QED BY <1>t, <3>1, <4>1
    <3>4. 1 .. nextOrder' = (1 .. nextOrder) \cup {nextOrder + 1}
      BY <1>t, <3>1
    <3>5. Recorded'
      <4>1. SUFFICES ASSUME NEW i \in 1 .. nextOrder'
                     PROVE  orderCandle'[i] <= lastCandle' \/ (i = nextOrder' /\ orderCandle'[i] = forCandle'[Worker])
        BY <2>1 DEF Recorded
      <4>2. CASE i = nextOrder + 1
        BY <2>1, <3>1, <3>2, <4>2
      <4>3. CASE i \in 1 .. nextOrder
        BY <2>1, <2>4, <3>3, <4>3
      <4> QED BY <3>4, <4>2, <4>3
    <3>6. ASSUME NEW i \in 1 .. nextOrder PROVE orderCandle'[i] # orderCandle'[nextOrder + 1]
      BY <1>t, <2>3, <2>4, <3>2, <3>3
    <3>7. OneOrderPerCandle'
      <4>1. SUFFICES ASSUME NEW i \in 1 .. nextOrder', NEW j \in 1 .. nextOrder', orderCandle'[i] = orderCandle'[j]
                     PROVE  i = j
        BY DEF OneOrderPerCandle
      <4>2. CASE i \in 1 .. nextOrder /\ j \in 1 .. nextOrder
        BY <1>a, <3>3, <4>1, <4>2 DEF OneOrderPerCandle
      <4> QED BY <3>4, <3>6, <4>1, <4>2
    <3> QED BY <2>2, <3>5, <3>7 DEF Alone
  <2> QED BY <2>5, <2>6
<1>6. ASSUME NEW e \in Evaluators, Commit(e) PROVE Alone'
  <2>1. /\ e = Worker /\ pc[Worker] = "commit" /\ End(Worker)
        /\ lastCandle' = forCandle[Worker] /\ UNCHANGED <<nextOrder, orderCandle>>
    BY <1>6 DEF Commit
  <2>2. lastCandle < forCandle[Worker]
    BY <1>0, <1>a, <2>1 DEF CandleNew, HasCandle, RowCurrent, PastState, Steps
  <2>3. ASSUME NEW i \in 1 .. nextOrder PROVE orderCandle[i] <= lastCandle'
    <3>1. orderCandle[i] <= lastCandle \/ orderCandle[i] = forCandle[Worker]
      BY <1>a DEF Recorded
    <3>2. orderCandle[i] \in Nat
      BY <1>n
    <3> QED BY <1>t, <2>1, <2>2, <3>1, <3>2
  <2>4. Recorded' /\ OneOrderPerCandle'
    BY <1>a, <2>1, <2>3 DEF Recorded, OneOrderPerCandle
  <2> QED BY <1>e, <2>1, <2>4 DEF Alone
<1>7. ASSUME NEW e \in Evaluators, LoseCommit(e) PROVE Alone'
  BY <1>0, <1>7 DEF LoseCommit, TypeOK
<1>8. ASSUME UNCHANGED <<pc, sawLast, forCandle, nextOrder, orderCandle, lastCandle>> PROVE Alone'
  BY <1>a, <1>8 DEF Alone, RowCurrent, Recorded, OneOrderPerCandle
<1>9. CASE \/ \E dry \in BOOLEAN : enable_strategy(dry)
           \/ disable_strategy
           \/ \E active \in BOOLEAN : set_kill_switch(active)
           \/ \E state \in Accounts : ChangeAccount(state)
           \/ NextCandle \/ Environment
  BY <1>8, <1>9
  DEF enable_strategy, disable_strategy, set_kill_switch, ChangeAccount, NextCandle, Environment
<1>10. CASE \E i \in Orders : Fill(i) \/ Refuse(i) \/ Book(i) \/ CloseByCommand(i) \/ BrokerClose(i)
  BY <1>8, <1>10 DEF Fill, Refuse, Book, CloseByCommand, BrokerClose
<1>11. CASE UNCHANGED vars
  BY <1>8, <1>11 DEF vars
<1> QED
  BY <1>1, <1>2, <1>3, <1>4, <1>5, <1>6, <1>7, <1>9, <1>10, <1>11 DEF Next, Evaluate

\* "same M15 candle start timestamp never produces two signals": it holds for
\* any number of candles and orders, also when the last bar goes back to an
\* older one, as long as the worker is the only evaluator and no commit is lost
\* after the order is out (with a second evaluator TLC finds it violated).
THEOREM OneOrderEach ==
  ASSUME Evaluators = {Worker}, MaxLost = 0
  PROVE  Spec => []OneOrderPerCandle
<1>1. Init => Alone
  BY DEF Init, Alone, RowCurrent, Recorded, OneOrderPerCandle, PastState
<1>2. IInv /\ Alone /\ [Next]_vars => Alone'
  BY AloneStep
<1>3. Alone => OneOrderPerCandle
  BY DEF Alone
<1> QED
  BY <1>1, <1>2, <1>3, Invariance, PTL DEF Spec
=============================================================================
