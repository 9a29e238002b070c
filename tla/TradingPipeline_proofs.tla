------------------------ MODULE TradingPipeline_proofs ------------------------
(***************************************************************************)
(* Proofs about TradingPipeline for any pipelines, signals, markets and    *)
(* limits: its types, the state machine of a command, the kill switch, the *)
(* limit on open positions, and that it implements Ledger.                 *)
(*                                                                         *)
(* The argument rests on one fact: a signal belongs to one cycle.  Numbers *)
(* of signals are never reused, so what a cycle knows about its own signal *)
(* (not decided, not filled, filled once) no other cycle can change.       *)
(***************************************************************************)
EXTENDS TradingPipeline, RiskEngine_proofs, FiniteSetTheorems, SequenceTheorems, TLAPS

(* The steps that end the cycle of a pipeline, or leave every cycle alone. *)
Ends(i) == Expire(i) \/ Block(i) \/ Refuse(i) \/ BookFails(i) \/ Reconcile(i) \/ CommitFails(i) \/ Restart(i)

(* The steps that change no cycle, decision or fill.                       *)
Aside == (\E i \in Pipelines : unfreeze_account(i)) \/ Operator

-----------------------------------------------------------------------------
(* The inductive invariant.                                                *)

(* Domains of the variables that have no simple type.                      *)
Domains == DOMAIN decided = Signals /\ DOMAIN broker = Pipelines /\ DOMAIN life = Pipelines /\ DOMAIN checked = Pipelines

(* A cycle works on a signal that has been created.                        *)
Owned == \A i \in Pipelines : current[i].id <= next

(* No two cycles work on one signal.                                       *)
Apart == \A i, j \in Pipelines : i # j /\ current[i].id # 0 => current[i].id # current[j].id

(* Nothing is known of a signal that has not been created.                 *)
Fresh == \A s \in Signals : s > next => decided[s].decision = "NONE" /\ fills[s] = 0

(* A signal that is not dispatched has not been filled.                    *)
Unfilled == \A i \in Pipelines : stage[i] \in {"proposed", "decided"} => fills[current[i].id] = 0

(* A signal that is not evaluated has no decision.                         *)
Undecided == \A i \in Pipelines : stage[i] = "proposed" => decided[current[i].id].decision = "NONE"

(* The broker's positions come from one fill each.                         *)
Filled == \A i \in Pipelines : \A b \in broker[i] :
              /\ b.signal \in Signals /\ fills[b.signal] = 1
              /\ \A c \in broker[i] : b.signal = c.signal => b = c

(* The inductive invariant of the refinement.                              *)
Cycles == TypeOK /\ Domains /\ Owned /\ Apart /\ Fresh /\ Unfilled /\ Undecided /\ Filled

-----------------------------------------------------------------------------
(* Type correctness.                                                       *)

USE DEF Signals, Committed

(* The default configuration is within every bound.                        *)
LEMMA DefaultsLimited == Defaults \in Limited /\ \A e \in BOOLEAN : [Defaults EXCEPT !.emergency = e] \in Limited
  BY NoneAssumption, LimitAssumption DEF Defaults, Limited, RiskConfigs

(* The emergency flag does not matter to the bound.                        *)
LEMMA EmergencyLimited == ASSUME NEW c \in Limited, NEW e \in BOOLEAN PROVE [c EXCEPT !.emergency = e] \in Limited
  BY DEF Limited, RiskConfigs

(* Setting one flag of a function of flags.                                *)
LEMMA FlagType ==
  ASSUME NEW f \in [Pipelines -> BOOLEAN], NEW i \in Pipelines, NEW v \in BOOLEAN
  PROVE  [f EXCEPT ![i] = v] \in [Pipelines -> BOOLEAN]
  OBVIOUS

(* The first state has the types.                                          *)
LEMMA InitTypes == Init => TypeOK /\ Domains
  <1> SUFFICES ASSUME Init PROVE TypeOK /\ Domains
    OBVIOUS
  <1>1. configs \in Seq(Limited)
    <2>1. CASE configs = <<>>
      BY <2>1
    <2>2. ASSUME NEW c \in Configs, configs = <<c>> PROVE configs \in Seq(Limited)
      <3>1. c \in Limited
        BY ConfigsAssumption
      <3>2. QED
        BY <3>1, <2>2
    <2>3. QED
      BY <2>1, <2>2 DEF Init
  <1>2. current \in [Pipelines -> [id : 0..MaxSignals, candidate : Candidates \cup {None}, ticket : Nat,
                                   state : DOMAIN VALID_TRANSITIONS \cup {"NONE"}]]
    BY BoundsAssumption DEF Init, NoCycle
  <1>3. QED
    BY <1>1, <1>2, BoundsAssumption DEF Init, TypeOK, Domains, Stages, NoCycle

(* A transition leads to a state of the state machine.                     *)
LEMMA TransitionType ==
  ASSUME NEW state \in DOMAIN VALID_TRANSITIONS \cup {"NONE"}
  PROVE  /\ AfterFill(AfterSend(state)) \in DOMAIN VALID_TRANSITIONS \cup {"NONE"}
         /\ AfterExpiry(AfterSend(state)) \in DOMAIN VALID_TRANSITIONS \cup {"NONE"}
  BY DEF AfterFill, AfterSend, AfterExpiry, transition_to, VALID_TRANSITIONS

(* Ending a cycle keeps the types.                                         *)
LEMMA EndsTypes == ASSUME TypeOK, Domains, NEW i \in Pipelines, Ends(i) PROVE TypeOK' /\ Domains'
  <1>1. current' = [current EXCEPT ![i] = NoCycle] /\ stage' = [stage EXCEPT ![i] = "idle"]
    BY DEF Ends, Expire, Block, Refuse, BookFails, Reconcile, CommitFails, Restart, Return, Goto
  <1>2. NoCycle \in [id : 0..MaxSignals, candidate : Candidates \cup {None}, ticket : Nat,
                    state : DOMAIN VALID_TRANSITIONS \cup {"NONE"}] /\ NoCycle.id = 0
    BY BoundsAssumption DEF NoCycle
  <1>3. current' \in [Pipelines -> [id : 0..MaxSignals, candidate : Candidates \cup {None}, ticket : Nat,
                                    state : DOMAIN VALID_TRANSITIONS \cup {"NONE"}]]
    BY <1>1, <1>2 DEF TypeOK
  <1>4. stage' \in [Pipelines -> Stages] /\ \A j \in Pipelines : (stage'[j] = "idle") <=> (current'[j].id = 0)
    BY <1>1, <1>2 DEF TypeOK, Stages
  <1>5. /\ UNCHANGED <<configs, command, next, fills, late, decided>>
        /\ signal' = signal \/ \E v \in {"EXPIRED", "BLOCKED", "EXECUTION_REJECTED", "EXECUTED"} :
                                  signal' = [signal EXCEPT ![current[i].id] = v]
        /\ frozen' = frozen \/ \E f \in BOOLEAN : frozen' = [frozen EXCEPT ![i] = f]
        /\ tickets' = tickets \/ tickets' = [tickets EXCEPT ![i] = 0]
        /\ DOMAIN broker' = Pipelines /\ DOMAIN life' = Pipelines /\ DOMAIN checked' = Pipelines
    <2> frozen[i] \in BOOLEAN
      BY DEF TypeOK
    <2> USE DEF Ends, account, rows, memory, TypeOK, Domains
    <2>1. CASE Expire(i)
      BY <2>1 DEF Expire
    <2>2. CASE Block(i)
      BY <2>2 DEF Block
    <2>3. CASE Refuse(i)
      BY <2>3 DEF Refuse
    <2>4. CASE BookFails(i)
      BY <2>4 DEF BookFails
    <2>5. CASE Reconcile(i)
      <3>1. (frozen[i] \/ has_critical_discrepancy(reconcile(server_pos_map, broker[i]))) \in BOOLEAN
        BY DEF has_critical_discrepancy
      <3>2. QED
        BY <2>5, <3>1 DEF Reconcile
    <2>6. CASE CommitFails(i)
      BY <2>6 DEF CommitFails
    <2>7. CASE Restart(i)
      BY <2>7 DEF Restart
    <2>8. QED
      BY <2>1, <2>2, <2>3, <2>4, <2>5, <2>6, <2>7
  <1>6. signal' \in [Signals -> {None, "PROPOSED", "EXPIRED", "BLOCKED", "EXECUTION_REJECTED", "EXECUTED"}]
    BY <1>5 DEF TypeOK
  <1>7. frozen' \in [Pipelines -> BOOLEAN]
    <2>1. frozen \in [Pipelines -> BOOLEAN]
      BY DEF TypeOK
    <2>2. ASSUME NEW f \in BOOLEAN, frozen' = [frozen EXCEPT ![i] = f] PROVE frozen' \in [Pipelines -> BOOLEAN]
      BY <2>1, <2>2, FlagType
    <2>3. QED
      BY <1>5, <2>1, <2>2
  <1>11. tickets' \in [Pipelines -> Nat]
    <2>1. tickets' = tickets \/ tickets' = [tickets EXCEPT ![i] = 0]
      BY <1>5
    <2>2. tickets \in [Pipelines -> Nat]
      BY DEF TypeOK
    <2>3. QED
      BY <2>1, <2>2
  <1>8. Domains'
    BY <1>5 DEF Domains
  <1>9. /\ command' \in [Signals -> {None, "FILLED", "EXPIRED"}] /\ next' \in 0..MaxSignals
        /\ fills' \in [Signals -> Nat] /\ late' \in [Pipelines -> Nat] /\ configs' \in Seq(Limited)
    BY <1>5 DEF TypeOK
  <1>10. QED
    BY <1>3, <1>4, <1>6, <1>7, <1>8, <1>9, <1>11 DEF TypeOK

(* Storing a configuration, or setting the switch, keeps the bound.        *)
LEMMA AsideConfigs == ASSUME TypeOK, Aside PROVE configs' \in Seq(Limited)
  <1>1. ASSUME NEW active \in BOOLEAN, set_kill_switch(active) PROVE configs' \in Seq(Limited)
    <2>1. CASE configs = <<>>
      <3>1. configs' = <<[Defaults EXCEPT !.emergency = active]>>
        BY <1>1, <2>1 DEF set_kill_switch
      <3>2. QED
        BY <3>1, DefaultsLimited
    <2>2. CASE configs # <<>>
      <3>1. configs \in Seq(Limited) /\ Len(configs) \in 1..Len(configs)
        BY <2>2 DEF TypeOK
      <3>2. [configs[Len(configs)] EXCEPT !.emergency = active] \in Limited
        <4>1. configs[Len(configs)] \in Limited
          BY <3>1
        <4>2. QED
          BY <4>1, EmergencyLimited
      <3>3. configs' = [configs EXCEPT ![Len(configs)] = [configs[Len(configs)] EXCEPT !.emergency = active]]
        BY <1>1, <2>2 DEF set_kill_switch
      <3>4. QED
        BY <3>1, <3>2, <3>3
    <2>3. QED
      BY <2>1, <2>2
  <1>2. ASSUME NEW c \in Configs, StoreConfig(c) PROVE configs' \in Seq(Limited)
    <2>1. c \in Limited /\ configs \in Seq(Limited) /\ configs' = Append(configs, c)
      BY <1>2, ConfigsAssumption DEF StoreConfig, TypeOK
    <2>2. QED
      BY <2>1
  <1>3. CASE UNCHANGED configs
    BY <1>3 DEF TypeOK
  <1>4. QED
    BY <1>1, <1>2, <1>3 DEF Aside, Operator, unfreeze_account, account, RecordEquity, RecordDay, trigger_news_sync

(* What the operator does keeps the types.                                 *)
LEMMA AsideTypes == ASSUME TypeOK, Domains, Aside PROVE TypeOK' /\ Domains'
  <1>1. /\ UNCHANGED <<rows, next, stage, current, tickets, life, broker, fills>>
        /\ frozen' = frozen \/ \E i \in Pipelines : frozen' = [frozen EXCEPT ![i] = FALSE]
        /\ late' = late \/ late' = [i \in Pipelines |-> 0]
        /\ DOMAIN checked' = Pipelines
    BY DEF Aside, Operator, unfreeze_account, set_kill_switch, StoreConfig, RecordEquity, RecordDay,
           trigger_news_sync, memory, Late, Domains
  <1>2. frozen' \in [Pipelines -> BOOLEAN]
    <2>1. frozen \in [Pipelines -> BOOLEAN]
      BY DEF TypeOK
    <2>2. ASSUME NEW i \in Pipelines, frozen' = [frozen EXCEPT ![i] = FALSE] PROVE frozen' \in [Pipelines -> BOOLEAN]
      BY <2>1, <2>2, FlagType
    <2>3. QED
      BY <1>1, <2>1, <2>2
  <1>6. late' \in [Pipelines -> Nat]
    BY <1>1 DEF TypeOK
  <1>3. Domains'
    BY <1>1 DEF Domains, rows
  <1>4. configs' \in Seq(Limited)
    BY AsideConfigs
  <1>5. QED
    BY <1>1, <1>2, <1>3, <1>4, <1>6 DEF TypeOK, rows

-----------------------------------------------------------------------------
(* The four steps that move a cycle on.                                    *)

(* Abbreviation for the type of current.                                   *)
CurrentType == [id : 0..MaxSignals, candidate : Candidates \cup {None}, ticket : Nat,
                state : DOMAIN VALID_TRANSITIONS \cup {"NONE"}]

(* Proposing keeps the types.                                              *)
LEMMA ProposeTypes == ASSUME TypeOK, Domains, NEW i \in Pipelines, Propose(i) PROVE TypeOK' /\ Domains'
  <1>1. PICK c \in Candidates :
          current' = [current EXCEPT ![i] = [id |-> next + 1, candidate |-> c, ticket |-> 0, state |-> "CREATED"]]
    BY DEF Propose
  <1>2. next' = next + 1 /\ next' \in 1..MaxSignals /\ stage' = [stage EXCEPT ![i] = "proposed"]
    BY BoundsAssumption DEF Propose, Goto, TypeOK
  <1>3. [id |-> next + 1, candidate |-> c, ticket |-> 0, state |-> "CREATED"] \in CurrentType
    BY <1>2 DEF CurrentType, VALID_TRANSITIONS
  <1>4. current' \in [Pipelines -> CurrentType]
    BY <1>1, <1>3 DEF TypeOK, CurrentType
  <1>5. stage' \in [Pipelines -> Stages] /\ \A j \in Pipelines : (stage'[j] = "idle") <=> (current'[j].id = 0)
    BY <1>1, <1>2, <1>3 DEF TypeOK, Stages, CurrentType
  <1>6. UNCHANGED <<account, rows, frozen, memory, fills, late, checked>>
    BY DEF Propose
  <1>7. Domains'
    BY <1>6 DEF Domains, rows, memory
  <1>8. QED
    BY <1>2, <1>4, <1>5, <1>6, <1>7 DEF TypeOK, CurrentType, account, rows, memory

(* Evaluating keeps the types.                                             *)
LEMMA EvaluateTypes == ASSUME TypeOK, Domains, NEW i \in Pipelines, Evaluate(i) PROVE TypeOK' /\ Domains'
  <1>1. /\ stage[i] = "proposed" /\ stage' = [stage EXCEPT ![i] = "decided"]
        /\ signal' = [signal EXCEPT ![current[i].id] = "PROPOSED"]
        /\ \E row : decided' = [decided EXCEPT ![current[i].id] = row]
        /\ UNCHANGED <<account, command, positions, next, current, frozen, memory, faults, fills, late, checked>>
    BY DEF Evaluate, Goto
  <1>2. signal' \in [Signals -> {None, "PROPOSED", "EXPIRED", "BLOCKED", "EXECUTION_REJECTED", "EXECUTED"}]
    BY <1>1 DEF TypeOK
  <1>3. stage' \in [Pipelines -> Stages] /\ \A j \in Pipelines : (stage'[j] = "idle") <=> (current'[j].id = 0)
    BY <1>1 DEF TypeOK, Stages
  <1>4. Domains'
    BY <1>1 DEF Domains, memory
  <1>5. QED
    BY <1>1, <1>2, <1>3, <1>4 DEF TypeOK, account, memory

(* Changing fields of a cycle.                                             *)
LEMMA CurrentFields ==
  ASSUME NEW r \in CurrentType, NEW t \in Nat, NEW state \in DOMAIN VALID_TRANSITIONS \cup {"NONE"}
  PROVE  /\ [r EXCEPT !.ticket = t, !.state = state] \in CurrentType
         /\ [r EXCEPT !.state = state] \in CurrentType
  <1> DEFINE States == DOMAIN VALID_TRANSITIONS \cup {"NONE"}
  <1> HIDE DEF States
  <1>1. state \in States /\ r \in [id : 0..MaxSignals, candidate : Candidates \cup {None}, ticket : Nat, state : States]
    BY DEF CurrentType, States
  <1>2. /\ [r EXCEPT !.ticket = t, !.state = state] \in [id : 0..MaxSignals, candidate : Candidates \cup {None}, ticket : Nat, state : States]
        /\ [r EXCEPT !.state = state] \in [id : 0..MaxSignals, candidate : Candidates \cup {None}, ticket : Nat, state : States]
    BY <1>1
  <1>3. QED
    BY <1>2 DEF CurrentType, States

(* What Dispatch does to the cycle of a pipeline.                          *)
LEMMA DispatchStep ==
  ASSUME TypeOK, NEW i \in Pipelines, Dispatch(i)
  PROVE  /\ stage[i] = "decided" /\ stage' = [stage EXCEPT ![i] = "dispatched"]
         /\ decided[current[i].id].decision = "APPROVED"
         /\ UNCHANGED <<account, rows, next, life>>
         /\ current' \in [Pipelines -> CurrentType]
         /\ \A j \in Pipelines : current'[j].id = current[j].id
         /\ \A j \in Pipelines : j # i => current'[j] = current[j]
         /\ \/ Fill(i) /\ current'[i].ticket = tickets[i] + 1 /\ current'[i].state = AfterFill(AfterSend(current[i].state))
            \/ TooLate(i) /\ current'[i].ticket = current[i].ticket /\ current'[i].state = AfterExpiry(AfterSend(current[i].state))
  <1>1. current \in [Pipelines -> CurrentType] /\ current[i] \in CurrentType /\ tickets[i] \in Nat
    BY DEF TypeOK, CurrentType
  <1>2. /\ AfterFill(AfterSend(current[i].state)) \in DOMAIN VALID_TRANSITIONS \cup {"NONE"}
        /\ AfterExpiry(AfterSend(current[i].state)) \in DOMAIN VALID_TRANSITIONS \cup {"NONE"}
    BY <1>1, TransitionType DEF CurrentType
  <1>3. CASE Fill(i)
    <2>1. current' = [current EXCEPT ![i] = [current[i] EXCEPT !.ticket = tickets[i] + 1,
                                                             !.state = AfterFill(AfterSend(current[i].state))]]
      BY <1>1, <1>3 DEF Fill, next_ticket, CurrentType
    <2>2. [current[i] EXCEPT !.ticket = tickets[i] + 1, !.state = AfterFill(AfterSend(current[i].state))] \in CurrentType
      <3>1. tickets[i] + 1 \in Nat
        BY <1>1
      <3>2. QED
        BY <1>1, <1>2, <3>1, CurrentFields, Zenon
    <2>3. QED
      BY <1>1, <1>3, <2>1, <2>2 DEF Dispatch, Goto, Authorized, CurrentType
  <1>4. CASE TooLate(i)
    <2>1. current' = [current EXCEPT ![i] = [current[i] EXCEPT !.state = AfterExpiry(AfterSend(current[i].state))]]
      BY <1>1, <1>4 DEF TooLate, CurrentType
    <2>2. [current[i] EXCEPT !.state = AfterExpiry(AfterSend(current[i].state))] \in CurrentType
      BY <1>1, <1>2, CurrentFields
    <2>3. QED
      BY <1>1, <1>4, <2>1, <2>2 DEF Dispatch, Goto, Authorized, CurrentType
  <1>5. QED
    BY <1>3, <1>4 DEF Dispatch

(* Dispatching keeps the types.                                            *)
LEMMA DispatchTypes == ASSUME TypeOK, Domains, NEW i \in Pipelines, Dispatch(i) PROVE TypeOK' /\ Domains'
  <1>7. /\ stage[i] = "decided" /\ stage' = [stage EXCEPT ![i] = "dispatched"]
        /\ \A j \in Pipelines : current'[j].id = current[j].id
    BY DispatchStep
  <1>8. stage \in [Pipelines -> Stages] /\ \A j \in Pipelines : (stage[j] = "idle") <=> (current[j].id = 0)
    BY DEF TypeOK
  <1>1. stage' \in [Pipelines -> Stages] /\ \A j \in Pipelines : (stage'[j] = "idle") <=> (current'[j].id = 0)
    BY <1>7, <1>8 DEF Stages
  <1>2. current' \in [Pipelines -> CurrentType]
    BY DispatchStep
  <1>3. fills' \in [Signals -> Nat] /\ tickets' \in [Pipelines -> Nat] /\ late' \in [Pipelines -> Nat]
    <2>1. CASE Fill(i)
      <3>5. fills' = [fills EXCEPT ![current[i].id] = fills[current[i].id] + 1]
        BY <2>1 DEF Fill
      <3>6. fills \in [Signals -> Nat] /\ current[i].id \in Signals
        BY <1>7, <1>8, BoundsAssumption DEF TypeOK
      <3>1. fills' \in [Signals -> Nat]
        BY <3>5, <3>6
      <3>2. tickets' \in [Pipelines -> Nat]
        BY <2>1 DEF Fill, next_ticket, TypeOK
      <3>3. late' \in [Pipelines -> Nat]
        BY <2>1 DEF Fill, TypeOK
      <3>4. QED
        BY <3>1, <3>2, <3>3
    <2>2. CASE TooLate(i)
      BY <2>2 DEF TooLate, TypeOK
    <2>3. QED
      BY <2>1, <2>2 DEF Dispatch
  <1>4. UNCHANGED <<account, rows, next, frozen, life>>
    BY DEF Dispatch
  <1>5. Domains'
    <2>1. DOMAIN broker' = Pipelines /\ DOMAIN checked' = Pipelines
      BY DEF Dispatch, Fill, TooLate, Domains
    <2>2. QED
      BY <1>4, <2>1 DEF Domains, rows
  <1>6. QED
    BY <1>1, <1>2, <1>3, <1>4, <1>5 DEF TypeOK, CurrentType, account, rows

(* Booking keeps the types.                                                *)
LEMMA BookTypes == ASSUME TypeOK, Domains, NEW i \in Pipelines, Book(i) PROVE TypeOK' /\ Domains'
  <1>1. /\ stage[i] = "dispatched" /\ stage' = [stage EXCEPT ![i] = "booked"]
        /\ \E v \in {"FILLED", "EXPIRED"} : command' = [command EXCEPT ![current[i].id] = v]
        /\ UNCHANGED <<account, signal, decided, next, current, frozen, memory, faults, fills, late, checked>>
    BY DEF Book, Goto
  <1>2. command' \in [Signals -> {None, "FILLED", "EXPIRED"}]
    BY <1>1 DEF TypeOK
  <1>3. stage' \in [Pipelines -> Stages] /\ \A j \in Pipelines : (stage'[j] = "idle") <=> (current'[j].id = 0)
    BY <1>1 DEF TypeOK, Stages
  <1>4. Domains'
    BY <1>1 DEF Domains, memory
  <1>5. QED
    BY <1>1, <1>2, <1>3, <1>4 DEF TypeOK, account, memory

(* Every step is one of these.                                             *)
LEMMA NextCases ==
  ASSUME [Next]_vars
  PROVE  \/ \E i \in Pipelines : Propose(i) \/ Evaluate(i) \/ Dispatch(i) \/ Book(i) \/ Ends(i)
         \/ Aside
         \/ UNCHANGED vars
  BY DEF Next, process_tick, Failure, Ends, Aside

(* Every step keeps the types.                                             *)
LEMMA NextTypes == TypeOK /\ Domains /\ [Next]_vars => TypeOK' /\ Domains'
  <1> SUFFICES ASSUME TypeOK, Domains, [Next]_vars PROVE TypeOK' /\ Domains'
    OBVIOUS
  <1>1. CASE UNCHANGED vars
    BY <1>1 DEF vars, account, rows, memory, TypeOK, Domains
  <1>2. QED
    BY <1>1, NextCases, ProposeTypes, EvaluateTypes, DispatchTypes, BookTypes, EndsTypes, AsideTypes

(* TypeOK holds whatever the pipelines, the operator and the failures do.  *)
THEOREM TypeCorrect == Spec => []TypeOK
  <1>1. Init => TypeOK /\ Domains
    BY InitTypes
  <1>2. TypeOK /\ Domains /\ [Next]_vars => TypeOK' /\ Domains'
    BY NextTypes
  <1>3. QED
    BY <1>1, <1>2, PTL DEF Spec

-----------------------------------------------------------------------------
(* The cycles own their signals.                                           *)

(* The parts of the invariant that are not about types.                    *)
Ownership == Owned /\ Apart /\ Fresh /\ Unfilled /\ Undecided /\ Filled

(* A cycle that runs has a signal.                                         *)
LEMMA Running == ASSUME TypeOK, NEW i \in Pipelines, stage[i] # "idle" PROVE current[i].id \in Signals
  BY BoundsAssumption DEF TypeOK

(* The first state has no cycles.                                          *)
LEMMA InitOwnership == Init => Ownership
  BY BoundsAssumption DEF Init, Ownership, Owned, Apart, Fresh, Unfilled, Undecided, Filled, NoCycle, NoDecision

(* A new signal is nobody else's.                                          *)
LEMMA ProposeOwnership == ASSUME Cycles, NEW i \in Pipelines, Propose(i) PROVE Ownership'
  <1>1. /\ next \in Nat /\ next' = next + 1 /\ next + 1 \in Signals
        /\ current'[i].id = next + 1 /\ \A j \in Pipelines : j # i => current'[j] = current[j]
    BY BoundsAssumption DEF Cycles, TypeOK, Propose
  <1>2. stage'[i] = "proposed" /\ \A j \in Pipelines : j # i => stage'[j] = stage[j]
    BY DEF Cycles, TypeOK, Propose, Goto
  <1>3. UNCHANGED <<decided, fills, broker>>
    BY DEF Propose, rows, memory
  <1>4. \A j \in Pipelines : current[j].id \in Nat /\ current[j].id <= next
    BY DEF Cycles, TypeOK, Owned
  <1>5. Owned' /\ Apart'
    BY <1>1, <1>4 DEF Cycles, Apart, Owned
  <1>6. decided[next + 1].decision = "NONE" /\ fills[next + 1] = 0
    BY <1>1 DEF Cycles, Fresh
  <1>7. Fresh'
    BY <1>1, <1>3 DEF Cycles, Fresh
  <1>8. Unfilled'
    BY <1>1, <1>2, <1>3, <1>6 DEF Cycles, Unfilled
  <1>9. Undecided'
    BY <1>1, <1>2, <1>3, <1>6 DEF Cycles, Undecided
  <1>10. Filled'
    BY <1>3 DEF Cycles, Filled
  <1>11. QED
    BY <1>5, <1>7, <1>8, <1>9, <1>10 DEF Ownership

(* What Evaluate does to the decisions.                                    *)
LEMMA EvaluateStep ==
  ASSUME Cycles, NEW i \in Pipelines, Evaluate(i)
  PROVE  /\ stage[i] = "proposed" /\ stage' = [stage EXCEPT ![i] = "decided"]
         /\ current[i].id \in Signals
         /\ \A s \in Signals : s # current[i].id => decided'[s] = decided[s]
         /\ \E m \in Markets : decided'[current[i].id].decision =
               evaluate(Config, Snapshot, current[i].candidate, MarketCondition(m), m.news).decision
         /\ UNCHANGED <<account, command, positions, next, current, memory, fills, late>>
  <1>1. current[i].id \in Signals
    BY Running DEF Evaluate, Cycles
  <1>2. DOMAIN decided = Signals
    BY DEF Cycles, Domains
  <1>3. QED
    BY <1>1, <1>2 DEF Evaluate, Goto

(* A decision is about the signal of its own cycle.                        *)
LEMMA EvaluateOwnership == ASSUME Cycles, NEW i \in Pipelines, Evaluate(i) PROVE Ownership'
  <1>1. /\ stage[i] = "proposed" /\ stage' = [stage EXCEPT ![i] = "decided"]
        /\ current[i].id \in Signals
        /\ \A s \in Signals : s # current[i].id => decided'[s] = decided[s]
        /\ UNCHANGED <<next, current, fills, broker>>
    BY EvaluateStep DEF memory
  <1>2. stage'[i] = "decided" /\ \A j \in Pipelines : j # i => stage'[j] = stage[j]
    BY <1>1 DEF Cycles, TypeOK
  <1>3. Owned' /\ Apart' /\ Filled'
    BY <1>1 DEF Cycles, Owned, Apart, Filled
  <1>4. Fresh'
    <2>1. current[i].id <= next /\ next \in Nat
      BY DEF Cycles, Owned, TypeOK
    <2>2. QED
      BY <1>1, <2>1 DEF Cycles, Fresh
  <1>5. Unfilled'
    BY <1>1, <1>2 DEF Cycles, Unfilled
  <1>6. Undecided'
    <2>1. ASSUME NEW j \in Pipelines, stage'[j] = "proposed" PROVE decided'[current'[j].id].decision = "NONE"
      <3>1. j # i /\ stage[j] = "proposed"
        BY <1>2, <2>1
      <3>2. current[j].id \in Signals /\ current[j].id # current[i].id
        BY <3>1, <1>1, Running DEF Cycles, Apart
      <3>3. QED
        BY <1>1, <3>1, <3>2 DEF Cycles, Undecided
    <2>2. QED
      BY <2>1 DEF Undecided
  <1>7. QED
    BY <1>3, <1>4, <1>5, <1>6 DEF Ownership

(* What a fill does to the history and to the simulator.                   *)
LEMMA FillStep ==
  ASSUME Cycles, NEW i \in Pipelines, Dispatch(i), Fill(i)
  PROVE  /\ current[i].id \in Signals /\ fills[current[i].id] = 0
         /\ fills' = [fills EXCEPT ![current[i].id] = 1]
         /\ \E b : b.signal = current[i].id /\ broker' = [broker EXCEPT ![i] = broker[i] \cup {b}]
  <1>1. stage[i] = "decided" /\ current[i].id \in Signals
    BY Running DEF Dispatch, Cycles
  <1>2. fills[current[i].id] = 0
    BY <1>1 DEF Cycles, Unfilled
  <1>3. fills' = [fills EXCEPT ![current[i].id] = fills[current[i].id] + 1]
    BY DEF Fill
  <1>4. \E b : b.signal = current[i].id /\ broker' = [broker EXCEPT ![i] = broker[i] \cup {b}]
    BY DEF Fill
  <1>5. fills' = [fills EXCEPT ![current[i].id] = 1]
    BY <1>2, <1>3
  <1>6. QED
    BY <1>1, <1>2, <1>4, <1>5, Zenon

(* A signal is filled by its own cycle, once.                              *)
LEMMA DispatchOwnership == ASSUME Cycles, NEW i \in Pipelines, Dispatch(i) PROVE Ownership'
  <1>1. /\ stage[i] = "decided" /\ stage' = [stage EXCEPT ![i] = "dispatched"]
        /\ \A j \in Pipelines : current'[j].id = current[j].id
        /\ UNCHANGED <<decided, next>>
    BY DispatchStep DEF Cycles, rows
  <1>2. stage'[i] = "dispatched" /\ \A j \in Pipelines : j # i => stage'[j] = stage[j]
    BY <1>1 DEF Cycles, TypeOK
  <1>3. Owned' /\ Apart' /\ Undecided'
    BY <1>1, <1>2 DEF Cycles, Owned, Apart, Undecided
  <1>4. CASE Fill(i)
    <2>1. /\ current[i].id \in Signals /\ fills[current[i].id] = 0
          /\ fills' = [fills EXCEPT ![current[i].id] = 1]
      BY <1>4, FillStep
    <2>2. fills \in [Signals -> Nat] /\ next \in Nat /\ current[i].id <= next
      BY DEF Cycles, TypeOK, Owned
    <2>3. Fresh'
      BY <1>1, <2>1, <2>2 DEF Cycles, Fresh
    <2>4. Unfilled'
      <3>1. ASSUME NEW j \in Pipelines, stage'[j] \in {"proposed", "decided"} PROVE fills'[current'[j].id] = 0
        <4>1. j # i /\ stage[j] \in {"proposed", "decided"}
          BY <1>2, <3>1
        <4>2. current[j].id \in Signals /\ current[j].id # current[i].id
          BY <4>1, <2>1, Running DEF Cycles, Apart
        <4>3. QED
          BY <1>1, <2>1, <2>2, <4>1, <4>2 DEF Cycles, Unfilled
      <3>2. QED
        BY <3>1 DEF Unfilled
    <2>5. Filled'
      <3>1. PICK new : new.signal = current[i].id /\ broker' = [broker EXCEPT ![i] = broker[i] \cup {new}]
        BY <1>4, FillStep
      <3>2. ASSUME NEW j \in Pipelines, NEW b \in broker[j]
            PROVE  b.signal \in Signals /\ fills[b.signal] = 1 /\ fills'[b.signal] = 1 /\ b.signal # current[i].id
        BY <2>1, <2>2 DEF Cycles, Filled
      <3>3. fills'[new.signal] = 1
        BY <2>1, <2>2, <3>1
      <3>4. DOMAIN broker = Pipelines
        BY DEF Cycles, Domains
      <3>5. ASSUME NEW j \in Pipelines, NEW b \in broker'[j], NEW c \in broker'[j]
            PROVE  /\ b.signal \in Signals /\ fills'[b.signal] = 1
                   /\ b.signal = c.signal => b = c
        <4>1. /\ b \in broker[j] \/ (j = i /\ b = new)
              /\ c \in broker[j] \/ (j = i /\ c = new)
          BY <3>1, <3>4, <3>5
        <4>2. b \in broker[j] /\ c \in broker[j] => (b.signal = c.signal => b = c)
          BY DEF Cycles, Filled
        <4>3. QED
          BY <4>1, <4>2, <3>1, <3>2, <3>3, <2>1
      <3>6. QED
        BY <3>5 DEF Filled
    <2>6. QED
      BY <1>3, <2>3, <2>4, <2>5 DEF Ownership
  <1>5. CASE TooLate(i)
    <2>1. UNCHANGED <<fills, broker>>
      BY <1>5 DEF TooLate
    <2>2. Fresh' /\ Filled'
      BY <1>1, <2>1 DEF Cycles, Fresh, Filled
    <2>3. Unfilled'
      BY <1>1, <1>2, <2>1 DEF Cycles, Unfilled
    <2>4. QED
      BY <1>3, <2>2, <2>3 DEF Ownership
  <1>6. QED
    BY <1>4, <1>5 DEF Dispatch

(* The end of a cycle gives its signal up.                                 *)
LEMMA EndsOwnership == ASSUME Cycles, NEW i \in Pipelines, Ends(i) PROVE Ownership'
  <1>1. current' = [current EXCEPT ![i] = NoCycle] /\ stage' = [stage EXCEPT ![i] = "idle"]
    BY DEF Ends, Expire, Block, Refuse, BookFails, Reconcile, CommitFails, Restart, Return, Goto
  <1>2. /\ UNCHANGED <<next, decided, fills>>
        /\ broker' = broker \/ broker' = [broker EXCEPT ![i] = {}]
    BY DEF Ends, Expire, Block, Refuse, BookFails, Reconcile, CommitFails, Restart, rows, memory
  <1>3. /\ current'[i].id = 0 /\ stage'[i] = "idle" /\ next \in Nat
        /\ \A j \in Pipelines : j # i => current'[j] = current[j] /\ stage'[j] = stage[j]
    BY <1>1 DEF Cycles, TypeOK, NoCycle
  <1>4. Owned' /\ Apart' /\ Fresh' /\ Unfilled' /\ Undecided'
    BY <1>2, <1>3 DEF Cycles, Owned, Apart, Fresh, Unfilled, Undecided
  <1>5. Filled'
    <2>1. \A j \in Pipelines : \A b \in broker'[j] : b \in broker[j]
      BY <1>2 DEF Cycles, Domains
    <2>2. QED
      BY <1>2, <2>1 DEF Cycles, Filled
  <1>6. QED
    BY <1>4, <1>5 DEF Ownership

(* A cycle's book-keeping and the operator leave the signals where they    *)
(* are.                                                                    *)
LEMMA OthersOwnership ==
  ASSUME Cycles, Aside \/ (\E i \in Pipelines : Book(i)) \/ UNCHANGED vars
  PROVE  Ownership'
  <1>1. UNCHANGED <<next, decided, fills, broker, current>>
    BY DEF Aside, Operator, unfreeze_account, set_kill_switch, StoreConfig, RecordEquity, RecordDay,
           trigger_news_sync, Book, vars, rows, memory
  <1>2. \A j \in Pipelines : stage'[j] \in {"proposed", "decided"} => stage'[j] = stage[j]
    <2>1. stage' = stage \/ \E i \in Pipelines : stage' = [stage EXCEPT ![i] = "booked"]
      BY DEF Aside, Operator, unfreeze_account, set_kill_switch, StoreConfig, RecordEquity, RecordDay,
             trigger_news_sync, Book, Goto, vars
    <2>2. QED
      BY <2>1 DEF Cycles, TypeOK
  <1>3. QED
    BY <1>1, <1>2 DEF Cycles, Ownership, Owned, Apart, Fresh, Unfilled, Undecided, Filled

(* Every step keeps the invariant.                                         *)
LEMMA NextCycles == Cycles /\ [Next]_vars => Cycles'
  <1> SUFFICES ASSUME Cycles, [Next]_vars PROVE Cycles'
    OBVIOUS
  <1>1. TypeOK' /\ Domains'
    BY NextTypes DEF Cycles
  <1>2. Ownership'
    BY NextCases, ProposeOwnership, EvaluateOwnership, DispatchOwnership, EndsOwnership, OthersOwnership
  <1>3. QED
    BY <1>1, <1>2 DEF Cycles, Ownership

(* A signal belongs to one cycle, which alone decides on it and fills it,  *)
(* once: whatever two pipelines, failed commits and restarts do.           *)
THEOREM CyclesHold == Spec => []Cycles
  <1>1. Init => Cycles
    BY InitTypes, InitOwnership DEF Cycles, Ownership
  <1>2. Cycles /\ [Next]_vars => Cycles'
    BY NextCycles
  <1>3. QED
    BY <1>1, <1>2, PTL DEF Spec

-----------------------------------------------------------------------------
(* The refinement.                                                         *)

(* A decision is an approval of a signal without one, or no change.        *)
LEMMA EvaluateLedger == ASSUME Cycles, NEW i \in Pipelines, Evaluate(i) PROVE [L!Next]_(L!vars)
  <1> DEFINE s == current[i].id
             A == {x \in Signals : decided[x].decision = "APPROVED"}
             B == {p.signal : p \in positions}
  <1>1. /\ s \in Signals /\ \A x \in Signals : x # s => decided'[x] = decided[x]
        /\ UNCHANGED <<positions, fills>> /\ stage[i] = "proposed"
    BY EvaluateStep
  <1>2. decided[s].decision = "NONE" /\ fills[s] = 0
    BY <1>1 DEF Cycles, Undecided, Unfilled
  <1>3. s \notin A /\ B' = B /\ fills' = fills
    BY <1>1, <1>2
  <1>4. A' = A \/ A' = A \cup {s}
    <2>1. CASE decided'[s].decision = "APPROVED"
      <3>1. \A x : x \in A' <=> x \in A \cup {s}
        BY <1>1, <2>1
      <3>2. QED
        BY <3>1
    <2>2. CASE decided'[s].decision # "APPROVED"
      <3>1. \A x : x \in A' <=> x \in A
        BY <1>1, <1>3, <2>2
      <3>2. QED
        BY <3>1
    <2>3. QED
      BY <2>1, <2>2
  <1>5. QED
    <2>1. CASE A' = A
      BY <1>3, <2>1 DEF L!vars
    <2>2. CASE A' = A \cup {s}
      <3>1. PICK x \in Signals : x = s
        BY <1>1
      <3>2. L!Approve(x)
        BY <1>2, <1>3, <2>2, <3>1 DEF L!Approve
      <3>3. QED
        BY <3>2 DEF L!Next
    <2>3. QED
      BY <1>4, <2>1, <2>2

(* A fill is the order of an approved signal.                              *)
LEMMA DispatchLedger == ASSUME Cycles, NEW i \in Pipelines, Dispatch(i) PROVE [L!Next]_(L!vars)
  <1> DEFINE s == current[i].id
             A == {x \in Signals : decided[x].decision = "APPROVED"}
             B == {p.signal : p \in positions}
  <1>1. A' = A /\ B' = B /\ decided[s].decision = "APPROVED"
    BY DEF Dispatch, Authorized, rows
  <1>2. CASE Fill(i)
    <2>1. s \in Signals /\ fills[s] = 0 /\ fills' = [fills EXCEPT ![s] = 1]
      BY <1>2, FillStep
    <2>2. L!Order(s)
      BY <1>1, <2>1 DEF L!Order
    <2>3. QED
      BY <2>1, <2>2 DEF L!Next
  <1>3. CASE TooLate(i)
    BY <1>1, <1>3 DEF TooLate, L!vars
  <1>4. QED
    BY <1>2, <1>3 DEF Dispatch

(* A booking is of an order, and of none that is booked already.           *)
LEMMA BookLedger == ASSUME Cycles, NEW i \in Pipelines, Book(i) PROVE [L!Next]_(L!vars)
  <1> DEFINE s == current[i].id
             A == {x \in Signals : decided[x].decision = "APPROVED"}
             B == {p.signal : p \in positions}
  <1>1. /\ A' = A /\ fills' = fills
        /\ positions' = positions \cup {b \in broker[i] : current[i].ticket # 0 /\ b.signal = s}
    BY DEF Book
  <1>2. s \in Signals
    BY Running DEF Book, Cycles
  <1>3. B' = B \/ (B' = B \cup {s} /\ \E b \in broker[i] : b.signal = s)
    BY <1>1
  <1>4. CASE B' = B
    BY <1>1, <1>4 DEF L!vars
  <1>5. CASE B' # B
    <2>1. PICK b \in broker[i] : b.signal = s
      BY <1>3, <1>5
    <2>2. fills[s] = 1
      BY <2>1 DEF Cycles, Filled
    <2>3. s \notin B
      BY <1>3, <1>5
    <2>4. PICK x \in Signals : x = s
      BY <1>2
    <2>5. L!Book(x)
      BY <1>1, <1>3, <1>5, <2>2, <2>3, <2>4 DEF L!Book
    <2>6. QED
      BY <2>5 DEF L!Next
  <1>6. QED
    BY <1>4, <1>5

(* All other steps change nothing the ledger knows of.                     *)
LEMMA OthersLedger ==
  ASSUME Aside \/ (\E i \in Pipelines : Propose(i) \/ Ends(i)) \/ UNCHANGED vars
  PROVE  UNCHANGED L!vars
  <1>1. UNCHANGED <<decided, fills, positions>>
    BY DEF Aside, Operator, unfreeze_account, set_kill_switch, StoreConfig, RecordEquity, RecordDay,
           trigger_news_sync, Propose, Ends, Expire, Block, Refuse, BookFails, Reconcile, CommitFails, Restart,
           vars, rows
  <1>2. QED
    BY <1>1 DEF L!vars

(* The pipeline implements the ledger (LedgerSpec), for any pipelines and  *)
(* signals: every fill has its approval on record, no signal is filled     *)
(* twice, and no position is booked that was not filled.                   *)
THEOREM RefinesLedger == Spec => LedgerSpec
  <1>1. Init => L!Init
    BY DEF Init, L!Init, NoDecision
  <1>2. Cycles /\ [Next]_vars => [L!Next]_(L!vars)
    <2> SUFFICES ASSUME Cycles, [Next]_vars PROVE [L!Next]_(L!vars)
      OBVIOUS
    <2>1. QED
      BY NextCases, EvaluateLedger, DispatchLedger, BookLedger, OthersLedger
  <1>3. QED
    BY <1>1, <1>2, CyclesHold, PTL DEF Spec, LedgerSpec, L!Spec

-----------------------------------------------------------------------------
(* The command object and its row.                                         *)

(* The states the command object of a cycle goes through.                  *)
Commanded == \A i \in Pipelines :
    /\ stage[i] \in {"proposed", "decided"} => current[i].state = "CREATED" /\ current[i].ticket = 0
    /\ stage[i] = "dispatched" => current[i].state = (IF current[i].ticket = 0 THEN "EXPIRED" ELSE "FILLED")

(* What the chain of transitions leads to.                                 *)
LEMMA Transitions == AfterFill(AfterSend("CREATED")) = "FILLED" /\ AfterExpiry(AfterSend("CREATED")) = "EXPIRED"
  BY DEF AfterFill, AfterSend, AfterExpiry, transition_to, VALID_TRANSITIONS

(* Every step keeps command objects and rows together.                     *)
LEMMA NextStatus == Cycles /\ Commanded /\ StatusReached /\ [Next]_vars => Commanded' /\ StatusReached'
  <1> SUFFICES ASSUME Cycles, Commanded, StatusReached, [Next]_vars PROVE Commanded' /\ StatusReached'
    OBVIOUS
  <1>1. ASSUME NEW i \in Pipelines, Propose(i) PROVE Commanded' /\ StatusReached'
    <2>1. /\ stage' = [stage EXCEPT ![i] = "proposed"] /\ UNCHANGED command
          /\ \E c \in Candidates :
                current' = [current EXCEPT ![i] = [id |-> next + 1, candidate |-> c, ticket |-> 0, state |-> "CREATED"]]
      BY <1>1 DEF Propose, Goto, rows
    <2>2. /\ stage'[i] = "proposed" /\ current'[i].state = "CREATED" /\ current'[i].ticket = 0
          /\ \A j \in Pipelines : j # i => stage'[j] = stage[j] /\ current'[j] = current[j]
      BY <2>1 DEF Cycles, TypeOK
    <2>3. QED
      BY <2>1, <2>2 DEF Commanded, StatusReached
  <1>2. ASSUME NEW i \in Pipelines, Evaluate(i) PROVE Commanded' /\ StatusReached'
    <2>1. stage[i] = "proposed" /\ stage' = [stage EXCEPT ![i] = "decided"] /\ UNCHANGED <<command, current>>
      BY <1>2, EvaluateStep
    <2>2. stage'[i] = "decided" /\ \A j \in Pipelines : j # i => stage'[j] = stage[j]
      BY <2>1 DEF Cycles, TypeOK
    <2>3. QED
      BY <2>1, <2>2 DEF Commanded, StatusReached
  <1>3. ASSUME NEW i \in Pipelines, Dispatch(i) PROVE Commanded' /\ StatusReached'
    <2>1. /\ stage[i] = "decided" /\ stage' = [stage EXCEPT ![i] = "dispatched"] /\ UNCHANGED command
          /\ \A j \in Pipelines : j # i => current'[j] = current[j]
          /\ \/ current'[i].ticket = tickets[i] + 1 /\ current'[i].state = AfterFill(AfterSend(current[i].state))
             \/ current'[i].ticket = current[i].ticket /\ current'[i].state = AfterExpiry(AfterSend(current[i].state))
      BY <1>3, DispatchStep DEF Cycles, rows
    <2>2. stage'[i] = "dispatched" /\ \A j \in Pipelines : j # i => stage'[j] = stage[j]
      BY <2>1 DEF Cycles, TypeOK
    <2>3. tickets[i] \in Nat /\ current[i].state = "CREATED" /\ current[i].ticket = 0
      BY <2>1 DEF Cycles, TypeOK, Commanded
    <2>4. \/ current'[i].ticket = tickets[i] + 1 /\ current'[i].state = "FILLED"
          \/ current'[i].ticket = 0 /\ current'[i].state = "EXPIRED"
      BY <2>1, <2>3, Transitions
    <2>5. current'[i].state = (IF current'[i].ticket = 0 THEN "EXPIRED" ELSE "FILLED")
      BY <2>3, <2>4
    <2>6. QED
      BY <2>1, <2>2, <2>5 DEF Commanded, StatusReached
  <1>4. ASSUME NEW i \in Pipelines, Book(i) PROVE Commanded' /\ StatusReached'
    <2>1. /\ stage[i] = "dispatched" /\ stage' = [stage EXCEPT ![i] = "booked"] /\ UNCHANGED current
          /\ command' = [command EXCEPT ![current[i].id] = IF current[i].ticket # 0 THEN "FILLED" ELSE "EXPIRED"]
      BY <1>4 DEF Book, Goto
    <2>2. stage'[i] = "booked" /\ \A j \in Pipelines : j # i => stage'[j] = stage[j]
      BY <2>1 DEF Cycles, TypeOK
    <2>3. current[i].id \in Signals /\ DOMAIN command = Signals
      BY <2>1, Running DEF Cycles, TypeOK
    <2>4. command'[current[i].id] = current[i].state
      BY <2>1, <2>3 DEF Commanded
    <2>5. ASSUME NEW j \in Pipelines, j # i, stage[j] = "booked" PROVE command'[current[j].id] = command[current[j].id]
      BY <2>1, <2>3, <2>5, Running DEF Cycles, Apart
    <2>6. QED
      BY <2>1, <2>2, <2>4, <2>5 DEF Commanded, StatusReached
  <1>5. ASSUME NEW i \in Pipelines, Ends(i) PROVE Commanded' /\ StatusReached'
    <2>1. /\ current' = [current EXCEPT ![i] = NoCycle] /\ stage' = [stage EXCEPT ![i] = "idle"]
          /\ UNCHANGED command
      BY <1>5 DEF Ends, Expire, Block, Refuse, BookFails, Reconcile, CommitFails, Restart, Return, Goto, rows
    <2>2. stage'[i] = "idle" /\ \A j \in Pipelines : j # i => stage'[j] = stage[j] /\ current'[j] = current[j]
      BY <2>1 DEF Cycles, TypeOK
    <2>3. QED
      BY <2>1, <2>2 DEF Commanded, StatusReached
  <1>6. ASSUME Aside \/ UNCHANGED vars PROVE Commanded' /\ StatusReached'
    <2>1. UNCHANGED <<command, stage, current>>
      BY <1>6 DEF Aside, Operator, unfreeze_account, set_kill_switch, StoreConfig, RecordEquity, RecordDay,
             trigger_news_sync, vars, rows
    <2>2. QED
      BY <2>1 DEF Commanded, StatusReached
  <1>7. QED
    BY <1>1, <1>2, <1>3, <1>4, <1>5, <1>6, NextCases

(* The status that is committed is the state the command object reached    *)
(* through VALID_TRANSITIONS, for any interleaving of the pipelines.       *)
THEOREM StatusCorrect == Spec => []StatusReached
  <1>1. Init => Commanded /\ StatusReached
    BY DEF Init, Commanded, StatusReached
  <1>2. QED
    BY <1>1, NextStatus, CyclesHold, PTL DEF Spec

-----------------------------------------------------------------------------
(* The kill switch and the limit on positions.                             *)

(* The cycle of i has been told to trade.                                  *)
Told(i) == stage[i] = "decided" /\ decided[current[i].id].decision = "APPROVED"

(* Who has filled an order since the switch was set is not told to again.  *)
Stopped == \A i \in Pipelines : late[i] \in {0, 1} /\ (late[i] = 1 => Config.emergency /\ ~Told(i))

(* Another cycle's decision does not tell this one.                        *)
LEMMA EvaluateTold ==
  ASSUME Cycles, NEW i \in Pipelines, Evaluate(i)
  PROVE  /\ ~Told(i) /\ \A j \in Pipelines : j # i => Told(j)' = Told(j)
         /\ Told(i)' => ~Config.emergency /\ Config.positions # None /\ ~(Snapshot.count >= Config.positions)
  <1>1. /\ stage[i] = "proposed" /\ stage' = [stage EXCEPT ![i] = "decided"] /\ UNCHANGED current
        /\ current[i].id \in Signals
        /\ \A s \in Signals : s # current[i].id => decided'[s] = decided[s]
    BY EvaluateStep
  <1>2. ~Told(i)
    BY <1>1 DEF Told
  <1>3. ASSUME NEW j \in Pipelines, j # i PROVE Told(j)' = Told(j)
    <2>1. stage'[j] = stage[j]
      BY <1>1, <1>3 DEF Cycles, TypeOK
    <2>2. CASE stage[j] = "decided"
      <3>1. current[j].id \in Signals /\ current[j].id # current[i].id
        BY <1>1, <1>3, <2>2, Running DEF Cycles, Apart
      <3>2. QED
        BY <1>1, <2>1, <3>1 DEF Told
    <2>3. CASE stage[j] # "decided"
      BY <2>1, <2>3 DEF Told
    <2>4. QED
      BY <2>2, <2>3
  <1>4. ASSUME Told(i)' PROVE ~Config.emergency /\ Config.positions # None /\ ~(Snapshot.count >= Config.positions)
    <2>1. PICK m \in Markets : decided'[current[i].id].decision =
               evaluate(Config, Snapshot, current[i].candidate, MarketCondition(m), m.news).decision
      BY EvaluateStep
    <2>2. decided'[current[i].id].decision = "APPROVED"
      BY <1>1, <1>4 DEF Told
    <2>3. QED
      BY <2>1, <2>2, Approval
  <1>5. QED
    BY <1>2, <1>3, <1>4

(* What the operator does to the switch, he does to the count.             *)
LEMMA AsideStopped == ASSUME Cycles, Stopped, Aside PROVE Stopped'
  <1>1. UNCHANGED <<stage, current, decided>>
    BY DEF Aside, Operator, unfreeze_account, set_kill_switch, StoreConfig, RecordEquity, RecordDay,
           trigger_news_sync, rows
  <1>2. (late' = late /\ Config'.emergency = Config.emergency) \/ (late' = late /\ Config'.emergency = TRUE)
        \/ late' = [i \in Pipelines |-> 0]
    <2>1. ASSUME NEW active \in BOOLEAN, set_kill_switch(active)
          PROVE  (late' = late /\ Config'.emergency = TRUE) \/ late' = [i \in Pipelines |-> 0]
      <3>1. CASE active = FALSE
        BY <2>1, <3>1 DEF set_kill_switch, Late
      <3>2. CASE active = TRUE /\ configs = <<>>
        <4>1. configs' = <<[Defaults EXCEPT !.emergency = TRUE]>> /\ late' = late
          BY <2>1, <3>2 DEF set_kill_switch, Late
        <4>2. Len(configs') = 1 /\ configs' # <<>> /\ configs'[1] = [Defaults EXCEPT !.emergency = TRUE]
          BY <4>1
        <4>3. QED
          BY <4>1, <4>2 DEF Config, get_latest_risk_config, Defaults
      <3>3. CASE active = TRUE /\ configs # <<>>
        <4>1. configs \in Seq(Limited) /\ Len(configs) \in 1..Len(configs)
          BY <3>3 DEF Cycles, TypeOK
        <4>2. /\ configs' = [configs EXCEPT ![Len(configs)] = [configs[Len(configs)] EXCEPT !.emergency = TRUE]]
              /\ late' = late
          BY <2>1, <3>3 DEF set_kill_switch, Late
        <4>3. configs[Len(configs)] \in RiskConfigs
          BY <4>1 DEF Limited
        <4>4. [configs[Len(configs)] EXCEPT !.emergency = TRUE].emergency = TRUE
          BY <4>3 DEF RiskConfigs
        <4>5. /\ Len(configs') = Len(configs) /\ configs' # <<>>
              /\ configs'[Len(configs)] = [configs[Len(configs)] EXCEPT !.emergency = TRUE]
          <5>1. configs[Len(configs)] \in Limited
            BY <4>1
          <5>2. PICK e \in Limited : e = [configs[Len(configs)] EXCEPT !.emergency = TRUE]
            BY <5>1, EmergencyLimited
          <5>3. /\ Len([configs EXCEPT ![Len(configs)] = e]) = Len(configs)
                /\ [configs EXCEPT ![Len(configs)] = e][Len(configs)] = e
            BY <4>1, ExceptSeq
          <5>4. configs' = [configs EXCEPT ![Len(configs)] = e]
            BY <4>2, <5>2
          <5>5. Len(configs') = Len(configs) /\ configs'[Len(configs)] = e
            BY <5>3, <5>4
          <5>6. configs' # <<>>
            BY <5>5, <4>1
          <5>7. QED
            BY <5>2, <5>5, <5>6
        <4>6. QED
          BY <4>2, <4>4, <4>5 DEF Config, get_latest_risk_config
      <3>4. QED
        BY <3>1, <3>2, <3>3
    <2>2. ASSUME NEW c \in Configs, StoreConfig(c)
          PROVE  (late' = late /\ Config'.emergency = TRUE) \/ late' = [i \in Pipelines |-> 0]
      <3>1. c \in Limited /\ configs \in Seq(Limited) /\ configs' = Append(configs, c)
        BY <2>2, ConfigsAssumption DEF StoreConfig, Cycles, TypeOK
      <3>2. configs' # <<>> /\ configs'[Len(configs')] = c
        BY <3>1
      <3>3. c.emergency \in BOOLEAN /\ [c EXCEPT !.caution = None, !.fixed = None].emergency = c.emergency
        BY <3>1 DEF Limited, RiskConfigs
      <3>4. late' = IF c.emergency THEN late ELSE [i \in Pipelines |-> 0]
        BY <2>2 DEF StoreConfig, Late
      <3>5. Config'.emergency = c.emergency
        BY <3>2, <3>3 DEF Config, get_latest_risk_config
      <3>6. QED
        BY <3>3, <3>4, <3>5
    <2>3. CASE UNCHANGED <<configs, late>>
      BY <2>3 DEF Config
    <2>4. QED
      BY <2>1, <2>2, <2>3 DEF Aside, Operator, unfreeze_account, account, RecordEquity, RecordDay, trigger_news_sync
  <1>3. \A i \in Pipelines : Told(i)' = Told(i)
    BY <1>1 DEF Told
  <1>4. CASE late' = [i \in Pipelines |-> 0]
    BY <1>4 DEF Stopped
  <1>5. CASE late' = late /\ (Config'.emergency = Config.emergency \/ Config'.emergency = TRUE)
    BY <1>3, <1>5 DEF Stopped
  <1>6. QED
    BY <1>2, <1>4, <1>5

(* Every step keeps the switch's promise.                                  *)
LEMMA NextStopped == Cycles /\ Stopped /\ [Next]_vars => Stopped'
  <1> SUFFICES ASSUME Cycles, Stopped, [Next]_vars PROVE Stopped'
    OBVIOUS
  <1>1. ASSUME NEW i \in Pipelines, Evaluate(i) PROVE Stopped'
    <2>1. UNCHANGED <<configs, late>>
      BY <1>1, EvaluateStep DEF account
    <2>2. /\ \A j \in Pipelines : j # i => Told(j)' = Told(j)
          /\ Told(i)' => ~Config.emergency
      BY <1>1, EvaluateTold
    <2>3. QED
      BY <2>1, <2>2 DEF Stopped, Config
  <1>2. ASSUME NEW i \in Pipelines, Dispatch(i) PROVE Stopped'
    <2>1. /\ Told(i) /\ ~Told(i)' /\ \A j \in Pipelines : j # i => Told(j)' = Told(j)
      <3>1. /\ stage[i] = "decided" /\ stage' = [stage EXCEPT ![i] = "dispatched"]
            /\ decided[current[i].id].decision = "APPROVED" /\ UNCHANGED decided
            /\ \A j \in Pipelines : j # i => current'[j] = current[j]
        BY <1>2, DispatchStep DEF Cycles, rows
      <3>2. stage'[i] = "dispatched" /\ \A j \in Pipelines : j # i => stage'[j] = stage[j]
        BY <3>1 DEF Cycles, TypeOK
      <3>3. QED
        BY <3>1, <3>2 DEF Told
    <2>2. late[i] = 0 /\ late \in [Pipelines -> Nat]
      BY <2>1 DEF Stopped, Cycles, TypeOK
    <2>3. UNCHANGED configs
      BY <1>2 DEF Dispatch, account
    <2>4. late' = late \/ (late' = [late EXCEPT ![i] = 1] /\ Config.emergency)
      <3>1. CASE Fill(i)
        <4>1. late' = [late EXCEPT ![i] = IF Config.emergency THEN late[i] + 1 ELSE late[i]]
          BY <3>1 DEF Fill
        <4>2. QED
          <5>1. CASE Config.emergency
            BY <2>2, <4>1, <5>1
          <5>2. CASE ~Config.emergency
            BY <2>2, <4>1, <5>2
          <5>3. QED
            BY <5>1, <5>2
      <3>2. CASE TooLate(i)
        BY <3>2 DEF TooLate
      <3>3. QED
        BY <1>2, <3>1, <3>2 DEF Dispatch
    <2>5. QED
      BY <2>1, <2>2, <2>3, <2>4 DEF Stopped, Config
  <1>3. ASSUME NEW i \in Pipelines, Propose(i) \/ Book(i) \/ Ends(i) PROVE Stopped'
    <2>1. UNCHANGED <<configs, late, decided>>
      BY <1>3 DEF Propose, Book, Ends, Expire, Block, Refuse, BookFails, Reconcile, CommitFails, Restart, account, rows
    <2>2. /\ stage'[i] # "decided"
          /\ \A j \in Pipelines : j # i => stage'[j] = stage[j] /\ current'[j] = current[j]
      BY <1>3 DEF Propose, Book, Ends, Expire, Block, Refuse, BookFails, Reconcile, CommitFails, Restart,
             Return, Goto, Cycles, TypeOK
    <2>3. ~Told(i)' /\ \A j \in Pipelines : j # i => Told(j)' = Told(j)
      BY <2>1, <2>2 DEF Told
    <2>4. QED
      BY <2>1, <2>3 DEF Stopped, Config
  <1>4. CASE UNCHANGED vars
    BY <1>4 DEF vars, account, rows, Stopped, Config, Told
  <1>5. QED
    BY <1>1, <1>2, <1>3, <1>4, AsideStopped, NextCases

(* After the kill switch a pipeline fills at most the one order it had     *)
(* been told to before, for any number of pipelines and signals.           *)
THEOREM KillSwitch == Spec => []KillSwitchBound
  <1>1. Init => Stopped
    BY DEF Init, Stopped
  <1>2. Stopped => KillSwitchBound
    BY DEF Stopped, KillSwitchBound
  <1>3. QED
    BY <1>1, <1>2, NextStopped, CyclesHold, PTL DEF Spec

-----------------------------------------------------------------------------
(* The limit on open positions.                                            *)

(* The pipelines with an approval that no row counts yet.                  *)
Holding == {i \in Pipelines : stage[i] = "dispatched" \/ Told(i)}

(* Rows and pending approvals together stay within the bound.              *)
Room == /\ IsFiniteSet(positions)
        /\ Cardinality(positions) + Cardinality(Holding) <= Limit + Cardinality(Pipelines) - 1

(* The sizes that the bound speaks of are numbers.                         *)
LEMMA Sizes ==
  /\ IsFiniteSet(Holding) /\ Cardinality(Holding) \in Nat /\ Cardinality(Holding) <= Cardinality(Pipelines)
  /\ Cardinality(Pipelines) \in Nat /\ Cardinality(Pipelines) >= 1
  /\ IsFiniteSet(positions) => Cardinality(positions) \in Nat
  <1>1. IsFiniteSet(Pipelines) /\ Pipelines # {}
    BY PipelinesAssumption
  <1>2. Holding \subseteq Pipelines
    BY DEF Holding
  <1>3. IsFiniteSet(Holding) /\ Cardinality(Holding) <= Cardinality(Pipelines)
    BY <1>1, <1>2, FS_Subset
  <1>4. Cardinality(Pipelines) \in Nat /\ Cardinality(Holding) \in Nat /\ Cardinality(Pipelines) # 0
    BY <1>1, <1>3, FS_CardinalityType, FS_EmptySet
  <1>5. Cardinality(Pipelines) >= 1
    BY <1>4
  <1>6. IsFiniteSet(positions) => Cardinality(positions) \in Nat
    BY FS_CardinalityType
  <1>7. QED
    BY <1>3, <1>4, <1>5, <1>6

(* A step that adds no row and no pending approval keeps the bound.        *)
LEMMA NoneAdded == ASSUME Room, UNCHANGED positions, Holding' \subseteq Holding PROVE Room'
  <1>1. Cardinality(Holding') <= Cardinality(Holding) /\ Cardinality(Holding') \in Nat
    BY Sizes, FS_Subset, FS_CardinalityType
  <1>2. QED
    BY <1>1, Sizes, LimitAssumption DEF Room

(* The engine counts the rows, and approves below a limit only.            *)
LEMMA CountedRows ==
  ASSUME Cycles, IsFiniteSet(positions), Config.positions # None, ~(Snapshot.count >= Config.positions)
  PROVE  Cardinality(positions) + 1 <= Limit
  <1>1. Snapshot.count = Cardinality(positions)
    BY DEF Snapshot, build_account_risk_snapshot, OpenLots
  <1>2. Cardinality(positions) \in Nat
    BY FS_CardinalityType
  <1>3. configs # <<>>
    BY DEF Config, get_latest_risk_config, Defaults
  <1>4. configs[Len(configs)] \in Limited
    BY <1>3 DEF Cycles, TypeOK
  <1>5. Config.positions = configs[Len(configs)].positions
    BY <1>3, <1>4 DEF Config, get_latest_risk_config, Limited, RiskConfigs
  <1>6. Config.positions \in Nat /\ Config.positions <= Limit
    BY <1>4, <1>5 DEF Limited, RiskConfigs
  <1>7. QED
    BY <1>1, <1>2, <1>6, LimitAssumption

(* Every step keeps the bound.                                             *)
LEMMA NextRoom == Cycles /\ Room /\ [Next]_vars => Room'
  <1> SUFFICES ASSUME Cycles, Room, [Next]_vars PROVE Room'
    OBVIOUS
  <1>1. ASSUME NEW i \in Pipelines, Evaluate(i) PROVE Room'
    <2>1. stage' = [stage EXCEPT ![i] = "decided"] /\ UNCHANGED positions
      BY <1>1, EvaluateStep
    <2>2. stage'[i] = "decided" /\ \A j \in Pipelines : j # i => stage'[j] = stage[j]
      BY <2>1 DEF Cycles, TypeOK
    <2>3. \A j \in Pipelines : j # i => Told(j)' = Told(j)
      BY <1>1, EvaluateTold
    <2>4. CASE Told(i)'
      <3>1. Cardinality(positions) + 1 <= Limit
        BY <1>1, <2>4, EvaluateTold, CountedRows DEF Room
      <3>2. IsFiniteSet(positions) /\ Cardinality(positions) \in Nat
        BY Sizes DEF Room
      <3>3. Cardinality(Holding') <= Cardinality(Pipelines) /\ Cardinality(Holding') \in Nat
        <4>1. Holding' \subseteq Pipelines
          BY DEF Holding
        <4>2. IsFiniteSet(Pipelines)
          BY PipelinesAssumption
        <4>3. QED
          BY <4>1, <4>2, FS_Subset, FS_CardinalityType
      <3>4. QED
        BY <2>1, <3>1, <3>2, <3>3, Sizes, LimitAssumption DEF Room
    <2>5. CASE ~Told(i)'
      <3>1. Holding' \subseteq Holding
        BY <2>2, <2>3, <2>5 DEF Holding
      <3>2. QED
        BY <2>1, <3>1, NoneAdded
    <2>6. QED
      BY <2>4, <2>5
  <1>2. ASSUME NEW i \in Pipelines, Book(i) PROVE Room'
    <2>1. /\ stage[i] = "dispatched" /\ stage' = [stage EXCEPT ![i] = "booked"] /\ UNCHANGED <<current, decided>>
          /\ positions' = positions \cup {b \in broker[i] : current[i].ticket # 0 /\ b.signal = current[i].id}
      BY <1>2 DEF Book, Goto
    <2>2. i \in Holding
      BY <2>1 DEF Holding
    <2>3. Holding' \subseteq Holding \ {i}
      <3>1. stage'[i] = "booked" /\ \A j \in Pipelines : j # i => stage'[j] = stage[j]
        BY <2>1 DEF Cycles, TypeOK
      <3>2. QED
        BY <2>1, <3>1 DEF Holding, Told
    <2>4. Cardinality(Holding') <= Cardinality(Holding) - 1 /\ Cardinality(Holding') \in Nat
      <3>1. IsFiniteSet(Holding \ {i}) /\ Cardinality(Holding \ {i}) = Cardinality(Holding) - 1
        BY <2>2, Sizes, FS_RemoveElement
      <3>2. IsFiniteSet(Holding') /\ Cardinality(Holding') <= Cardinality(Holding \ {i})
        BY <2>3, <3>1, FS_Subset
      <3>3. QED
        BY <3>1, <3>2, FS_CardinalityType
    <2>5. positions' = positions \/ \E b : positions' = positions \cup {b}
      <3>1. \A b, c \in broker[i] : b.signal = c.signal => b = c
        BY DEF Cycles, Filled
      <3>2. CASE \E b \in broker[i] : current[i].ticket # 0 /\ b.signal = current[i].id
        <4>1. PICK b \in broker[i] : current[i].ticket # 0 /\ b.signal = current[i].id
          BY <3>2
        <4>2. \A x : x \in positions' <=> x \in positions \cup {b}
          BY <2>1, <3>1, <4>1
        <4>3. positions' = positions \cup {b}
          BY <4>2
        <4>4. QED
          BY <4>3
      <3>3. CASE ~\E b \in broker[i] : current[i].ticket # 0 /\ b.signal = current[i].id
        BY <2>1, <3>3
      <3>4. QED
        BY <3>2, <3>3
    <2>6. IsFiniteSet(positions') /\ Cardinality(positions') <= Cardinality(positions) + 1
                                  /\ Cardinality(positions') \in Nat
      <3>1. IsFiniteSet(positions) /\ Cardinality(positions) \in Nat
        BY Sizes DEF Room
      <3>2. ASSUME NEW b, positions' = positions \cup {b}
            PROVE  IsFiniteSet(positions') /\ Cardinality(positions') <= Cardinality(positions) + 1
        <4>1. IsFiniteSet(positions \cup {b}) /\ (Cardinality(positions \cup {b}) = Cardinality(positions)
                                                  \/ Cardinality(positions \cup {b}) = Cardinality(positions) + 1)
          BY <3>1, FS_AddElement
        <4>2. QED
          BY <3>1, <3>2, <4>1
      <3>3. IsFiniteSet(positions') /\ Cardinality(positions') <= Cardinality(positions) + 1
        <4>1. CASE positions' = positions
          <5>1. Cardinality(positions') = Cardinality(positions) /\ IsFiniteSet(positions')
            BY <3>1, <4>1
          <5>2. QED
            BY <3>1, <5>1
        <4>2. CASE \E b : positions' = positions \cup {b}
          BY <3>2, <4>2
        <4>3. QED
          BY <2>5, <4>1, <4>2
      <3>4. QED
        BY <3>3, FS_CardinalityType
    <2>7. QED
      BY <2>4, <2>6, Sizes, LimitAssumption DEF Room
  <1>3. ASSUME NEW i \in Pipelines, Propose(i) \/ Ends(i) PROVE Room'
    <2>1. UNCHANGED <<positions, decided>>
      BY <1>3 DEF Propose, Ends, Expire, Block, Refuse, BookFails, Reconcile, CommitFails, Restart, rows
    <2>2. /\ stage'[i] \notin {"decided", "dispatched"}
          /\ \A j \in Pipelines : j # i => stage'[j] = stage[j] /\ current'[j] = current[j]
      BY <1>3 DEF Propose, Ends, Expire, Block, Refuse, BookFails, Reconcile, CommitFails, Restart,
             Return, Goto, Cycles, TypeOK
    <2>3. Holding' \subseteq Holding
      BY <2>1, <2>2 DEF Holding, Told
    <2>4. QED
      BY <2>1, <2>3, NoneAdded
  <1>4. ASSUME NEW i \in Pipelines, Dispatch(i) PROVE Room'
    <2>1. /\ stage[i] = "decided" /\ stage' = [stage EXCEPT ![i] = "dispatched"]
          /\ decided[current[i].id].decision = "APPROVED" /\ UNCHANGED <<decided, positions>>
          /\ \A j \in Pipelines : current'[j].id = current[j].id
      BY <1>4, DispatchStep DEF Cycles, rows
    <2>2. \A j \in Pipelines : j # i => stage'[j] = stage[j]
      BY <2>1 DEF Cycles, TypeOK
    <2>3. Holding' \subseteq Holding
      BY <2>1, <2>2 DEF Holding, Told
    <2>4. QED
      BY <2>1, <2>3, NoneAdded
  <1>5. ASSUME Aside \/ UNCHANGED vars PROVE Room'
    <2>1. UNCHANGED <<stage, current, decided, positions>>
      BY <1>5 DEF Aside, Operator, unfreeze_account, set_kill_switch, StoreConfig, RecordEquity, RecordDay,
             trigger_news_sync, vars, rows
    <2>2. Holding' \subseteq Holding
      BY <2>1 DEF Holding, Told
    <2>3. QED
      BY <2>1, <2>2, NoneAdded
  <1>6. QED
    BY <1>1, <1>2, <1>3, <1>4, <1>5, NextCases

(* The rows exceed max_open_positions by less than the pipelines there     *)
(* are, for any number of them and whatever limit up to Limit is stored.   *)
THEOREM PositionsLimited == Spec => []PositionLimit
  <1>1. Init => Room
    <2> SUFFICES ASSUME Init PROVE Room
      OBVIOUS
    <2>1. positions = {} /\ Holding = {}
      BY DEF Init, Holding, Told
    <2>2. IsFiniteSet(positions) /\ Cardinality(positions) = 0 /\ Cardinality(Holding) = 0
      BY <2>1, FS_EmptySet
    <2>3. QED
      BY <2>2, Sizes, LimitAssumption DEF Room
  <1>2. Room => PositionLimit
    BY Sizes, LimitAssumption DEF Room, PositionLimit
  <1>3. QED
    BY <1>1, <1>2, NextRoom, CyclesHold, PTL DEF Spec

-----------------------------------------------------------------------------
(* The risk of a trade.                                                    *)

(* A decision that a position with these prices keeps to.                  *)
Within(d, open, stop) ==
    d.decision = "APPROVED" /\ (d.pct # None => 100 * d.lots * Distance(open, stop) <= d.pct * d.equity)

(* The row has no fixed size: a size comes from the percentage or from     *)
(* nowhere.                                                                *)
LEMMA LatestConfig ==
  ASSUME TypeOK
  PROVE  Config \in RiskConfigs /\ Config.fixed = None /\ Config.caution = None
  <1>1. CASE configs = << >>
    BY <1>1, NoneAssumption DEF Config, get_latest_risk_config, Defaults, RiskConfigs
  <1>2. CASE configs # << >>
    <2>1. configs[Len(configs)] \in RiskConfigs
      BY <1>2 DEF TypeOK, Limited
    <2>2. Config = [configs[Len(configs)] EXCEPT !.caution = None, !.fixed = None]
      BY <1>2 DEF Config, get_latest_risk_config
    <2>3. QED
      BY <2>1, <2>2 DEF RiskConfigs
  <1>3. QED
    BY <1>1, <1>2

(* The equity that is read is an amount.                                   *)
LEMMA EquityRead == ASSUME equity \in Int PROVE Snapshot.equity \in Int
  BY DEF Snapshot, build_account_risk_snapshot

(* An approval with a size keeps to the percentage it was given with.      *)
LEMMA EvaluateWithin ==
  ASSUME Cycles, equity \in Int, NEW i \in Pipelines, Evaluate(i),
         decided'[current[i].id].decision = "APPROVED", decided'[current[i].id].lots # None
  PROVE  Within(decided'[current[i].id], current[i].candidate.entry, current[i].candidate.stop)
  <1> DEFINE s == current[i].id
             c == current[i].candidate
  <1>1. s \in Signals /\ DOMAIN decided = Signals
    BY EvaluateStep DEF Cycles, Domains
  <1>2. PICK m \in Markets :
          decided' = [decided EXCEPT ![s] =
             [decision |-> evaluate(Config, Snapshot, c, MarketCondition(m), m.news).decision,
              lots |-> evaluate(Config, Snapshot, c, MarketCondition(m), m.news).lots,
              equity |-> Snapshot.equity, pct |-> Config.pct]]
    BY DEF Evaluate
  <1>3. /\ decided'[s].lots = evaluate(Config, Snapshot, c, MarketCondition(m), m.news).lots
        /\ decided'[s].equity = Snapshot.equity /\ decided'[s].pct = Config.pct
    BY <1>1, <1>2
  <1>4. decided'[s].lots = AuthorizedLots(Config, Snapshot.equity, c)
    BY <1>3 DEF evaluate
  <1>5. Config.fixed = None /\ Config.pct \in Nat \cup {None} /\ Snapshot.equity \in Int
    BY LatestConfig, EquityRead DEF Cycles, RiskConfigs
  <1>6. CASE Config.pct = None
    BY <1>3, <1>6 DEF Within
  <1>7. CASE Config.pct # None
    <2>1. c # None /\ decided'[s].lots = PercentageEquity(Config.pct, Snapshot.equity, c.entry, c.stop)
      BY <1>4, <1>5, <1>7 DEF AuthorizedLots, calculate_lot_size
    <2>2. current[i] \in CurrentType
      BY DEF Cycles, TypeOK, CurrentType
    <2>3. c \in Candidates
      BY <2>1, <2>2 DEF CurrentType
    <2>4. c.entry \in Int \cup {None} /\ c.stop \in Int \cup {None}
      BY <2>3, InputsAssumption
    <2>5. 100 * decided'[s].lots * Distance(c.entry, c.stop) <= Config.pct * Snapshot.equity
      BY <1>5, <1>7, <2>1, <2>4, SizeWithin
    <2>6. QED
      BY <1>3, <2>5 DEF Within
  <1>8. QED
    BY <1>6, <1>7

(* Between the decision and the fill, and after it.                        *)
Sized ==
    /\ equity \in Int
    /\ \A i \in Pipelines : stage[i] = "decided" /\ Authorized(current[i].id) =>
          Within(decided[current[i].id], current[i].candidate.entry, current[i].candidate.stop)
    /\ \A i \in Pipelines : \A b \in broker[i] :
          b.lots = decided[b.signal].lots /\ Within(decided[b.signal], b.open, b.stop)

(* Every step keeps sizes and decisions together.                          *)
LEMMA NextSized == Cycles /\ Sized /\ [Next]_vars => Sized'
  <1> SUFFICES ASSUME Cycles, Sized, [Next]_vars PROVE Sized'
    OBVIOUS
  <1>1. ASSUME NEW i \in Pipelines, Evaluate(i) PROVE Sized'
    <2>1. /\ stage[i] = "proposed" /\ stage' = [stage EXCEPT ![i] = "decided"] /\ current[i].id \in Signals
          /\ \A s \in Signals : s # current[i].id => decided'[s] = decided[s]
          /\ UNCHANGED <<equity, command, current, broker, fills>>
      BY <1>1, EvaluateStep DEF account, memory
    <2>2. stage'[i] = "decided" /\ \A j \in Pipelines : j # i => stage'[j] = stage[j]
      BY <2>1 DEF Cycles, TypeOK
    <2>3. ASSUME NEW j \in Pipelines, j # i, stage[j] = "decided" PROVE decided'[current[j].id] = decided[current[j].id]
      BY <2>1, <2>3, Running DEF Cycles, Apart
    <2>4. ASSUME NEW j \in Pipelines, NEW b \in broker[j] PROVE decided'[b.signal] = decided[b.signal]
      BY <2>1 DEF Cycles, Filled, Unfilled
    <2>5. Authorized(current[i].id)' =>
             Within(decided'[current[i].id], current[i].candidate.entry, current[i].candidate.stop)
      <3>1. ASSUME Authorized(current[i].id)'
            PROVE  decided'[current[i].id].decision = "APPROVED" /\ decided'[current[i].id].lots # None
        BY <2>1, <3>1 DEF Authorized
      <3>2. QED
        BY <1>1, <3>1, EvaluateWithin DEF Sized
    <2>6. ASSUME NEW j \in Pipelines, stage'[j] = "decided", Authorized(current[j].id)'
          PROVE  Within(decided'[current[j].id], current[j].candidate.entry, current[j].candidate.stop)
      <3>1. CASE j = i
        BY <2>5, <2>6, <3>1
      <3>2. CASE j # i
        BY <2>1, <2>2, <2>3, <2>6, <3>2 DEF Sized, Authorized
      <3>3. QED
        BY <3>1, <3>2
    <2>7. \A j \in Pipelines : stage'[j] = "decided" /\ Authorized(current[j].id)' =>
             Within(decided[current[j].id], current[j].candidate.entry, current[j].candidate.stop)'
      BY <2>1, <2>6 DEF Within
    <2>8. \A j \in Pipelines : \A b \in broker'[j] :
             b.lots = decided'[b.signal].lots /\ Within(decided'[b.signal], b.open, b.stop)
      BY <2>1, <2>4 DEF Sized
    <2>9. QED
      BY <2>1, <2>7, <2>8 DEF Sized, Within
  <1>2. ASSUME NEW i \in Pipelines, Dispatch(i) PROVE Sized'
    <2>1. /\ stage[i] = "decided" /\ stage' = [stage EXCEPT ![i] = "dispatched"]
          /\ UNCHANGED <<equity, decided, command>>
          /\ \A j \in Pipelines : j # i => current'[j] = current[j]
      BY <1>2, DispatchStep DEF Cycles, rows, account
    <2>2. stage'[i] = "dispatched" /\ \A j \in Pipelines : j # i => stage'[j] = stage[j]
      BY <2>1 DEF Cycles, TypeOK
    <2>3. Authorized(current[i].id)
      BY <1>2 DEF Dispatch
    <2>4. ASSUME NEW j \in Pipelines, NEW b \in broker'[j]
          PROVE  b.lots = decided[b.signal].lots /\ Within(decided[b.signal], b.open, b.stop)
      <3>1. CASE b \in broker[j]
        BY <3>1 DEF Sized
      <3>2. CASE b \notin broker[j]
        <4>1. Fill(i)
          BY <1>2, <2>4, <3>2 DEF Dispatch, TooLate
        <4>2. DOMAIN broker = Pipelines
          BY DEF Cycles, Domains
        <4>3. b = [ticket |-> next_ticket(i), signal |-> current[i].id,
                   side |-> current[i].candidate.side, lots |-> decided[current[i].id].lots,
                   open |-> current[i].candidate.entry, stop |-> current[i].candidate.stop,
                   by |-> <<i, life[i]>>]
          BY <2>4, <3>2, <4>1, <4>2 DEF Fill
        <4>4. /\ b.signal = current[i].id /\ b.lots = decided[current[i].id].lots
              /\ b.open = current[i].candidate.entry /\ b.stop = current[i].candidate.stop
          BY <4>3
        <4>5. QED
          BY <2>1, <2>3, <4>4 DEF Sized
      <3>3. QED
        BY <3>1, <3>2
    <2>5. \A j \in Pipelines : stage'[j] = "decided" /\ Authorized(current[j].id)' =>
             Within(decided[current[j].id], current[j].candidate.entry, current[j].candidate.stop)'
      BY <2>1, <2>2 DEF Sized, Authorized, Within
    <2>6. QED
      BY <2>1, <2>4, <2>5 DEF Sized, Within
  <1>3. ASSUME NEW i \in Pipelines, Propose(i) \/ Book(i) \/ Ends(i) PROVE Sized'
    <2>1. /\ UNCHANGED <<equity, decided>>
          /\ broker' = broker \/ broker' = [broker EXCEPT ![i] = {}]
      BY <1>3 DEF Propose, Book, Ends, Expire, Block, Refuse, BookFails, Reconcile, CommitFails, Restart,
             account, rows, memory
    <2>2. /\ stage'[i] # "decided"
          /\ \A j \in Pipelines : j # i => stage'[j] = stage[j] /\ current'[j] = current[j]
      BY <1>3 DEF Propose, Book, Ends, Expire, Block, Refuse, BookFails, Reconcile, CommitFails, Restart,
             Return, Goto, Cycles, TypeOK
    <2>3. \A j \in Pipelines : \A b \in broker'[j] : b \in broker[j]
      BY <2>1 DEF Cycles, Domains
    <2>4. ASSUME NEW j \in Pipelines, j # i, stage[j] = "decided" PROVE command'[current[j].id] = command[current[j].id]
      <3>1. CASE Book(i)
        <4>1. current[i].id \in Signals /\ current[j].id # current[i].id
          BY <2>4, <3>1, Running DEF Book, Cycles, Apart
        <4>2. \E v : command' = [command EXCEPT ![current[i].id] = v]
          BY <3>1 DEF Book
        <4>3. QED
          BY <4>1, <4>2 DEF Cycles, TypeOK
      <3>2. CASE Propose(i) \/ Ends(i)
        BY <3>2 DEF Propose, Ends, Expire, Block, Refuse, BookFails, Reconcile, CommitFails, Restart, rows
      <3>3. QED
        BY <1>3, <3>1, <3>2
    <2>5. \A j \in Pipelines : stage'[j] = "decided" /\ Authorized(current[j].id)' =>
             Within(decided[current[j].id], current[j].candidate.entry, current[j].candidate.stop)'
      <3>1. ASSUME NEW j \in Pipelines, stage'[j] = "decided", Authorized(current[j].id)'
            PROVE  Within(decided[current[j].id], current[j].candidate.entry, current[j].candidate.stop)'
        <4>1. j # i /\ stage[j] = "decided" /\ current'[j] = current[j]
          BY <2>2, <3>1
        <4>2. current[j].id \in Signals
          BY <4>1, Running DEF Cycles
        <4>3. Authorized(current[j].id)
          BY <2>1, <2>4, <3>1, <4>1, <4>2 DEF Authorized
        <4>4. QED
          BY <2>1, <4>1, <4>3 DEF Sized, Within
      <3>2. QED
        BY <3>1
    <2>6. QED
      BY <2>1, <2>3, <2>5 DEF Sized, Within
  <1>4. ASSUME Aside \/ UNCHANGED vars PROVE Sized'
    <2>1. UNCHANGED <<decided, command, stage, current, broker>>
      BY <1>4 DEF Aside, Operator, unfreeze_account, set_kill_switch, StoreConfig, RecordEquity, RecordDay,
             trigger_news_sync, vars, rows, memory
    <2>2. equity' \in Int
      BY <1>4, InputsAssumption DEF Aside, Operator, unfreeze_account, set_kill_switch, StoreConfig, RecordEquity, RecordDay,
             trigger_news_sync, vars, account, Sized
    <2>3. QED
      BY <2>1, <2>2 DEF Sized, Authorized, Within
  <1>5. QED
    BY <1>1, <1>2, <1>3, <1>4, NextCases

(* A filled order risks no more than the percentage of the equity that its *)
(* decision was made with, however limits and equity changed since, for    *)
(* any number of pipelines and any prices.                                 *)
THEOREM RiskWithin == Spec => []RiskPerTrade
  <1>1. Init => Sized
    <2> SUFFICES ASSUME Init PROVE Sized
      OBVIOUS
    <2>1. equity \in Int
      <3>1. equity = 0 \/ equity \in Equities
        BY DEF Init
      <3>2. Equities \subseteq Int
        BY InputsAssumption
      <3>3. CASE equity = 0
        BY <3>3
      <3>4. CASE equity \in Equities
        BY <3>2, <3>4
      <3>5. QED
        BY <3>1, <3>3, <3>4
    <2>2. \A i \in Pipelines : stage[i] = "idle" /\ broker[i] = {}
      BY DEF Init
    <2>3. QED
      BY <2>1, <2>2 DEF Sized
  <1>2. Sized => RiskPerTrade
    BY DEF Sized, Within, Distance, RiskPerTrade
  <1>3. QED
    BY <1>1, <1>2, NextSized, CyclesHold, PTL DEF Spec

-----------------------------------------------------------------------------
(* Reconciliation.                                                         *)

(* Who filled a position: the pipeline and which of its lives.             *)
Lives == life \in [Pipelines -> Nat]

(* A simulator gives each of its positions a ticket of its own, and a row  *)
(* that comes from it is one of them.                                      *)
Ticketed ==
    /\ Lives
    /\ \A i \in Pipelines : \A b \in broker[i] :
          /\ b.by = <<i, life[i]>> /\ b.ticket \in Nat /\ b.ticket <= tickets[i]
          /\ \A c \in broker[i] : b.ticket = c.ticket => b = c
    /\ \A p \in positions : \E j \in Pipelines, n \in Nat : p.by = <<j, n>> /\ n <= life[j]
    /\ \A p \in positions : \A i \in Pipelines : p.by = <<i, life[i]>> => p \in broker[i]

(* Every step keeps tickets and rows apart.                                *)
LEMMA NextTicketed == Cycles /\ Ticketed /\ [Next]_vars => Ticketed'
  <1> SUFFICES ASSUME Cycles, Ticketed, [Next]_vars PROVE Ticketed'
    OBVIOUS
  <1>0. tickets \in [Pipelines -> Nat] /\ DOMAIN broker = Pipelines /\ life \in [Pipelines -> Nat]
    BY DEF Cycles, TypeOK, Domains, Ticketed, Lives
  <1>1. ASSUME NEW i \in Pipelines, Dispatch(i) PROVE Ticketed'
    <2>1. UNCHANGED <<life, positions>>
      BY <1>1 DEF Dispatch, rows
    <2>2. CASE TooLate(i)
      BY <2>1, <2>2 DEF TooLate, Ticketed, Lives
    <2>3. CASE Fill(i)
      <3>1. PICK new : /\ new.ticket = tickets[i] + 1 /\ new.by = <<i, life[i]>>
                       /\ broker' = [broker EXCEPT ![i] = broker[i] \cup {new}]
        BY <2>3 DEF Fill, next_ticket
      <3>2. tickets' = [tickets EXCEPT ![i] = tickets[i] + 1]
        BY <2>3 DEF Fill, next_ticket
      <3>3. /\ tickets'[i] = tickets[i] + 1 /\ tickets[i] \in Nat
            /\ \A j \in Pipelines : j # i => tickets'[j] = tickets[j] /\ broker'[j] = broker[j]
            /\ broker'[i] = broker[i] \cup {new}
        BY <1>0, <3>1, <3>2
      <3>4. ASSUME NEW j \in Pipelines, NEW b \in broker'[j]
            PROVE  /\ b.by = <<j, life[j]>> /\ b.ticket \in Nat /\ b.ticket <= tickets'[j]
                   /\ \A c \in broker'[j] : b.ticket = c.ticket => b = c
        <4>1. CASE j # i
          BY <3>3, <3>4, <4>1 DEF Ticketed
        <4>2. CASE j = i
          <5>1. \A c \in broker[i] : c.by = <<i, life[i]>> /\ c.ticket \in Nat /\ c.ticket <= tickets[i]
            BY DEF Ticketed
          <5>2. \A c, d \in broker[i] : c.ticket = d.ticket => c = d
            BY DEF Ticketed
          <5>3. \A c \in broker[i] : c.ticket # new.ticket
            BY <3>1, <3>3, <5>1
          <5>4. QED
            BY <3>1, <3>3, <3>4, <4>2, <5>1, <5>2, <5>3
        <4>3. QED
          BY <4>1, <4>2
      <3>5. \A p \in positions : \A j \in Pipelines : p.by = <<j, life[j]>> => p \in broker'[j]
        BY <3>3 DEF Ticketed
      <3>6. QED
        BY <2>1, <3>4, <3>5 DEF Ticketed, Lives
    <2>4. QED
      BY <1>1, <2>2, <2>3 DEF Dispatch
  <1>2. ASSUME NEW i \in Pipelines, Book(i) PROVE Ticketed'
    <2>1. UNCHANGED <<life, broker, tickets>>
      BY <1>2 DEF Book, memory
    <2>2. \A p \in positions' : p \in positions \/ p \in broker[i]
      BY <1>2 DEF Book
    <2>3. \A p \in broker[i] : p.by = <<i, life[i]>> /\ life[i] \in Nat
      BY <1>0 DEF Ticketed
    <2>4. \A p \in positions' : \E j \in Pipelines, n \in Nat : p.by = <<j, n>> /\ n <= life[j]
      BY <2>2, <2>3 DEF Ticketed
    <2>5. \A p \in positions' : \A j \in Pipelines : p.by = <<j, life[j]>> => p \in broker[j]
      <3>1. ASSUME NEW p \in broker[i], NEW j \in Pipelines, p.by = <<j, life[j]>> PROVE p \in broker[j]
        <4>1. <<i, life[i]>> = <<j, life[j]>>
          BY <2>3, <3>1
        <4>2. i = j
          BY <4>1
        <4>3. QED
          BY <4>2
      <3>2. QED
        BY <2>2, <3>1 DEF Ticketed
    <2>6. QED
      BY <2>1, <2>4, <2>5 DEF Ticketed, Lives
  <1>3. ASSUME NEW i \in Pipelines, Restart(i) PROVE Ticketed'
    <2>1. /\ broker' = [broker EXCEPT ![i] = {}] /\ tickets' = [tickets EXCEPT ![i] = 0]
          /\ life' = [life EXCEPT ![i] = life[i] + 1] /\ UNCHANGED positions
      BY <1>3 DEF Restart, rows
    <2>2. /\ broker'[i] = {} /\ life'[i] = life[i] + 1 /\ life[i] \in Nat /\ life' \in [Pipelines -> Nat]
          /\ \A j \in Pipelines : j # i => broker'[j] = broker[j] /\ life'[j] = life[j] /\ tickets'[j] = tickets[j]
      BY <1>0, <2>1
    <2>3. \A p \in positions : \E j \in Pipelines, n \in Nat : p.by = <<j, n>> /\ n <= life'[j]
      <3>1. \A j \in Pipelines : life[j] \in Nat /\ life'[j] \in Nat /\ life[j] <= life'[j]
        BY <1>0, <2>2
      <3>2. ASSUME NEW p \in positions PROVE \E j \in Pipelines, n \in Nat : p.by = <<j, n>> /\ n <= life'[j]
        <4>1. PICK j \in Pipelines, n \in Nat : p.by = <<j, n>> /\ n <= life[j]
          BY DEF Ticketed
        <4>2. n <= life'[j]
          BY <3>1, <4>1
        <4>3. QED
          BY <4>1, <4>2
      <3>3. QED
        BY <3>2
    <2>4. ASSUME NEW p \in positions, NEW j \in Pipelines, p.by = <<j, life'[j]>> PROVE p \in broker'[j]
      <3>1. PICK k \in Pipelines, n \in Nat : p.by = <<k, n>> /\ n <= life[k]
        BY DEF Ticketed
      <3>2. k = j /\ n = life'[j]
        BY <2>4, <3>1
      <3>3. j # i
        BY <2>2, <3>1, <3>2
      <3>4. QED
        BY <2>2, <2>4, <3>3 DEF Ticketed
    <2>5. ASSUME NEW j \in Pipelines, NEW b \in broker'[j]
          PROVE  /\ b.by = <<j, life'[j]>> /\ b.ticket \in Nat /\ b.ticket <= tickets'[j]
                 /\ \A c \in broker'[j] : b.ticket = c.ticket => b = c
      <3>1. j # i
        BY <2>2, <2>5
      <3>2. QED
        BY <2>2, <2>5, <3>1 DEF Ticketed
    <2>6. QED
      BY <2>1, <2>2, <2>3, <2>4, <2>5 DEF Ticketed, Lives
  <1>4. ASSUME \/ \E i \in Pipelines : Propose(i) \/ Evaluate(i) \/ (Ends(i) /\ ~Restart(i))
               \/ Aside \/ UNCHANGED vars
        PROVE  Ticketed'
    <2>1. UNCHANGED <<broker, tickets, life, positions>>
      BY <1>4 DEF Propose, Evaluate, Ends, Expire, Block, Refuse, BookFails, Reconcile, CommitFails,
             Aside, Operator, unfreeze_account, set_kill_switch, StoreConfig, RecordEquity, RecordDay,
             trigger_news_sync, vars, rows, memory
    <2>2. QED
      BY <2>1 DEF Ticketed, Lives
  <1>5. QED
    BY <1>1, <1>2, <1>3, <1>4, NextCases DEF Ends

(* What reconcile does not complain about has a row with its ticket.       *)
LEMMA ReconciledRow ==
  ASSUME NEW reported, NEW b \in reported, ~has_critical_discrepancy(reconcile(server_pos_map, reported))
  PROVE  \E p \in positions : p.ticket = b.ticket /\ p.lots = b.lots /\ p.side = b.side
  <1> DEFINE server == server_pos_map
             found  == reconcile(server, reported)
  <1>1. DOMAIN server = {p.ticket : p \in positions}
    BY DEF server_pos_map
  <1>2. ASSUME NEW d \in found, d.type \in {"ORPHAN", "VOLUME_MISMATCH", "SIDE_MISMATCH"} PROVE FALSE
    BY <1>2 DEF has_critical_discrepancy
  <1> HIDE DEF server
  <1>3. b.ticket \in DOMAIN server
    <2>1. SUFFICES ASSUME b.ticket \notin DOMAIN server PROVE FALSE
      OBVIOUS
    <2>2. [ticket |-> b.ticket, type |-> "ORPHAN"] \in found
      BY <2>1 DEF reconcile
    <2>3. [ticket |-> b.ticket, type |-> "ORPHAN"].type = "ORPHAN"
      OBVIOUS
    <2>4. QED
      BY <1>2, <2>2, <2>3
  <1>4. server[b.ticket].lots = b.lots /\ server[b.ticket].side = b.side
    <2>1. SUFFICES ASSUME ~(server[b.ticket].lots = b.lots /\ server[b.ticket].side = b.side) PROVE FALSE
      OBVIOUS
    <2> DEFINE d == [ticket |-> b.ticket,
                     type |-> IF server[b.ticket].lots # b.lots THEN "VOLUME_MISMATCH" ELSE "SIDE_MISMATCH"]
    <2>2. d \in found
      BY <1>3, <2>1 DEF reconcile
    <2>3. d.type \in {"VOLUME_MISMATCH", "SIDE_MISMATCH"}
      OBVIOUS
    <2>4. QED
      BY <1>2, <2>2, <2>3
  <1>5. PICK row : row = CHOOSE p \in positions : p.ticket = b.ticket
    OBVIOUS
  <1>6. row \in positions /\ row.ticket = b.ticket
    BY <1>1, <1>3, <1>5
  <1>7. server[b.ticket] = [side |-> row.side, lots |-> row.lots]
    BY <1>1, <1>3, <1>5 DEF server, server_pos_map
  <1>8. row.lots = b.lots /\ row.side = b.side
    BY <1>4, <1>7
  <1>9. QED
    BY <1>6, <1>8

(* A row that answers for a position.                                      *)
Answers(p, b) == /\ p.ticket = b.ticket /\ p.lots = b.lots /\ p.side = b.side
                 /\ p.signal = b.signal \/ p.by # b.by

(* Every step keeps what reconciliation has found.                         *)
LEMMA NextReconciled == Cycles /\ Ticketed /\ SoundReconciliation /\ [Next]_vars => SoundReconciliation'
  <1> SUFFICES ASSUME Cycles, Ticketed, SoundReconciliation, [Next]_vars PROVE SoundReconciliation'
    OBVIOUS
  <1> DEFINE Sound(j) == checked[j] /\ ~frozen[j] => \A b \in broker[j] : \E p \in positions : Answers(p, b)
  <1>1. \A j \in Pipelines : Sound(j)
    BY DEF SoundReconciliation, Answers
  <1>2. positions \subseteq positions'
    <2>1. ASSUME NEW i \in Pipelines, Book(i) PROVE positions \subseteq positions'
      BY <2>1 DEF Book
    <2>2. ASSUME \/ \E i \in Pipelines : Propose(i) \/ Evaluate(i) \/ Dispatch(i) \/ Ends(i)
                 \/ Aside \/ UNCHANGED vars
          PROVE  UNCHANGED positions
      BY <2>2 DEF Propose, Evaluate, Dispatch, Ends, Expire, Block, Refuse, BookFails, Reconcile, CommitFails, Restart,
             Aside, Operator, unfreeze_account, set_kill_switch, StoreConfig, RecordEquity, RecordDay,
             trigger_news_sync, vars, rows
    <2>3. QED
      BY <2>1, <2>2, NextCases
  <1>3. ASSUME NEW j \in Pipelines, UNCHANGED <<checked[j], frozen[j], broker[j]>> PROVE Sound(j)'
    BY <1>1, <1>2, <1>3 DEF Answers
  <1>4. ASSUME NEW i \in Pipelines, Reconcile(i) PROVE \A j \in Pipelines : Sound(j)'
    <2>1. /\ frozen' = [frozen EXCEPT ![i] =
                frozen[i] \/ has_critical_discrepancy(reconcile(server_pos_map, broker[i]))]
          /\ checked' = [checked EXCEPT ![i] = TRUE] /\ UNCHANGED <<broker, positions>>
      BY <1>4 DEF Reconcile, memory
    <2>2. \A j \in Pipelines : j # i => UNCHANGED <<checked[j], frozen[j], broker[j]>>
      BY <2>1 DEF Cycles, TypeOK, Domains
    <2>3. ASSUME ~frozen'[i], NEW b \in broker[i] PROVE \E p \in positions : Answers(p, b)
      <3>1. frozen'[i] = (frozen[i] \/ has_critical_discrepancy(reconcile(server_pos_map, broker[i])))
        BY <2>1 DEF Cycles, TypeOK
      <3>2. ~has_critical_discrepancy(reconcile(server_pos_map, broker[i]))
        BY <2>3, <3>1, Zenon
      <3>3. PICK p \in positions : p.ticket = b.ticket /\ p.lots = b.lots /\ p.side = b.side
        BY <3>2, ReconciledRow
      <3>4. p.signal = b.signal \/ p.by # b.by
        <4>1. SUFFICES ASSUME p.by = b.by PROVE p.signal = b.signal
          OBVIOUS
        <4>2. b.by = <<i, life[i]>>
          BY DEF Ticketed
        <4>3. p \in broker[i]
          BY <4>1, <4>2 DEF Ticketed
        <4>4. p = b
          BY <3>3, <4>3 DEF Ticketed
        <4>5. QED
          BY <4>4
      <3>5. QED
        BY <3>3, <3>4 DEF Answers
    <2>4. Sound(i)'
      BY <2>1, <2>3 DEF Answers
    <2>5. QED
      BY <1>3, <2>2, <2>4
  <1>5. ASSUME NEW i \in Pipelines, Dispatch(i) \/ Restart(i) \/ unfreeze_account(i) PROVE \A j \in Pipelines : Sound(j)'
    <2>1. \A j \in Pipelines : j # i => UNCHANGED <<checked[j], frozen[j], broker[j]>>
      BY <1>5 DEF Dispatch, Fill, TooLate, Restart, unfreeze_account, memory, Cycles, TypeOK, Domains
    <2>2. ~checked'[i] \/ UNCHANGED <<checked[i], frozen[i], broker[i]>>
      BY <1>5 DEF Dispatch, Fill, TooLate, Restart, unfreeze_account, memory, Cycles, TypeOK, Domains
    <2>3. QED
      BY <1>3, <2>1, <2>2
  <1>6. ASSUME \/ \E i \in Pipelines : Propose(i) \/ Evaluate(i) \/ Book(i) \/ (Ends(i) /\ ~Restart(i) /\ ~Reconcile(i))
               \/ Operator \/ UNCHANGED vars
        PROVE  \A j \in Pipelines : Sound(j)'
    <2>1. UNCHANGED <<broker, checked, frozen>>
      BY <1>6 DEF Propose, Evaluate, Book, Ends, Expire, Block, Refuse, BookFails, CommitFails,
             Operator, set_kill_switch, StoreConfig, RecordEquity, RecordDay,
             trigger_news_sync, vars, memory
    <2>2. QED
      BY <1>3, <2>1
  <1>7. \A j \in Pipelines : Sound(j)'
    BY <1>4, <1>5, <1>6, NextCases DEF Ends, Aside
  <1>8. QED
    BY <1>7 DEF SoundReconciliation, Answers

(* Reconciliation: a pipeline that has reconciled and is not frozen has,   *)
(* for every position of its simulator, the row of that position or one    *)
(* another simulator left under the same ticket, side and size.            *)
THEOREM ReconciliationSound == Spec => []SoundReconciliation
  <1>1. Init => Ticketed /\ SoundReconciliation
    BY DEF Init, Ticketed, Lives, SoundReconciliation
  <1>2. QED
    BY <1>1, NextTicketed, NextReconciled, CyclesHold, PTL DEF Spec

-----------------------------------------------------------------------------
(* Gate and engine.                                                        *)

(* A configuration without a caution level: the losses the gate lets pass  *)
(* the engine lets pass, and the other way round.                          *)
LEMMA SameLosses ==
  ASSUME NEW c, NEW s, c.caution = None
  PROVE  LossReason(c, s) = None <=> ~(s.pnl <= -c.daily) /\ ~(s.peak - s.equity >= c.drawdown)
  <1>1. None # "DAILY_LOSS_LIMIT_HIT" /\ None # "MAX_DRAWDOWN_HIT"
    BY NoneAssumption DEF Reasons
  <1>2. QED
    BY <1>1 DEF LossReason

(* A valid tick passes gate and engine alike, but for an age limit of 0.   *)
LEMMA SameTicks ==
  ASSUME NEW c \in RiskConfigs, NEW m \in Markets
  PROVE  LET tick == [bid |-> 100, ask |-> 100 + m.spread, spread |-> m.spread, age |-> m.age]
             data == MarketReason(c, MarketCondition(m))
         IN  /\ TickReason(c, tick) = None => data = None \/ (data = "STALE_MARKET_DATA" /\ c.staleness = 0)
             /\ data = None => TickReason(c, tick) = None \/ m.spread = 0
  <1> DEFINE tick == [bid |-> 100, ask |-> 100 + m.spread, spread |-> m.spread, age |-> m.age]
             market == MarketCondition(m)
  <1>1. m.age \in Nat /\ m.spread \in Nat
    BY InputsAssumption
  <1>2. /\ tick # None /\ market # None
        /\ tick.bid = 100 /\ tick.ask = 100 + m.spread /\ tick.spread = m.spread /\ tick.age = m.age
        /\ market.status = "READY" /\ market.age = m.age /\ market.spread = m.spread
    <2>1. tick \in [bid : Int, ask : Int, spread : Int, age : Int]
      BY <1>1
    <2>2. market \in [status : {"READY"}, age : Int, spread : Int]
      BY <1>1 DEF MarketCondition
    <2>3. tick # None /\ market # None
      BY <2>1, <2>2, RecordAssumption
    <2>4. market.status = "READY" /\ market.age = m.age /\ market.spread = m.spread
      BY DEF MarketCondition
    <2>5. QED
      BY <2>3, <2>4
  <1>3. c.staleness \in Nat /\ c.spread \in Nat \cup {None}
    BY DEF RiskConfigs
  <1>4. /\ None \notin {"STALE_MARKET_DATA", "SPREAD_TOO_HIGH", "MARKET_DATA_NOT_READY"}
        /\ m.age # None /\ m.spread # None
    BY <1>1, NoneAssumption DEF Reasons
  <1> HIDE DEF tick, market
  <1>5. /\ m.age > c.staleness => MarketReason(c, market) = "STALE_MARKET_DATA"
        /\ ~(m.age > c.staleness) => MarketReason(c, market) =
              IF c.spread # None /\ m.spread > c.spread THEN "SPREAD_TOO_HIGH" ELSE None
    BY <1>2, <1>4 DEF MarketReason
  <1>6. ASSUME TickReason(c, tick) = None
        PROVE  MarketReason(c, market) = None \/ (MarketReason(c, market) = "STALE_MARKET_DATA" /\ c.staleness = 0)
    <2>1. None \notin {"MARKET_DATA_STALE", "INVALID_SPREAD", "INVALID_BID", "INVALID_ASK"}
      BY GateAssumption DEF Verdicts
    <2>2. ~(m.age > (IF c.staleness = 0 THEN 2000 ELSE c.staleness))
      BY <1>2, <1>6, <2>1 DEF TickReason
    <2>3. ~(c.spread # None /\ m.spread > c.spread)
      BY <1>2, <1>6, <2>1 DEF TickReason
    <2>4. QED
      BY <1>5, <2>2, <2>3
  <1>7. ASSUME MarketReason(c, market) = None, m.spread # 0 PROVE TickReason(c, tick) = None
    <2>1. ~(m.age > c.staleness)
      BY <1>4, <1>5, <1>7
    <2>2. ~(c.spread # None /\ m.spread > c.spread)
      BY <1>4, <1>5, <1>7, <2>1
    <2>3. ~(m.age > (IF c.staleness = 0 THEN 2000 ELSE c.staleness))
      BY <1>1, <1>3, <2>1
    <2>4. ~(100 <= 0) /\ ~(100 + m.spread <= 100) /\ ~(m.spread < 0)
      BY <1>1, <1>7
    <2>5. QED
      BY <1>2, <2>2, <2>3, <2>4 DEF TickReason
  <1>8. QED
    BY <1>6, <1>7 DEF tick, market

(* Gate and engine, for one tick and one candidate.                        *)
LEMMA SameReasons ==
  ASSUME NEW c \in RiskConfigs, c.caution = None, NEW s, NEW m \in Markets, NEW candidate
  PROVE  LET gate   == evaluate_risk_gate(c, s, "XAUUSD", TRUE,
                          [bid |-> 100, ask |-> 100 + m.spread, spread |-> m.spread, age |-> m.age], TRUE, FALSE)
             reason == Reason(c, s, candidate, MarketCondition(m), "CLEAR")
         IN  /\ gate = "RISK_OK" =>
                   \/ reason \in {"MISSING_PARAMETERS", "PROFIT_LOCK_FLOOR_BREACHED",
                                  "MAX_POSITIONS_REACHED", "MAX_LOTS_EXCEEDED", "ALL_CHECKS_PASSED"}
                   \/ reason = "STALE_MARKET_DATA" /\ c.staleness = 0
             /\ reason = "ALL_CHECKS_PASSED" => gate = "RISK_OK" \/ s.equity <= 0 \/ m.spread = 0
  <1> DEFINE tick     == [bid |-> 100, ask |-> 100 + m.spread, spread |-> m.spread, age |-> m.age]
             data     == MarketReason(c, MarketCondition(m))
             loss     == LossReason(c, s)
             exposure == ExposureReason(c, s, AuthorizedLots(c, s.equity, candidate))
             gate     == evaluate_risk_gate(c, s, "XAUUSD", TRUE, tick, TRUE, FALSE)
             reason   == Reason(c, s, candidate, MarketCondition(m), "CLEAR")
             breached == ProfitLockBreached(c, s)
  <1>1. /\ TickReason(c, tick) = None => data = None \/ (data = "STALE_MARKET_DATA" /\ c.staleness = 0)
        /\ data = None => TickReason(c, tick) = None \/ m.spread = 0
    BY SameTicks
  <1>2. loss = None <=> ~(s.pnl <= -c.daily) /\ ~(s.peak - s.equity >= c.drawdown)
    BY SameLosses
  <1>3. exposure \in {None, "MAX_POSITIONS_REACHED", "MAX_LOTS_EXCEEDED"}
    BY DEF ExposureReason
  <1>4. NewsReason("CLEAR") = None
    BY DEF NewsReason
  <1>5. /\ data # "ALL_CHECKS_PASSED" /\ loss # "ALL_CHECKS_PASSED"
        /\ None \notin Reasons
    BY NoneAssumption DEF MarketReason, LossReason, Reasons
  <1>6. c.emergency \in BOOLEAN
    BY DEF RiskConfigs
  <1>7. TickReason(c, tick) # "RISK_OK"
    BY GateAssumption DEF TickReason, Verdicts
  <1>8. reason = IF c.emergency THEN "EMERGENCY_STOP_ACTIVE"
                 ELSE IF ~is_fully_configured(c) THEN "MISSING_PARAMETERS"
                 ELSE IF data # None THEN data
                 ELSE IF loss # None THEN loss
                 ELSE IF breached THEN "PROFIT_LOCK_FLOOR_BREACHED"
                 ELSE IF exposure # None THEN exposure
                 ELSE "ALL_CHECKS_PASSED"
    BY <1>4 DEF Reason
  <1>9. gate = IF c.emergency THEN "KILL_SWITCH_ACTIVE"
               ELSE IF TickReason(c, tick) # None THEN TickReason(c, tick)
               ELSE IF s.equity <= 0 THEN "ACCOUNT_STATE_UNAVAILABLE"
               ELSE IF c.daily # None /\ s.pnl <= -c.daily THEN "RISK_LIMIT_BLOCK"
               ELSE IF c.drawdown # None /\ s.peak - s.equity >= c.drawdown THEN "RISK_LIMIT_BLOCK"
               ELSE "RISK_OK"
    BY DEF evaluate_risk_gate
  <1>10. is_fully_configured(c) => c.daily # None /\ c.drawdown # None
    BY DEF is_fully_configured
  <1> HIDE DEF tick, data, loss, exposure, gate, reason, breached
  <1>11. ASSUME gate = "RISK_OK"
         PROVE  \/ reason \in {"MISSING_PARAMETERS", "PROFIT_LOCK_FLOOR_BREACHED",
                               "MAX_POSITIONS_REACHED", "MAX_LOTS_EXCEEDED", "ALL_CHECKS_PASSED"}
                \/ reason = "STALE_MARKET_DATA" /\ c.staleness = 0
    <2>1. ~c.emergency /\ TickReason(c, tick) = None
      BY <1>7, <1>9, <1>11
    <2>2. is_fully_configured(c) => loss = None
      BY <1>2, <1>9, <1>10, <1>11, <2>1
    <2>3. QED
      BY <1>1, <1>3, <1>8, <2>1, <2>2
  <1>12. ASSUME reason = "ALL_CHECKS_PASSED", ~(s.equity <= 0), m.spread # 0 PROVE gate = "RISK_OK"
    <2>1. ~c.emergency /\ is_fully_configured(c) /\ data = None /\ loss = None
      BY <1>5, <1>8, <1>12
    <2>2. QED
      BY <1>1, <1>2, <1>9, <1>12, <2>1
  <1>13. QED
    BY <1>11, <1>12 DEF gate, reason, tick

(* The gate in front of the agent and the engine agree on what they share, *)
(* for every stored configuration, snapshot and tick: they differ for a    *)
(* tick without spread and for an age limit of 0 only.                     *)
THEOREM GateAndEngineAgree == Spec => []GateAgrees
  <1>1. TypeOK => GateAgrees
    <2> SUFFICES ASSUME TypeOK PROVE GateAgrees
      OBVIOUS
    <2>1. Config \in RiskConfigs /\ Config.caution = None
      BY LatestConfig
    <2>2. QED
      BY <2>1, SameReasons DEF GateAgrees
  <1>2. QED
    BY <1>1, TypeCorrect, PTL

-----------------------------------------------------------------------------
(* The calendar.                                                           *)

(* What the rows of the calendar look like.                                *)
Calendar ==
    \A r \in news : /\ r.at \in Int /\ r.from = r.at - 6 /\ r.to = r.at + 6
                    /\ r.currency = "USD" /\ r.impact \in {"HIGH", "MEDIUM", "LOW"}

(* A row that blocks trading at a moment.                                  *)
Blocking(r, now) == r.impact = "HIGH" /\ r.at - 6 <= now /\ now <= r.at + 6

(* Synchronisation stores rows of that form only.                          *)
LEMMA SyncCalendar ==
  ASSUME Calendar, NEW feed \in Feeds, news' = N!fetch_and_sync_news(news, feed)
  PROVE  Calendar'
  <1>1. ASSUME NEW r \in news' PROVE r \in news \/ \E k \in N!Relevant(feed) : r = N!NewsEvent(feed[k])
    BY <1>1 DEF N!fetch_and_sync_news
  <1>2. ASSUME NEW k \in N!Relevant(feed), NEW r, r = N!NewsEvent(feed[k])
        PROVE  /\ r.at \in Int /\ r.from = r.at - 6 /\ r.to = r.at + 6
               /\ r.currency = "USD" /\ r.impact \in {"HIGH", "MEDIUM", "LOW"}
    <2>1. feed[k].country = "USD" /\ feed[k].date \in Int
      BY InputsAssumption DEF N!Relevant
    <2>2. N!Impact(feed[k].impact) \in {"HIGH", "MEDIUM", "LOW"}
      BY DEF N!Impact
    <2>3. /\ r.at = feed[k].date /\ r.currency = feed[k].country /\ r.impact = N!Impact(feed[k].impact)
          /\ r.from = feed[k].date - 6 /\ r.to = feed[k].date + 6
      BY <1>2 DEF N!NewsEvent, N!PreWindow, N!PostWindow
    <2>4. QED
      BY <2>1, <2>2, <2>3
  <1>3. QED
    BY <1>1, <1>2 DEF Calendar

(* Gate, dashboard and provider each come down to a row that blocks.       *)
LEMMA SameWindow ==
  ASSUME Calendar, NEW now \in Int
  PROVE  /\ N!Blackout(news, now) <=> \E r \in news : Blocking(r, now)
         /\ N!get_news_protection_state(news, now) = "BLACKOUT" <=> \E r \in news : Blocking(r, now)
         /\ N!get_news_state(news, now) = {"CLEAR"} <=> ~\E r \in news : Blocking(r, now)
  <1>1. N!Blackout(news, now) <=> \E r \in news : Blocking(r, now)
    BY DEF N!Blackout, Blocking, Calendar
  <1>2. N!get_news_protection_state(news, now) = "BLACKOUT" <=> \E r \in news : Blocking(r, now)
    <2> DEFINE events == {r \in news : /\ r.currency = "USD" /\ r.impact = "HIGH"
                                       /\ now - 2 * N!Hour <= r.at /\ r.at <= now + 48 * N!Hour}
    <2>1. N!get_news_protection_state(news, now) = "BLACKOUT" <=> \E r \in events : r.from <= now /\ now <= r.to
      BY DEF N!get_news_protection_state
    <2>2. \A r \in news : Blocking(r, now) <=> r \in events /\ r.from <= now /\ now <= r.to
      BY DEF Blocking, Calendar, N!Hour
    <2>3. QED
      BY <2>1, <2>2
  <1>3. N!get_news_state(news, now) = {"CLEAR"} <=> ~\E r \in news : Blocking(r, now)
    <2>1. \A r \in news : N!EventState(r, now) # "CLEAR" <=> Blocking(r, now)
      BY DEF N!EventState, Blocking, Calendar
    <2> DEFINE said == {N!EventState(r, now) : r \in news} \ {"CLEAR"}
    <2>2. said = {} <=> ~\E r \in news : Blocking(r, now)
      BY <2>1
    <2>3. N!get_news_state(news, now) = {"CLEAR"} <=> said = {}
      BY DEF N!get_news_state
    <2>4. QED
      BY <2>2, <2>3
  <1>4. QED
    BY <1>1, <1>2, <1>3

(* Whatever the feed has held, the gate, the dashboard and the provider of *)
(* the simulation agree at every moment whether an event blocks trading.   *)
THEOREM CalendarAgrees == Spec => []NewsAgrees
  <1>1. Init => Calendar
    BY DEF Init, Calendar
  <1>2. Calendar /\ [Next]_vars => Calendar'
    <2> SUFFICES ASSUME Calendar, [Next]_vars PROVE Calendar'
      OBVIOUS
    <2>1. UNCHANGED news \/ \E feed \in Feeds : news' = N!fetch_and_sync_news(news, feed)
      BY NextCases DEF Propose, Evaluate, Dispatch, Book, Ends, Expire, Block, Refuse, BookFails, Reconcile,
             CommitFails, Restart, Aside, Operator, unfreeze_account, set_kill_switch, StoreConfig, RecordEquity,
             RecordDay, trigger_news_sync, vars, account
    <2>2. QED
      BY <2>1, SyncCalendar DEF Calendar
  <1>3. Calendar => NewsAgrees
    BY SameWindow, InputsAssumption DEF NewsAgrees
  <1>4. QED
    BY <1>1, <1>2, <1>3, PTL DEF Spec
=============================================================================
