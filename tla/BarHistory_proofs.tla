-------------------------- MODULE BarHistory_proofs --------------------------
(***************************************************************************)
(* Proofs about BarHistory, for any number of evaluations, any interval    *)
(* and any bounds.                                                         *)
(***************************************************************************)
EXTENDS BarHistory, TLAPS

\* _get_bucket_start: the floor of a time is the number of whole intervals in it.
LEMMA BucketFloor ==
  ASSUME NEW t \in Nat
  PROVE  /\ Bucket(t) \in Nat
         /\ Interval * Bucket(t) <= t
         /\ t < Interval * Bucket(t) + Interval
  BY IntervalAssumption DEF Bucket

\* A later time is never in an earlier interval.
LEMMA BucketMonotone ==
  ASSUME NEW s \in Nat, NEW t \in Nat, s <= t
  PROVE  Bucket(s) <= Bucket(t)
<1> DEFINE a == Bucket(s)
           b == Bucket(t)
<1>1. a \in Nat /\ b \in Nat /\ Interval * a <= s /\ t < Interval * b + Interval
  BY BucketFloor
<1>2. SUFFICES ASSUME a >= b + 1 PROVE FALSE
  BY <1>1
<1>3. PICK d \in Nat : a = b + 1 + d
  <2>1. a - (b + 1) \in Nat /\ a = b + 1 + (a - (b + 1))
    BY <1>1, <1>2
  <2> QED BY <2>1
<1> HIDE DEF a, b
<1>4. Interval * a = Interval * b + Interval + Interval * d
  BY <1>1, <1>3, IntervalAssumption
<1>5. Interval * d >= 0 /\ Interval * b \in Nat /\ Interval * a \in Nat
  BY <1>1, <1>3, IntervalAssumption
<1> QED BY <1>1, <1>4, <1>5, IntervalAssumption

-----------------------------------------------------------------------------
(* The inductive invariant.  NoLookahead and OwnTicks say what the list of  *)
(* bars looks like; they last because everything a bar can still come from  *)
(* is no later than now: messages, memory, Redis, the values evaluations    *)
(* hold across an await, and the running bar, which belongs to the interval *)
(* of the last ingested tick.                                               *)

Past == 0 .. Bucket(now) - 1
Heard == 0 .. now

GoodBar(x) == x \in [open : Past, of : SUBSET Nat] /\ x.of = {x.open}

GoodMessage(q) == \/ q.type = "tick" /\ q.at \in Heard
                  \/ q.type = "bars" /\ q.at \in Past

ClockOK == now \in Start .. MaxTime /\ up \in BOOLEAN /\ stale \in BOOLEAN /\ sentBar \in Intervals \cup {None}

QueueOK == queue \in Seq(Messages) /\ \A i \in 1 .. Len(queue) : GoodMessage(queue[i])

StoredOK == /\ seeding \in Past \cup {None}
            /\ bars \in Past \cup {None} /\ redisBars \in Past \cup {None}
            /\ tick \in Heard \cup {None} /\ redisTick \in Heard \cup {None}

ListOK == /\ tail \in Seq(Bars)
          /\ \A x \in base : GoodBar(x)
          /\ \A i \in 1 .. Len(tail) : GoodBar(tail[i])

RunOK == \/ current = None /\ parts = {} /\ lastTick = None
         \/ lastTick \in Heard /\ current = Bucket(lastTick) /\ parts = {current}

GotOK(e) == /\ pc[e] \in {"store", "ingest"} => got[e] \in Heard
            /\ pc[e] = "fetch" => got[e] \in Past

EvalOK == /\ pc \in [Evaluators -> {"idle", "store", "ingest", "fetch"}]
          /\ got \in [Evaluators -> Nat \cup {None}]
          /\ \A e \in Evaluators : GotOK(e)

Inv == ClockOK /\ QueueOK /\ StoredOK /\ ListOK /\ RunOK /\ EvalOK

-----------------------------------------------------------------------------
\* What is past is inside the bounds, and at least one interval is.
LEMMA PastBounded ==
  ASSUME ClockOK
  PROVE  /\ now \in Nat /\ Bucket(now) \in Nat /\ Bucket(now) >= 1
         /\ Bucket(now) \in Intervals
         /\ Past \subseteq Intervals /\ Past \subseteq Nat
         /\ Heard \subseteq 0 .. MaxTime
<1>1. now \in Nat /\ now >= Interval /\ now <= MaxTime /\ MaxTime \in Nat
  BY StartAssumption, MaxTimeAssumption, IntervalAssumption DEF ClockOK
<1>2. Bucket(Interval) = 1
  BY IntervalAssumption DEF Bucket
<1>3. Bucket(now) \in Nat /\ Bucket(MaxTime) \in Nat
  BY <1>1, BucketFloor
<1>4. Bucket(now) <= Bucket(MaxTime)
  BY <1>1, BucketMonotone
<1>5. Bucket(Interval) <= Bucket(now)
  BY <1>1, IntervalAssumption, BucketMonotone
<1> QED BY <1>1, <1>2, <1>3, <1>4, <1>5 DEF Past, Heard, Intervals

\* A heard tick's interval is not later than the one that is forming.
LEMMA HeardBucket ==
  ASSUME ClockOK, NEW t \in Heard
  PROVE  t \in Nat /\ Bucket(t) \in Nat /\ Bucket(t) <= Bucket(now)
         /\ Bucket(t) \in Intervals
<1>1. t \in Nat /\ now \in Nat /\ t <= now /\ Bucket(now) \in Intervals
  BY PastBounded DEF Heard
<1>2. Bucket(t) \in Nat /\ Bucket(now) \in Nat /\ Bucket(t) <= Bucket(now)
  BY <1>1, BucketFloor, BucketMonotone
<1>3. Bucket(MaxTime) \in Nat
  BY MaxTimeAssumption, BucketFloor
<1> QED BY <1>1, <1>2, <1>3 DEF Intervals

\* A bar that is sound (closed, and made of its own interval's ticks) is a well-typed bar.
LEMMA GoodBarTyped ==
  ASSUME ClockOK, NEW x, GoodBar(x)
  PROVE  x \in Bars
<1>1. x.open \in Intervals /\ x.of \subseteq Intervals
  BY PastBounded DEF GoodBar
<1>2. x = [open |-> x.open, of |-> x.of]
  BY DEF GoodBar
<1> QED BY <1>1, <1>2 DEF Bars

\* seed_closed_bars keeps the list good when what it merges is past.
LEMMA SeedGood ==
  ASSUME ClockOK, NEW newest \in Past, NEW list \in Seq(Bars), now' = now,
         \A x \in base : GoodBar(x),
         \A i \in 1 .. Len(list) : GoodBar(list[i]),
         seed_closed_bars(newest, list)
  PROVE  ListOK'
<1>1. \A x \in MessageBars(newest) : GoodBar(x)
  <2> SUFFICES ASSUME NEW b \in 0 .. newest PROVE GoodBar(Bar(b, {b}))
    BY DEF MessageBars
  <2>1. b \in Past /\ b \in Nat
    BY PastBounded DEF Past
  <2> QED BY <2>1 DEF GoodBar, Bar
<1>2. \A x \in ListBars(list) : GoodBar(x)
  BY DEF ListBars
<1>3. \A x \in Merged(MessageBars(newest), list) : GoodBar(x)
  BY <1>1, <1>2 DEF Merged
<1>4. \A x \in base' : GoodBar(x)
  BY <1>3 DEF seed_closed_bars
<1>5. \A x : GoodBar(x) => GoodBar(x)'
  BY DEF GoodBar, Past
<1>6. tail' = <<>>
  BY DEF seed_closed_bars
<1>7. \A x \in base' : GoodBar(x)'
  BY <1>4, <1>5
<1> QED BY <1>6, <1>7 DEF ListOK

-----------------------------------------------------------------------------
\* The invariant holds initially: no tick, no bar, no connection (_get_bar_manager's empty builder).
LEMMA InitInv == Init => Inv
<1> SUFFICES ASSUME Init PROVE Inv
  OBVIOUS
<1>1. ClockOK
  <2>1. now \in Start .. MaxTime /\ sentBar \in Intervals \cup {None}
    BY StartAssumption, MaxTimeAssumption DEF Init
  <2>2. up \in BOOLEAN /\ stale \in BOOLEAN
    BY DEF Init
  <2> QED BY <2>1, <2>2 DEF ClockOK
<1>2. QueueOK /\ StoredOK /\ ListOK /\ RunOK
  BY DEF Init, QueueOK, StoredOK, ListOK, RunOK
<1>3. EvalOK
  BY DEF Init, EvalOK, GotOK
<1> QED BY <1>1, <1>2, <1>3 DEF Inv

\* While time stands still, what is good stays good.
LEMMA SameTime ==
  ASSUME now' = now
  PROVE  /\ Past' = Past /\ Heard' = Heard
         /\ \A x : GoodBar(x)' <=> GoodBar(x)
         /\ \A q : GoodMessage(q)' <=> GoodMessage(q)
  BY DEF Past, Heard, GoodBar, GoodMessage

\* When time goes on, everything past is past.
LEMMA QuoteInv == Inv /\ Quote => Inv'
<1> SUFFICES ASSUME Inv, Quote PROVE Inv'
  OBVIOUS
<1> USE DEF Inv
<1>1. ClockOK'
  BY StartAssumption, MaxTimeAssumption DEF ClockOK, Quote, eaVars
<1>2. now \in Nat /\ now' = now + 1
  BY PastBounded DEF Quote
<1>3. Bucket(now) <= Bucket(now') /\ Bucket(now) \in Nat /\ Bucket(now') \in Nat
  BY <1>2, BucketFloor, BucketMonotone
<1>4. Past \subseteq Past' /\ Heard \subseteq Heard'
  BY <1>2, <1>3 DEF Past, Heard
<1>5. \A x : GoodBar(x) => GoodBar(x)'
  BY <1>4 DEF GoodBar
<1>6. \A q : GoodMessage(q) => GoodMessage(q)'
  BY <1>4 DEF GoodMessage
<1>7. UNCHANGED <<queue, seeding, bars, redisBars, tick, redisTick, base, tail, current, parts,
                  lastTick, pc, got>>
  BY DEF Quote, eaVars, memVars, redisVars, listVars, runVars, evalVars
<1>8. QueueOK' /\ ListOK'
  BY <1>5, <1>6, <1>7 DEF QueueOK, ListOK
<1>9. StoredOK' /\ RunOK'
  BY <1>4, <1>7 DEF StoredOK, RunOK
<1>10. EvalOK'
  BY <1>4, <1>7 DEF EvalOK, GotOK
<1> QED BY <1>1, <1>8, <1>9, <1>10

\* Appending a good message keeps the queue good.
LEMMA AppendGood ==
  ASSUME QueueOK, NEW q \in Messages, GoodMessage(q), now' = now, queue' = Append(queue, q)
  PROVE  QueueOK'
<1>1. queue' \in Seq(Messages) /\ Len(queue') = Len(queue) + 1
  BY DEF QueueOK
<1>2. ASSUME NEW i \in 1 .. Len(queue') PROVE GoodMessage(queue'[i])
  BY <1>1 DEF QueueOK
<1> QED BY <1>1, <1>2, SameTime DEF QueueOK

\* A lost connection keeps the types of the EA's flags, whoever notices it first.
LEMMA DisconnectedTypes ==
  ASSUME ClockOK, Disconnected
  PROVE  up' \in BOOLEAN /\ stale' \in BOOLEAN /\ sentBar' \in Intervals \cup {None}
<1>1. CASE up' = FALSE /\ sentBar' = None /\ stale' = FALSE
  BY <1>1
<1>2. CASE stale' = TRUE /\ UNCHANGED <<up, sentBar>>
  BY <1>2 DEF ClockOK
<1> QED BY <1>1, <1>2 DEF Disconnected

\* The steps of the EA other than the clock.
LEMMA EAInv ==
  Inv /\ (SendMarketTick \/ (\E force \in BOOLEAN : SendClosedBars(force)) \/ Welcome
          \/ LoseConnection) => Inv'
<1> SUFFICES ASSUME Inv,
                    SendMarketTick \/ (\E force \in BOOLEAN : SendClosedBars(force)) \/ Welcome
                      \/ LoseConnection
             PROVE  Inv'
  OBVIOUS
<1> USE DEF Inv
<1>1. UNCHANGED <<now, seeding, bars, redisBars, tick, redisTick, base, tail, current, parts,
                  lastTick, pc, got>>
  BY DEF SendMarketTick, SendClosedBars, Welcome, LoseConnection, memVars, redisVars, listVars,
         runVars, evalVars
<1>2. StoredOK' /\ ListOK' /\ RunOK' /\ EvalOK'
  BY <1>1, SameTime DEF StoredOK, ListOK, RunOK, EvalOK, GotOK
<1>3. QueueOK' /\ ClockOK'
  <2>1. CASE SendMarketTick
    <3> DEFINE q == [type |-> "tick", at |-> now]
    <3>1. q \in Messages /\ GoodMessage(q)
      BY PastBounded DEF Messages, GoodMessage, Heard
    <3>2. queue' = Append(queue, q) /\ UNCHANGED <<now, up, sentBar, stale>>
      BY <2>1 DEF SendMarketTick
    <3> HIDE DEF q
    <3> QED BY <3>1, <3>2, AppendGood DEF ClockOK
  <2>2. CASE LoseConnection
    <3>1. Disconnected
      BY <2>2 DEF LoseConnection
    <3>2. QueueOK'
      BY <3>1 DEF Disconnected, QueueOK
    <3>3. up' \in BOOLEAN /\ stale' \in BOOLEAN /\ sentBar' \in Intervals \cup {None}
      BY <3>1, DisconnectedTypes
    <3> QED BY <3>2, <3>3, <1>1 DEF ClockOK
  <2>3. CASE SendBars /\ up' \in BOOLEAN /\ stale' \in BOOLEAN
    <3> DEFINE q == [type |-> "bars", at |-> CopyRates]
    <3>1. CopyRates \in Past /\ CopyRates \in Intervals
      BY PastBounded DEF CopyRates, Past
    <3>2. q \in Messages /\ GoodMessage(q)
      BY <3>1 DEF Messages, GoodMessage
    <3>3. queue' = Append(queue, q) /\ sentBar' = Bucket(now)
      BY <2>3 DEF SendBars
    <3> HIDE DEF q
    <3>4. QueueOK'
      BY <3>2, <3>3, <1>1, AppendGood
    <3> QED BY <3>3, <3>4, <2>3, <1>1, PastBounded DEF ClockOK
  <2>4. CASE \E force \in BOOLEAN : SendClosedBars(force)
    <3>1. SendBars /\ UNCHANGED <<up, stale>>
      BY <2>4 DEF SendClosedBars
    <3> QED BY <3>1, <2>3 DEF ClockOK
  <2>5. CASE Welcome
    <3>1. SendBars /\ up' = TRUE /\ stale' = stale
      BY <2>5 DEF Welcome
    <3> QED BY <3>1, <2>3 DEF ClockOK
  <2> QED BY <2>1, <2>2, <2>4, <2>5
<1> QED BY <1>2, <1>3

\* The handler of the agent's connection.
LEMMA HandlerInv == Inv /\ Handler => Inv'
<1> SUFFICES ASSUME Inv, Handler PROVE Inv'
  OBVIOUS
<1> USE DEF Inv
<1>1. UNCHANGED <<now, up, sentBar, stale, current, parts, lastTick, pc, got>>
  BY DEF Handler, record_market_data, record_closed_bars, seed_account_bars, eaVars, runVars,
         evalVars
<1>2. ClockOK' /\ RunOK' /\ EvalOK'
  BY <1>1, SameTime DEF ClockOK, RunOK, EvalOK, GotOK
<1>3. ASSUME queue # <<>>, queue' = Tail(queue)
      PROVE  /\ GoodMessage(Head(queue)) /\ QueueOK'
             /\ Head(queue).type = "tick" => Head(queue).at \in Heard
             /\ Head(queue).type = "bars" => Head(queue).at \in Past
  <2>1. GoodMessage(Head(queue))
    BY <1>3 DEF QueueOK
  <2>2. queue' \in Seq(Messages) /\ Len(queue') = Len(queue) - 1
    BY <1>3 DEF QueueOK
  <2>3. ASSUME NEW i \in 1 .. Len(queue') PROVE GoodMessage(queue'[i])
    BY <1>3, <2>2 DEF QueueOK
  <2> QED BY <2>1, <2>2, <2>3, <1>1, SameTime DEF QueueOK, GoodMessage
<1>4. CASE record_market_data
  <2>1. QueueOK' /\ Head(queue).at \in Heard
    BY <1>3, <1>4 DEF record_market_data
  <2>2. StoredOK'
    BY <2>1, <1>1, <1>4, SameTime DEF record_market_data, StoredOK
  <2>3. ListOK'
    BY <1>1, <1>4, SameTime DEF record_market_data, listVars, ListOK
  <2> QED BY <1>2, <2>1, <2>2, <2>3
<1>5. CASE record_closed_bars
  <2>1. QueueOK' /\ Head(queue).at \in Past
    BY <1>3, <1>5 DEF record_closed_bars
  <2>2. StoredOK'
    BY <2>1, <1>1, <1>5, SameTime DEF record_closed_bars, StoredOK
  <2>3. ListOK'
    BY <1>1, <1>5, SameTime DEF record_closed_bars, listVars, ListOK
  <2> QED BY <1>2, <2>1, <2>2, <2>3
<1>6. CASE seed_account_bars
  <2>1. seeding \in Past /\ tail \in Seq(Bars) /\ seed_closed_bars(seeding, tail)
    BY <1>6 DEF seed_account_bars, StoredOK, ListOK
  <2>2. ListOK'
    BY <2>1, <1>1, SeedGood DEF ListOK
  <2>3. QueueOK' /\ StoredOK'
    BY <1>1, <1>6, SameTime
    DEF seed_account_bars, eaVars, memVars, redisVars, QueueOK, StoredOK
  <2> QED BY <1>2, <2>2, <2>3
<1> QED BY <1>4, <1>5, <1>6 DEF Handler

\* A restart forgets everything but Redis.
LEMMA RestartInv == Inv /\ (Restart \/ Expire) => Inv'
<1> SUFFICES ASSUME Inv, Restart \/ Expire PROVE Inv'
  OBVIOUS
<1> USE DEF Inv
<1>1. CASE Restart
  <2>1. now' = now /\ queue' = <<>> /\ seeding' = None /\ tick' = None
        /\ bars' = None /\ base' = {} /\ tail' = <<>> /\ current' = None /\ parts' = {}
        /\ lastTick' = None /\ redisTick' = redisTick /\ redisBars' = redisBars
    BY <1>1 DEF Restart, Disconnected, redisVars
  <2>2. up' \in BOOLEAN /\ stale' \in BOOLEAN /\ sentBar' \in Intervals \cup {None}
    BY <1>1, DisconnectedTypes DEF Restart
  <2>3. ClockOK'
    BY <2>1, <2>2 DEF ClockOK
  <2>4. QueueOK' /\ StoredOK' /\ ListOK' /\ RunOK'
    BY <2>1, SameTime DEF QueueOK, StoredOK, ListOK, RunOK
  <2>5. EvalOK'
    BY <1>1 DEF Restart, EvalOK, GotOK
  <2> QED BY <2>3, <2>4, <2>5
<1>2. CASE Expire
  <2>1. UNCHANGED <<now, up, sentBar, stale, queue, seeding, bars, tick, base, tail, current, parts,
                    lastTick, pc, got>>
    BY <1>2 DEF Expire, eaVars, memVars, listVars, runVars, evalVars
  <2>2. StoredOK'
    BY <1>2, <2>1, SameTime DEF Expire, StoredOK
  <2>3. ClockOK' /\ QueueOK' /\ ListOK' /\ RunOK' /\ EvalOK'
    BY <2>1, SameTime DEF ClockOK, QueueOK, ListOK, RunOK, EvalOK, GotOK
  <2> QED BY <2>2, <2>3
<1> QED BY <1>1, <1>2

\* One evaluation moves on with a value that is no later than now.
LEMMA StepGood ==
  ASSUME EvalOK, NEW e \in Evaluators, now' = now,
         NEW to \in {"idle", "store", "ingest", "fetch"}, NEW value \in Nat \cup {None},
         to \in {"store", "ingest"} => value \in Heard,
         to = "fetch" => value \in Past,
         Step(e, to, value)
  PROVE  EvalOK'
<1>1. pc' \in [Evaluators -> {"idle", "store", "ingest", "fetch"}]
  BY DEF Step, EvalOK
<1>2. got' \in [Evaluators -> Nat \cup {None}]
  BY DEF Step, EvalOK
<1>3. ASSUME NEW f \in Evaluators PROVE GotOK(f)'
  <2>1. CASE f = e
    BY <2>1, SameTime DEF Step, EvalOK, GotOK
  <2>2. CASE f # e
    BY <2>2, SameTime DEF Step, EvalOK, GotOK
  <2> QED BY <2>1, <2>2
<1> QED BY <1>1, <1>2, <1>3 DEF EvalOK

\* validate_tick makes the running bar the bar of the last tick's interval.
LEMMA IngestGood ==
  ASSUME ClockOK, ListOK, RunOK, NEW t \in Heard, now' = now, validate_tick(t), ingest_tick(t)
  PROVE  /\ RunOK'
         /\ Appended(t) \in Seq(Bars)
         /\ \A i \in 1 .. Len(Appended(t)) : GoodBar(Appended(t)[i])
<1>1. t \in Nat /\ Bucket(t) \in Nat /\ Bucket(t) <= Bucket(now) /\ Bucket(now) \in Nat
  BY HeardBucket, PastBounded
<1>2. CASE current = None
  <2>1. lastTick' = t /\ current' = Bucket(t) /\ parts' = {Bucket(t)} /\ Appended(t) = tail
    BY <1>2 DEF ingest_tick, Appended, Closed
  <2> QED BY <2>1, SameTime DEF RunOK, ListOK
<1>3. CASE current # None
  <2>1. lastTick \in Heard /\ current = Bucket(lastTick) /\ parts = {current}
    BY <1>3 DEF RunOK
  <2>2. lastTick \in Nat /\ lastTick # None
    BY <2>1, PastBounded, NoneAssumption DEF Heard
  <2>3. lastTick <= t
    BY <2>2, <1>1 DEF validate_tick
  <2>4. current \in Nat /\ current <= Bucket(t)
    BY <2>1, <2>2, <2>3, <1>1, BucketFloor, BucketMonotone
  <2>5. CASE Bucket(t) > current
    <3>1. lastTick' = t /\ current' = Bucket(t) /\ parts' = {Bucket(t)}
          /\ Appended(t) = Append(tail, Bar(current, parts))
      BY <1>3, <2>5 DEF ingest_tick, Appended, Closed
    <3>2. RunOK'
      BY <3>1, SameTime DEF RunOK
    <3>3. current \in Past /\ current \in Nat
      BY <1>1, <2>4, <2>5 DEF Past
    <3>4. GoodBar(Bar(current, parts))
      BY <3>3, <2>1 DEF GoodBar, Bar
    <3> DEFINE x == Bar(current, parts)
    <3>5. x \in Bars
      BY <3>4, GoodBarTyped
    <3> HIDE DEF x
    <3>6. Appended(t) \in Seq(Bars) /\ Len(Appended(t)) = Len(tail) + 1
      BY <3>1, <3>5 DEF ListOK, x
    <3>7. ASSUME NEW i \in 1 .. Len(Appended(t)) PROVE GoodBar(Appended(t)[i])
      BY <3>1, <3>4, <3>6 DEF ListOK
    <3> QED BY <3>2, <3>6, <3>7
  <2>6. CASE ~(Bucket(t) > current)
    <3>1. Bucket(t) = current
      BY <2>4, <2>6, <1>1
    <3>2. lastTick' = t /\ current' = current /\ parts' = parts \cup {Bucket(t)}
          /\ Appended(t) = tail
      BY <1>3, <2>6 DEF ingest_tick, Appended, Closed
    <3>3. parts' = {current'}
      BY <3>1, <3>2, <2>1
    <3> QED BY <3>1, <3>2, <3>3, SameTime DEF RunOK, ListOK
  <2> QED BY <2>5, <2>6
<1> QED BY <1>2, <1>3

\* One step of evaluate_strategy_for_account, between two awaits, preserves the invariant.
LEMMA EvaluateInv ==
  ASSUME Inv, NEW e \in Evaluators, Evaluate(e)
  PROVE  Inv'
<1> USE DEF Inv
<1>1. UNCHANGED <<now, up, sentBar, stale, queue, seeding, redisTick, redisBars>>
  BY DEF Evaluate, ReadTick, StoreTick, Reject, Ingest, Fetch, eaVars, memVars, redisVars
<1>2. ClockOK' /\ QueueOK'
  BY <1>1, SameTime DEF ClockOK, QueueOK
<1>3. Heard \subseteq Nat /\ Past \subseteq Nat
  BY PastBounded DEF Heard
<1>4. CASE ReadTick(e)
  <2>1. UNCHANGED <<tick, bars, base, tail, current, parts, lastTick>>
    BY <1>4 DEF ReadTick, memVars, listVars, runVars
  <2>2. StoredOK' /\ ListOK' /\ RunOK'
    BY <2>1, <1>1, SameTime DEF StoredOK, ListOK, RunOK
  <2>3. CASE tick # None /\ Step(e, "ingest", tick)
    BY <2>3, <2>2, <1>1, <1>2, <1>3, StepGood DEF StoredOK
  <2>4. CASE redisTick # None /\ Step(e, "store", redisTick)
    BY <2>4, <2>2, <1>1, <1>2, <1>3, StepGood DEF StoredOK
  <2> QED BY <2>3, <2>4, <1>4 DEF ReadTick
<1>5. CASE StoreTick(e)
  <2>1. got[e] \in Heard /\ Step(e, "ingest", got[e])
    BY <1>5 DEF StoreTick, EvalOK, GotOK
  <2>2. UNCHANGED <<bars, base, tail, current, parts, lastTick>> /\ tick' = got[e]
    BY <1>5 DEF StoreTick, listVars, runVars
  <2>3. StoredOK' /\ ListOK' /\ RunOK'
    BY <2>1, <2>2, <1>1, SameTime DEF StoredOK, ListOK, RunOK
  <2>4. EvalOK'
    BY <2>1, <1>1, <1>3, StepGood
  <2> QED BY <2>3, <2>4, <1>2
<1>6. CASE Reject(e)
  <2>1. UNCHANGED <<tick, bars, base, tail, current, parts, lastTick>> /\ Step(e, "idle", None)
    BY <1>6 DEF Reject, memVars, listVars, runVars
  <2>2. StoredOK' /\ ListOK' /\ RunOK'
    BY <2>1, <1>1, SameTime DEF StoredOK, ListOK, RunOK
  <2>3. EvalOK'
    BY <2>1, <1>1, StepGood
  <2> QED BY <2>2, <2>3, <1>2
<1>7. CASE Ingest(e)
  <2> DEFINE list == Appended(got[e])
  <2>1. got[e] \in Heard /\ validate_tick(got[e]) /\ ingest_tick(got[e])
    BY <1>7 DEF Ingest, EvalOK, GotOK
  <2>2. RunOK' /\ list \in Seq(Bars) /\ \A i \in 1 .. Len(list) : GoodBar(list[i])
    BY <2>1, <1>1, IngestGood
  <2>3. /\ UNCHANGED <<tick, bars>>
        /\ \/ bars # None /\ seed_closed_bars(bars, list)
           \/ base' = base /\ tail' = list
        /\ \/ redisBars # None /\ Step(e, "fetch", redisBars)
           \/ Step(e, "idle", None)
    BY <1>7 DEF Ingest, memVars
  <2> HIDE DEF list
  <2>4. ListOK'
    <3>1. CASE bars # None /\ seed_closed_bars(bars, list)
      BY <3>1, <2>2, <1>1, SeedGood DEF StoredOK, ListOK
    <3>2. CASE base' = base /\ tail' = list
      BY <3>2, <2>2, <1>1, SameTime DEF ListOK
    <3> QED BY <2>3, <3>1, <3>2
  <2>5. StoredOK'
    BY <2>3, <1>1, SameTime DEF StoredOK
  <2>6. EvalOK'
    <3>1. CASE redisBars # None /\ Step(e, "fetch", redisBars)
      BY <3>1, <1>1, <1>3, StepGood DEF StoredOK
    <3>2. CASE Step(e, "idle", None)
      BY <3>2, <1>1, StepGood
    <3> QED BY <2>3, <3>1, <3>2
  <2> QED BY <2>2, <2>4, <2>5, <2>6, <1>2
<1>8. CASE Fetch(e)
  <2>1. got[e] \in Past /\ bars' = got[e] /\ seed_closed_bars(got[e], tail)
        /\ Step(e, "idle", None) /\ UNCHANGED <<tick, current, parts, lastTick>>
    BY <1>8 DEF Fetch, EvalOK, GotOK, runVars
  <2>2. ListOK'
    BY <2>1, <1>1, SeedGood DEF ListOK
  <2>3. StoredOK' /\ RunOK'
    BY <2>1, <1>1, SameTime DEF StoredOK, RunOK
  <2>4. EvalOK'
    BY <2>1, <1>1, StepGood
  <2> QED BY <2>2, <2>3, <2>4, <1>2
<1> QED BY <1>4, <1>5, <1>6, <1>7, <1>8 DEF Evaluate

\* A stuttering step preserves the invariant.
LEMMA StutterInv == Inv /\ UNCHANGED vars => Inv'
<1> SUFFICES ASSUME Inv, UNCHANGED vars PROVE Inv'
  OBVIOUS
<1>1. UNCHANGED <<now, up, sentBar, stale, queue, seeding, bars, redisBars, tick, redisTick, base, tail,
                  current, parts, lastTick, pc, got>>
  BY DEF vars, eaVars, memVars, redisVars, listVars, runVars, evalVars
<1> QED BY <1>1, SameTime DEF Inv, ClockOK, QueueOK, StoredOK, ListOK, RunOK, EvalOK, GotOK

\* The inductive invariant holds in every reachable state.
THEOREM Invariance == Spec => []Inv
<1>1. Inv /\ [Next]_vars => Inv'
  BY QuoteInv, EAInv, HandlerInv, EvaluateInv, RestartInv, StutterInv DEF Next
<1> QED BY <1>1, InitInv, PTL DEF Spec

\* The types hold for any interval and any bounds.
THEOREM TypeCorrect == Spec => []TypeOK
<1>1. Inv => TypeOK
  <2> SUFFICES ASSUME Inv PROVE TypeOK
    OBVIOUS
  <2>1. /\ Past \subseteq Intervals /\ Heard \subseteq 0 .. MaxTime
    BY PastBounded DEF Inv
  <2>2. now \in Start .. MaxTime /\ up \in BOOLEAN /\ stale \in BOOLEAN /\ sentBar \in Intervals \cup {None}
    BY DEF Inv, ClockOK
  <2>3. queue \in Seq(Messages) /\ tail \in Seq(Bars)
    BY DEF Inv, QueueOK, ListOK
  <2>4. {seeding, bars, redisBars} \subseteq Intervals \cup {None}
    BY <2>1 DEF Inv, StoredOK
  <2>5. base \subseteq Bars
    BY GoodBarTyped DEF Inv, ListOK
  <2>6. /\ {tick, redisTick, lastTick} \subseteq 0 .. MaxTime \cup {None}
        /\ current \in Intervals \cup {None} /\ parts \subseteq Intervals
    BY <2>1, HeardBucket DEF Inv, StoredOK, RunOK
  <2>7. /\ pc \in [Evaluators -> {"idle", "store", "ingest", "fetch"}]
        /\ got \in [Evaluators -> Nat \cup {None}]
    BY DEF Inv, EvalOK
  <2> QED BY <2>2, <2>3, <2>4, <2>5, <2>6, <2>7 DEF TypeOK
<1> QED BY <1>1, Invariance, PTL

\* No bar of the forming interval reaches an evaluation, whichever of its ways
\* it takes (multi_timeframe.py 6).
THEOREM LookaheadCorrect == Spec => []NoLookahead
<1>1. Inv => NoLookahead
  <2> SUFFICES ASSUME Inv, NEW x \in base \cup ListBars(tail) PROVE x.open < Bucket(now)
    BY DEF NoLookahead
  <2>1. GoodBar(x)
    BY DEF Inv, ListOK, ListBars
  <2>2. Bucket(now) \in Nat
    BY PastBounded DEF Inv
  <2> QED BY <2>1, <2>2 DEF GoodBar, Past
<1> QED BY <1>1, Invariance, PTL

\* Every bar is made of its own interval's ticks, however many evaluations
\* ingest in whatever order (validate_tick).
THEOREM OwnTicksCorrect == Spec => []OwnTicks
<1>1. Inv => OwnTicks
  <2> SUFFICES ASSUME Inv PROVE OwnTicks
    OBVIOUS
  <2>1. \A x \in base \cup ListBars(tail) : x.of = {x.open}
    BY DEF Inv, ListOK, ListBars, GoodBar
  <2>2. parts \subseteq {current}
    BY DEF Inv, RunOK
  <2> QED BY <2>1, <2>2 DEF OwnTicks
<1> QED BY <1>1, Invariance, PTL
=============================================================================
