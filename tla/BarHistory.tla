----------------------------- MODULE BarHistory -----------------------------
(***************************************************************************)
(* The closed M15 bars of one account: where they come from and what an    *)
(* evaluation is given.                                                    *)
(*                                                                         *)
(* Bars reach the account's BarBuilder on two ways: the EA sends the bars  *)
(* its terminal has closed and record_closed_bars seeds them, and every    *)
(* evaluation ingests the latest tick, from which the builder makes bars   *)
(* of its own.  Latest tick and last bars are kept in memory and in Redis; *)
(* memory and builder are lost when the server restarts.                   *)
(*                                                                         *)
(* Time is the time of the broker's newest tick.  A bar is its open time,  *)
(* counted in intervals, and the intervals whose ticks it is made of; its  *)
(* prices are left out.  The M5 and H1 builders, which nothing seeds and   *)
(* no evaluation reads, are left out too.                                  *)
(***************************************************************************)
EXTENDS Integers, Sequences, FiniteSets

CONSTANTS
  Evaluators,   \* the worker and the evaluate requests
  Interval,     \* interval_seconds of M15
  Copied,       \* bars of a message of the EA (60)
  Need,         \* bars an evaluation needs (50)
  Cap,          \* bars a seed keeps (300)
  Start,        \* time at the beginning
  MaxTime, MaxQueue, MaxRestarts, MaxLosses,   \* bounds
  None          \* no value

ASSUME IntervalAssumption == Interval \in Nat /\ Interval > 0
ASSUME StartAssumption == Start \in Nat /\ Start >= Interval   \* a bar is closed
ASSUME MaxTimeAssumption == MaxTime \in Nat /\ MaxTime >= Start
ASSUME NoneAssumption == None \notin Int

VARIABLES
  now,      \* time of the broker's newest tick
  up,       \* the EA is connected and welcomed
  sentBar,  \* g_last_m15_bar_time, as an interval
  stale,    \* the flags are an earlier connection's: this one gets no hello
  queue,    \* messages of the EA the handler has not read
  seeding,  \* newest bar of a message whose seed waits for Redis, or None
  tick,     \* _in_memory_account_ticks: time of the latest tick, or None
  bars,     \* _in_memory_account_bars: newest of the stored bars, or None
  redisTick, redisBars,   \* the same in Redis
  base,     \* _closed_bars as the last seed left it, sorted by open time
  tail,     \* the bars process_tick has appended since
  current,  \* _current_bar_start, or None
  parts,    \* the intervals whose ticks went into the running bar
  lastTick, \* _last_tick, or None
  pc, got,  \* of each evaluation: its step, and the value its read returned
  restarts, losses

eaVars     == <<up, sentBar, stale, queue>>
memVars    == <<tick, bars>>
redisVars  == <<redisTick, redisBars>>
listVars   == <<base, tail>>
runVars    == <<current, parts, lastTick>>
evalVars   == <<pc, got>>
faultVars  == <<restarts, losses>>
vars == <<now, eaVars, seeding, memVars, redisVars, listVars, runVars, evalVars, faultVars>>

-----------------------------------------------------------------------------
\* _get_bucket_start
Bucket(t) == t \div Interval

Bar(b, of) == [open |-> b, of |-> of]

\* A message of the EA holds the last Copied bars up to its newest one.
MessageBars(newest) == {Bar(b, {b}) : b \in {c \in 0 .. newest : c + Copied > newest}}

ListBars(list) == {list[i] : i \in DOMAIN list}

Times(S) == {x.open : x \in S}

\* Of two bars with one open time the seeded one wins, then the appended one.
Merged(seed, list) ==
  seed \cup {x \in ListBars(list) : x.open \notin Times(seed)}
       \cup {x \in base : x.open \notin Times(seed \cup ListBars(list))}

\* seed_closed_bars, with the bars appended so far: merge, sort, keep the newest.
seed_closed_bars(newest, list) ==
  LET all == Merged(MessageBars(newest), list)
  IN /\ base' = {x \in all : Cardinality({y \in all : y.open > x.open}) < Cap}
     /\ tail' = <<>>

Length == Cardinality(base) + Len(tail)

Init ==
  /\ now = Start
  /\ up = FALSE /\ sentBar = None /\ stale = FALSE /\ queue = <<>>
  /\ seeding = None
  /\ tick = None /\ bars = None
  /\ redisTick = None /\ redisBars = None
  /\ base = {} /\ tail = <<>>
  /\ current = None /\ parts = {} /\ lastTick = None
  /\ pc = [e \in Evaluators |-> "idle"]
  /\ got = [e \in Evaluators |-> None]
  /\ restarts = 0 /\ losses = 0

-----------------------------------------------------------------------------
(* The EA. *)

\* The broker quotes a later price.
Quote ==
  /\ now < MaxTime
  /\ now' = now + 1
  /\ UNCHANGED <<eaVars, seeding, memVars, redisVars, listVars, runVars, evalVars, faultVars>>

\* SendMarketTick
SendMarketTick ==
  /\ up /\ Len(queue) < MaxQueue
  /\ queue' = Append(queue, [type |-> "tick", at |-> now])
  /\ UNCHANGED <<now, up, sentBar, stale, seeding, memVars, redisVars, listVars, runVars, evalVars,
                 faultVars>>

\* Mutant of CopyRates: it starts at index 0, the candle that is still forming.
CopyRates_FromZero == Bucket(now)

\* The newest bar of CopyRates(_Symbol, PERIOD_M15, 1, 60, rates).
CopyRates == Bucket(now) - 1

\* SendClosedBars when its checks let it.
SendBars ==
  /\ Len(queue) < MaxQueue
  /\ queue' = Append(queue, [type |-> "bars", at |-> CopyRates])
  /\ sentBar' = Bucket(now)

\* On a tick or a timer unless sent for this bar, and always for GET_BARS.
SendClosedBars(force) ==
  /\ up
  /\ force \/ sentBar # Bucket(now)
  /\ SendBars
  /\ UNCHANGED <<now, up, stale, seeding, memVars, redisVars, listVars, runVars, evalVars,
                 faultVars>>

\* A new connection is welcomed, and OnWsMessage sends the bars at once.
Welcome ==
  /\ ~up /\ ~stale
  /\ up' = TRUE
  /\ SendBars
  /\ UNCHANGED <<now, stale, seeding, memVars, redisVars, listVars, runVars, evalVars, faultVars>>

\* The connection breaks, with what the handler has not read.  Either OnTimer
\* finds the EA disconnected and forgets the welcome and which bar was sent, or
\* OnTick has reconnected first and both outlive their connection.
Disconnected ==
  /\ queue' = <<>>
  /\ \/ up' = FALSE /\ sentBar' = None /\ stale' = FALSE
     \/ stale' = TRUE /\ UNCHANGED <<up, sentBar>>

LoseConnection ==
  /\ losses < MaxLosses
  /\ losses' = losses + 1
  /\ Disconnected
  /\ UNCHANGED <<now, seeding, memVars, redisVars, listVars, runVars, evalVars, restarts>>

-----------------------------------------------------------------------------
(* The agent's handler. *)

\* record_market_data; the write to Redis may fail.
record_market_data ==
  /\ seeding = None /\ queue # <<>> /\ Head(queue).type = "tick"
  /\ queue' = Tail(queue)
  /\ tick' = Head(queue).at
  /\ redisTick' \in {Head(queue).at, redisTick}
  /\ UNCHANGED <<now, up, sentBar, stale, seeding, bars, redisBars, listVars, runVars, evalVars,
                 faultVars>>

\* record_closed_bars up to its await of Redis, whose write may fail ...
record_closed_bars ==
  /\ seeding = None /\ queue # <<>> /\ Head(queue).type = "bars"
  /\ queue' = Tail(queue)
  /\ bars' = Head(queue).at
  /\ redisBars' \in {Head(queue).at, redisBars}
  /\ seeding' = Head(queue).at
  /\ UNCHANGED <<now, up, sentBar, stale, tick, redisTick, listVars, runVars, evalVars, faultVars>>

\* Mutant of seed_account_bars: the bars are stored and not seeded.
seed_account_bars_Stored ==
  /\ seeding # None
  /\ seeding' = None
  /\ UNCHANGED <<now, eaVars, memVars, redisVars, listVars, runVars, evalVars, faultVars>>

\* ... and after it.
seed_account_bars ==
  /\ seeding # None
  /\ seed_closed_bars(seeding, tail)
  /\ seeding' = None
  /\ UNCHANGED <<now, eaVars, memVars, redisVars, runVars, evalVars, faultVars>>

-----------------------------------------------------------------------------
(* An evaluation: gates 5 to 7. *)

Step(e, to, value) == pc' = [pc EXCEPT ![e] = to] /\ got' = [got EXCEPT ![e] = value]

\* get_latest_market_data: memory, else Redis ...
ReadTick(e) ==
  /\ pc[e] = "idle"
  /\ \/ tick # None /\ Step(e, "ingest", tick)
     \/ tick = None /\ redisTick # None /\ Step(e, "store", redisTick)
  /\ UNCHANGED <<now, eaVars, seeding, memVars, redisVars, listVars, runVars, faultVars>>

\* ... whose answer becomes the tick in memory, even if a newer one is there by now.
StoreTick(e) ==
  /\ pc[e] = "store"
  /\ tick' = got[e]
  /\ Step(e, "ingest", got[e])
  /\ UNCHANGED <<now, eaVars, seeding, bars, redisVars, listVars, runVars, faultVars>>

\* The tick is stale, a position is open, or validate_tick finds it out of order.
Reject(e) ==
  /\ pc[e] = "ingest"
  /\ Step(e, "idle", None)
  /\ UNCHANGED <<now, eaVars, seeding, memVars, redisVars, listVars, runVars, faultVars>>

\* Mutant of validate_tick: the order is not checked.
validate_tick_AnyOrder(t) == TRUE

validate_tick(t) == lastTick # None => t >= lastTick

\* The bar that process_tick appends.
Closed(t) == current # None /\ Bucket(t) > current

\* ingest_tick and process_tick; the running bar takes every other tick.
ingest_tick(t) ==
  /\ lastTick' = t
  /\ current' = IF current = None \/ Closed(t) THEN Bucket(t) ELSE current
  /\ parts' = IF current = None \/ Closed(t) THEN {Bucket(t)} ELSE parts \cup {Bucket(t)}

Appended(t) == IF Closed(t) THEN Append(tail, Bar(current, parts)) ELSE tail

\* Gate 7: ingest the tick; with too few bars, seed the stored ones, from memory
\* at once or from Redis.
Ingest(e) ==
  LET list  == Appended(got[e])
      short == Cardinality(base) + Len(list) < Need
  IN /\ pc[e] = "ingest"
     /\ validate_tick(got[e])
     /\ ingest_tick(got[e])
     /\ IF short /\ bars # None THEN seed_closed_bars(bars, list)
                               ELSE base' = base /\ tail' = list
     /\ IF short /\ bars = None /\ redisBars # None THEN Step(e, "fetch", redisBars)
                                                   ELSE Step(e, "idle", None)
     /\ UNCHANGED <<now, eaVars, seeding, memVars, redisVars, faultVars>>

\* Redis has answered: get_closed_bars stores the bars, and they are seeded.
Fetch(e) ==
  /\ pc[e] = "fetch"
  /\ bars' = got[e]
  /\ seed_closed_bars(got[e], tail)
  /\ Step(e, "idle", None)
  /\ UNCHANGED <<now, eaVars, seeding, tick, redisVars, runVars, faultVars>>

-----------------------------------------------------------------------------
\* The server restarts; Redis and the EA go on.
Restart ==
  /\ restarts < MaxRestarts
  /\ restarts' = restarts + 1
  /\ Disconnected
  /\ seeding' = None
  /\ tick' = None /\ bars' = None
  /\ base' = {} /\ tail' = <<>>
  /\ current' = None /\ parts' = {} /\ lastTick' = None
  /\ pc' = [e \in Evaluators |-> "idle"]
  /\ got' = [e \in Evaluators |-> None]
  /\ UNCHANGED <<now, redisVars, losses>>

\* Redis drops the tick after 300 seconds and the bars after a day.
Expire ==
  /\ redisTick' \in {redisTick, None}
  /\ redisBars' \in {redisBars, None}
  /\ UNCHANGED <<now, eaVars, seeding, memVars, listVars, runVars, evalVars, faultVars>>

Handler == record_market_data \/ record_closed_bars \/ seed_account_bars

Evaluate(e) ==
  \/ ReadTick(e) \/ StoreTick(e) \/ Reject(e) \/ Ingest(e) \/ Fetch(e)

Next ==
  \/ Quote \/ SendMarketTick
  \/ \E force \in BOOLEAN : SendClosedBars(force)
  \/ Welcome \/ LoseConnection
  \/ Handler
  \/ \E e \in Evaluators : Evaluate(e)
  \/ Restart \/ Expire

Spec == Init /\ [][Next]_vars

\* The EA reconnects and its handler reads on; nobody has to evaluate.
FairSpec == Spec /\ WF_vars(Welcome) /\ WF_vars(Handler)

-----------------------------------------------------------------------------
(* Properties. *)

Intervals == 0 .. Bucket(MaxTime)
Bars == [open : Intervals, of : SUBSET Intervals]
Messages == [type : {"tick"}, at : 0 .. MaxTime] \cup [type : {"bars"}, at : Intervals]

\* The shape of every variable; no bar and no message is beyond the last interval.
TypeOK ==
  /\ now \in Start .. MaxTime
  /\ up \in BOOLEAN /\ stale \in BOOLEAN
  /\ sentBar \in Intervals \cup {None}
  /\ queue \in Seq(Messages)
  /\ {seeding, bars, redisBars} \subseteq Intervals \cup {None}
  /\ {tick, redisTick, lastTick} \subseteq 0 .. MaxTime \cup {None}
  /\ base \subseteq Bars
  /\ tail \in Seq(Bars)
  /\ current \in Intervals \cup {None}
  /\ parts \subseteq Intervals
  /\ pc \in [Evaluators -> {"idle", "store", "ingest", "fetch"}]
  /\ got \in [Evaluators -> Nat \cup {None}]

\* "No lookahead bias: bar closed only when next bucket arrives"
\* (multi_timeframe.py 6): whichever way a bar came, over the wire, through
\* memory, Redis or the builder, its interval is over when an evaluation can
\* see it.
NoLookahead == \A x \in base \cup ListBars(tail) : x.open < Bucket(now)

\* A bar is made of the ticks of its own interval, although process_tick itself
\* adds every tick that does not begin a later bar: two evaluations that read
\* their ticks in one order and ingest them in the other are caught by
\* validate_tick.
OwnTicks ==
  /\ \A x \in base \cup ListBars(tail) : x.of = {x.open}
  /\ parts \subseteq {current}

\* BARS_WARMING_UP ends: after the last restart and the last loss of the
\* connection the builder has its bars for good, without any evaluation's help,
\* unless the EA took that connection for the one before it (AurexisAgent.mq5
\* 510) and so neither greeted it nor sent its bars again.
WarmsUp == <>[](Length >= Need \/ stale)
=============================================================================
