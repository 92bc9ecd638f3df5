---------------------------- MODULE CandlePipeline ----------------------------
(***************************************************************************)
(* From a tick to a strategy: the web socket callback puts ticks into a    *)
(* bounded queue (websocket_manager.py, tick_queue_manager.py), the tick   *)
(* processor thread takes them out and builds one-minute candles           *)
(* (tick_processor.py, candle_builder.py), a closed candle goes to the     *)
(* strategy worker's bounded queue, and the worker's strategies read the   *)
(* history through market_data_service.py.  Time is counted in minutes,    *)
(* prices are whole units, 0 stands for a price the processor refuses.     *)
(* What a strategy then does with a candle is TradePipeline's subject.     *)
(***************************************************************************)
EXTENDS Integers, Sequences, Instruments

CONSTANTS
    TickPrices,
    LastMinute,         \* bound on the clock
    MaxTicks,           \* bound on the ticks that pass the web socket callback
    MaxBatch,           \* ticks per callback
    TickQueueSize, StrategyQueueSize, MaxHistory, Lookback

ASSUME CandleAssumption ==
    /\ TickPrices \subseteq Nat
    /\ {LastMinute, MaxTicks, MaxBatch} \subseteq Nat
    /\ {TickQueueSize, StrategyQueueSize, MaxHistory, Lookback} \subseteq Nat \ {0}

VARIABLES
    minute, ready,      \* exchange time; the system state is READY
    incoming,           \* rest of the batch the callback is enqueueing
    tickQueue,
    consumer, tick,     \* the tick processor thread and the tick it holds
    processed,          \* history: the ticks the candle builder was given
    candles,            \* per symbol, oldest first, the newest one open
    strategyQueue,
    worker, candle,     \* the strategy worker thread and the event it holds
    window              \* the candles a strategy was given for its indicators

feed == <<minute, ready>>
tickSide == <<incoming, tickQueue, consumer, tick, processed>>
workerSide == <<worker, candle, window>>
candleVars == <<feed, tickSide, candles, strategyQueue, workerSide>>

Tick == [symbol : Symbols, minute : 0..LastMinute, price : TickPrices]
Candle == [minute : 0..LastMinute, open : Nat, high : Nat, low : Nat, close : Nat,
           closed : BOOLEAN]
Event == [symbol : Symbols, candle : Candle]
Nothing == <<>>

CandleTypeOK ==
    /\ minute \in 0..LastMinute /\ ready \in BOOLEAN
    /\ incoming \in Seq(Tick)
    /\ tickQueue \in Seq(Tick) /\ Len(tickQueue) <= TickQueueSize
    /\ consumer \in {"check", "get", "process"}
    /\ IF consumer = "process" THEN tick \in Tick ELSE tick = Nothing
    /\ processed \in Seq(Tick)
    /\ candles \in [Symbols -> Seq(Candle)]
    /\ \A s \in Symbols : Len(candles[s]) <= MaxHistory
    /\ strategyQueue \in Seq(Event) /\ Len(strategyQueue) <= StrategyQueueSize
    /\ worker \in {"check", "get", "evaluate", "decide"}
    /\ IF worker \in {"evaluate", "decide"} THEN candle \in Event ELSE candle = Nothing
    /\ window \in Seq(Candle) /\ Len(window) <= Lookback

CandleInit ==
    /\ minute = 0 /\ ready \in BOOLEAN
    /\ incoming = <<>> /\ tickQueue = <<>>
    /\ consumer = "check" /\ tick = Nothing /\ processed = <<>>
    /\ candles = [s \in Symbols |-> <<>>]
    /\ strategyQueue = <<>>
    /\ worker = "check" /\ candle = Nothing /\ window = <<>>

LastOf(seq) == seq[Len(seq)]

\* Mutant: one candle more than the history may hold.
NewestButOne(n, seq) == SubSeq(seq, IF Len(seq) > n THEN Len(seq) - n ELSE 1, Len(seq))

Newest(n, seq) == SubSeq(seq, IF Len(seq) > n THEN Len(seq) - n + 1 ELSE 1, Len(seq))

-----------------------------------------------------------------------------
(* The world: time, and a system state that anybody may change *)

MinutePasses ==
    /\ minute < LastMinute
    /\ minute' = minute + 1
    /\ UNCHANGED <<ready, tickSide, candles, strategyQueue, workerSide>>

StateChanges ==
    /\ ready' = ~ready
    /\ UNCHANGED <<minute, tickSide, candles, strategyQueue, workerSide>>

-----------------------------------------------------------------------------
(* Web socket thread *)

InFlight == Len(incoming) + Len(tickQueue) + (IF consumer = "process" THEN 1 ELSE 0)

\* _on_ticks: the state is read once per batch; without READY the batch is
\* dropped.  Ticks may carry an older minute than the clock's.
OnTicks(batch) ==
    /\ incoming = <<>> /\ ready
    /\ InFlight + Len(processed) + Len(batch) <= MaxTicks
    /\ \A i \in DOMAIN batch : batch[i].minute <= minute
    /\ incoming' = batch
    /\ UNCHANGED <<feed, tickQueue, consumer, tick, processed, candles, strategyQueue,
                   workerSide>>

\* enqueue_ticks: a put that does not wait; a tick that finds the queue full is lost.
EnqueueTick ==
    /\ incoming # <<>>
    /\ incoming' = Tail(incoming)
    /\ tickQueue' = IF Len(tickQueue) < TickQueueSize
                    THEN Append(tickQueue, Head(incoming)) ELSE tickQueue
    /\ UNCHANGED <<feed, consumer, tick, processed, candles, strategyQueue, workerSide>>

-----------------------------------------------------------------------------
(* Tick processor thread *)

\* Without READY the thread sleeps; the queue keeps what it holds.
ConsumerChecks ==
    /\ consumer = "check" /\ ready
    /\ consumer' = "get"
    /\ UNCHANGED <<feed, incoming, tickQueue, tick, processed, candles, strategyQueue,
                   workerSide>>

ConsumerTimesOut ==
    /\ consumer = "get" /\ tickQueue = <<>>
    /\ consumer' = "check"
    /\ UNCHANGED <<feed, incoming, tickQueue, tick, processed, candles, strategyQueue,
                   workerSide>>

\* The state is not read again between the check and the processing.
ConsumerGets ==
    /\ consumer = "get" /\ tickQueue # <<>>
    /\ tick' = Head(tickQueue)
    /\ tickQueue' = Tail(tickQueue)
    /\ consumer' = "process"
    /\ UNCHANGED <<feed, incoming, processed, candles, strategyQueue, workerSide>>

SkipTick ==
    /\ consumer = "process" /\ tick.price <= 0
    /\ consumer' = "check" /\ tick' = Nothing
    /\ UNCHANGED <<feed, incoming, tickQueue, processed, candles, strategyQueue, workerSide>>

FreshCandle(t) == [minute |-> t.minute, open |-> t.price, high |-> t.price,
                   low |-> t.price, close |-> t.price, closed |-> FALSE]

\* Mutant: an update does not look at the low.
UpdatedCandleHighOnly(c, t) == [c EXCEPT !.high = IF t.price > @ THEN t.price ELSE @,
                                         !.close = t.price]

UpdatedCandle(c, t) == [c EXCEPT !.high = IF t.price > @ THEN t.price ELSE @,
                                 !.low = IF t.price < @ THEN t.price ELSE @,
                                 !.close = t.price]

OpensCandle(q, t) == q = <<>> \/ LastOf(q).minute < t.minute

\* Mutant: the candle is queued before it is marked closed.
PutOpenCandle(s, c) ==
    strategyQueue' = IF Len(strategyQueue) < StrategyQueueSize
                     THEN Append(strategyQueue, [symbol |-> s, candle |-> c])
                     ELSE strategyQueue

\* A copy of the closed candle; lost when the worker's queue is full.
PutClosedCandle(s, c) ==
    strategyQueue' = IF Len(strategyQueue) < StrategyQueueSize
                     THEN Append(strategyQueue, [symbol |-> s, candle |-> [c EXCEPT !.closed = TRUE]])
                     ELSE strategyQueue

Closed(q) == [q EXCEPT ![Len(q)].closed = TRUE]

\* process_tick of the candle builder, all of it under the store's lock.
ProcessTick ==
    LET s == tick.symbol
        q == candles[s]
    IN
    /\ consumer = "process" /\ tick.price > 0
    /\ IF OpensCandle(q, tick)
       THEN /\ candles' = [candles EXCEPT ![s] = Newest(MaxHistory,
                              Append(IF q = <<>> THEN q ELSE Closed(q), FreshCandle(tick)))]
            /\ IF q = <<>> THEN UNCHANGED strategyQueue ELSE PutClosedCandle(s, LastOf(q))
       ELSE /\ candles' = IF LastOf(q).minute = tick.minute
                          THEN [candles EXCEPT ![s][Len(q)] = UpdatedCandle(@, tick)]
                          ELSE candles
            /\ UNCHANGED strategyQueue
    /\ processed' = Append(processed, tick)
    /\ consumer' = "check" /\ tick' = Nothing
    /\ UNCHANGED <<feed, incoming, tickQueue, workerSide>>

-----------------------------------------------------------------------------
(* Strategy worker thread *)

WorkerChecks ==
    /\ worker = "check" /\ ready
    /\ worker' = "get"
    /\ UNCHANGED <<feed, tickSide, candles, strategyQueue, candle, window>>

\* Mutant: without READY the worker sleeps and keeps its queue.
WorkerSleeps ==
    /\ worker = "check" /\ ~ready /\ strategyQueue # <<>>
    /\ UNCHANGED candleVars

\* Without READY the queue is emptied, one event per turn of the loop.
WorkerDiscards ==
    /\ worker = "check" /\ ~ready /\ strategyQueue # <<>>
    /\ strategyQueue' = Tail(strategyQueue)
    /\ UNCHANGED <<feed, tickSide, candles, workerSide>>

WorkerTimesOut ==
    /\ worker = "get" /\ strategyQueue = <<>>
    /\ worker' = "check"
    /\ UNCHANGED <<feed, tickSide, candles, strategyQueue, candle, window>>

WorkerGets ==
    /\ worker = "get" /\ strategyQueue # <<>>
    /\ candle' = Head(strategyQueue)
    /\ strategyQueue' = Tail(strategyQueue)
    /\ worker' = "evaluate"
    /\ UNCHANGED <<feed, tickSide, candles, window>>

\* get_last_n_candles: copies taken under the store's lock, the open one included.
LastNCandles(n, seq) == Newest(n, seq)

\* Mutant: the history of any symbol will do.
StrategyReadsAny ==
    /\ worker = "evaluate"
    /\ \E s \in Symbols : window' = LastNCandles(Lookback, candles[s])
    /\ worker' = "decide"
    /\ UNCHANGED <<feed, tickSide, candles, strategyQueue, candle>>

\* A strategy asks for its history: whatever the store holds by now.
StrategyReads ==
    /\ worker = "evaluate"
    /\ window' = LastNCandles(Lookback, candles[candle.symbol])
    /\ worker' = "decide"
    /\ UNCHANGED <<feed, tickSide, candles, strategyQueue, candle>>

StrategyDone ==
    /\ worker = "decide"
    /\ worker' = "check" /\ candle' = Nothing /\ window' = <<>>
    /\ UNCHANGED <<feed, tickSide, candles, strategyQueue>>

Batches == UNION {[1..n -> Tick] : n \in 1..MaxBatch}

ConsumerStep == ConsumerChecks \/ ConsumerTimesOut \/ ConsumerGets \/ SkipTick \/ ProcessTick
WorkerStep == WorkerChecks \/ WorkerDiscards \/ WorkerTimesOut \/ WorkerGets
              \/ StrategyReads \/ StrategyDone

CandleNext ==
    \/ MinutePasses \/ StateChanges
    \/ (\E batch \in Batches : OnTicks(batch)) \/ EnqueueTick
    \/ ConsumerStep \/ WorkerStep

CandleSpec == CandleInit /\ [][CandleNext]_candleVars

\* The worker thread keeps running; its calls and waits end.
FairCandleSpec == CandleSpec /\ WF_candleVars(WorkerStep)

-----------------------------------------------------------------------------
(* Safety *)

\* What a candle should be, from the ticks alone: those of its symbol and minute
\* that no tick of a later minute overtook.
TicksOf(s, m) ==
    {i \in DOMAIN processed :
        /\ processed[i].symbol = s /\ processed[i].minute = m
        /\ \A j \in 1..i : processed[j].symbol = s => processed[j].minute <= m}

Summarises(c, s) ==
    LET T == TicksOf(s, c.minute) IN
    /\ T # {}
    /\ \E i \in T : c.open = processed[i].price /\ \A j \in T : i <= j
    /\ \E i \in T : c.close = processed[i].price /\ \A j \in T : j <= i
    /\ \E i \in T : c.high = processed[i].price /\ \A j \in T : processed[j].price <= c.high
    /\ \E i \in T : c.low = processed[i].price /\ \A j \in T : c.low <= processed[j].price

Increasing(seq) == \A i, j \in DOMAIN seq : i < j => seq[i].minute < seq[j].minute

\* However ticks are delayed, reordered, lost or refused on the way, every
\* candle in the store is the open, high, low and close of the ticks that were
\* in time for its minute, in order of time, and only the newest one is open
\* (candle_builder.py:45-80).
StoreSummarisesTicks ==
    \A s \in Symbols :
        /\ Increasing(candles[s])
        /\ \A i \in DOMAIN candles[s] :
              /\ Summarises(candles[s][i], s)
              /\ candles[s][i].closed = (i # Len(candles[s]))

Events == (IF worker \in {"evaluate", "decide"} THEN <<candle>> ELSE <<>>) \o strategyQueue

\* What the worker is given is final: a closed candle is the whole story of its
\* minute, older than anything still growing, and no symbol's candles overtake
\* each other or come twice, whatever the two threads interleave.
EventsAreFinal ==
    /\ \A i \in DOMAIN Events :
          /\ Events[i].candle.closed
          /\ Summarises(Events[i].candle, Events[i].symbol)
          /\ Events[i].candle.minute < LastOf(candles[Events[i].symbol]).minute
    /\ \A i, j \in DOMAIN Events :
          i < j /\ Events[i].symbol = Events[j].symbol
          => Events[i].candle.minute < Events[j].candle.minute

\* The window a strategy computes on holds the very candle it is told about, though it
\* was read after the event was taken; or, if the event waited for so long, it is full
\* of newer ones (candle_builder.py:61-80, market_data_service.py:27-33).
WindowReachesEvent ==
    worker = "decide" =>
        /\ Increasing(window)
        /\ \/ \E i \in DOMAIN window : window[i] = candle.candle
           \/ /\ Len(window) \in {Lookback, MaxHistory}
              /\ \A i \in DOMAIN window : window[i].minute > candle.candle.minute

\* A strategy "evaluates closing prices" (ema_crossover_strategy.py:107) when a
\* candle closes: no candle it computes on is still open.
ClosingPricesOnly == \A i \in DOMAIN window : window[i].closed

(* Liveness *)

\* No backlog of candles stays in the worker's queue, whether the system is
\* READY or not (strategy_worker.py:47-48).
EventsDrain == (strategyQueue # <<>>) ~> (strategyQueue = <<>>)
=============================================================================
