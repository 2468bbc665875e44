# QuantForge engine: TLA+ verification project

This directory models the C++ trading engine under `src/cpp` in TLA+, checks the
models with TLC on small instances and proves the central results with TLAPS for
every instance. It is organised by component; `PROJECT.json` maps every
definition to the source lines it stands for and lists the runs, the hazards and
the theorems.

## 1. The system

One process, a handful of threads, no shared state outside the process except
what Kafka and Redis are told. `main/main.cpp` builds everything, starts the
threads, prints a heartbeat every ten seconds and shuts down on a signal.

    exchange/broker --WebSocket--> UpstoxWSHandler --TickQueue--> TickNormalizer
                                                                  |        |
                                              TickDisruptor <-----+        +--> CandleBuilder
                                                   |                              |
                                          strategy threads <--- on_candle --------+
                                                   | submit_order / cancel_order
                                          PreTradeRiskEngine (check)
                                                   |
                                          OrderManagementSystem --> EMS --> REST client --> broker
                                                   ^   |                        |
                       order feed: on_fill, -------+   +--FillQueue--> PortfolioEngine --> Kafka, Redis
                       on_reject                                          |
                       REST answers: on_order_ack, error callback         +--> get_snapshot (risk)

| Component | State | Operations | Runs on |
|---|---|---|---|
| Order management (`oms/`) | `orders_`, `exchange_to_internal_`, the pool of order records and its free list, the set of processed trade ids, the sequence number | `submit`, `cancel`, `cancel_all_open`, `on_order_ack`, `on_fill`, `on_reject`, `reset_for_eod` | strategy threads, IO thread, main |
| Execution layer (`ems/`, `transport/upstox_rest_client.*`) | the callbacks of each request in flight | `place_order`, `cancel_order`, `on_fill_event`, the stages of `do_request` | caller, then IO thread |
| SPSC queue (`common/spsc_queue.hpp`) | a ring of slots, a write and a read position | `push`, `pop`, `try_pop`, `size`, `empty` | one producer, one consumer |
| Portfolio (`portfolio/`) | positions, capital, realised and unrealised result | `fill_loop`/`process_fill`, `update_price`, `load_positions`, `get_snapshot` | its own thread; readers anywhere |
| Pre-trade risk (`risk/`) | kill switch, halted strategies, one token bucket per strategy, price cache | `check`, `update_price`, engage/disengage the kill switch | strategy, normalizer and IO threads |
| Strategies (`strategy/`) | loaded plugins, their cursors into the disruptor, the last-tick cache | `start_all`, `run_strategy_thread`, `dispatch_candle`, `dispatch_fill`, `halt_strategy`, `stop_all` | one thread per strategy; `on_candle` on the normalizer's thread; `on_stop` also on main |
| Momentum plugin (`strategy/plugins/`) | per instrument: position believed held, time of the last signal; `alive_` | `on_candle`, `on_tick`, `on_order_fill`, `on_stop`, `on_kill_signal` | whichever thread the manager calls it on |
| Tick disruptor (`common/disruptor.hpp`) | a broadcast ring, one sequence per slot | `push`, `try_consume` | normalizer; strategy threads |
| Normalizer and candles (`market_data/`) | counters; one open bar per instrument and interval | `run`/`validate`, `on_tick`/`update_bar`, `flush_all` | normalizer's thread; `flush_all` on main |
| WebSocket handler (`market_data/upstox_ws_handler.*`) | connection state, back-off delay, subscriptions | `start`, connect chain, read loop, `schedule_reconnect`, `stop` | IO thread; `stop` and `subscribe` on main |
| Arena (`common/arena_allocator.hpp`) | one offset | `allocate` (CAS loop), `reset` | any thread |
| Kafka (`transport/kafka_publisher.*`) | librdkafka's queue, the delivery poll thread | `publish_*`, `flush` | normalizer, portfolio, IO; its own poll thread |
| Redis (`transport/redis_client.*`) | one connection `ctx_`, its command buffer, `mtx_` | `publish_*`, `flush`, the reconnect | normalizer, portfolio, main |
| Start and shutdown (`main/main.cpp`) | the order in which all of the above begin and end | `main` | main |
| Logging, configuration | | read once; format and write | callers |

What is hard in it: three kinds of threads meet in `OrderManagementSystem`, whose
`on_fill` gives its lock up in the middle; the broker's answer and the broker's
feed are two channels that nothing orders; the broker repeats, loses and delays;
records are recycled through a pool and referred to by raw pointers; fills cross
to another thread through a lock-free ring; and all of these are bounded. The
list of hazards, each at its line, is in `PROJECT.json`.

### What correct means, component by component

- **Order management**: no record of the pool is lost, released twice or handed
  out while in use; a pointer held across a released lock is still valid when it
  is used; the two maps agree with each other; the two copies of an order's
  status agree; a trade is applied exactly once; an order that works at the
  exchange is known to the engine; a finished order gives its record back.
- **Queue**: no two threads touch one slot at once; what is popped is what was
  pushed, in order, none lost or repeated; "full" and "empty" are never confused.
- **Fill path**: every fill that is announced to the outside is booked, once, with
  the data of the order that was traded.
- **Risk and portfolio**: limits hold of the position that results, not only of
  the snapshot that was looked at; the rate bound is a bound; the books balance.
- **Market data**: each strategy sees each tick once and in order unless it is
  lapped; candles of one instrument and interval do not overlap.
- **Connections**: one chain of connection steps at a time, whose stream is not
  destroyed under it; the feed is never given up; what is published is not held back
  by what fails; a failing sink does not take the engine with it.
- **Engine**: no thread is in a plugin that is unloaded; after shutdown no order works
  and no fill is unbooked; the shutdown ends.
- **Strategy**: what it believes it holds is what it holds, and it leaves a position once.

The code does not always meet this. Two runs expect the violation of what the repository
says of the program; section 3 says what they show, what else was seen, and where the
properties that hold are weaker than these sentences.

## 2. The modules

| Module | Models | Proofs |
|---|---|---|
| `BoundedFIFO` | what a bounded queue promises: `Put`, `PutRefused`, `Get`, `GetNothing` | |
| `SPSCQueue` | `common/spsc_queue.hpp`, one action per atomic access | `SPSCQueueProofs` |
| `OMS` | `oms/*`, `ems/ems.cpp`, the outcomes of `transport/upstox_rest_client.cpp`, and the exchange | `OMSProofs` |
| `FillPath` | `OMS` composed with `SPSCQueue` and the portfolio's `fill_loop` | `FillPathProofs` |
| `Admission` | checks 1 to 4 of `PreTradeRiskEngine::check`: kill switch, market hours, `risk/token_bucket.hpp` | `RiskProofs` |
| `Portfolio` | the books of `portfolio/portfolio_engine.cpp` | |
| `Exposure` | checks 5 to 10 on a copy of `Portfolio`, around `submit_order` of `strategy_manager.cpp` | `RiskProofs` |
| `TickDisruptor` | `common/disruptor.hpp`, one action per access | `MarketDataProofs` |
| `Candles` | `market_data/candle_builder.hpp` | `MarketDataProofs` |
| `MarketData` | `decode_protobuf_frame`, the normalizer's loop, the strategies' loops and the shutdown of `main.cpp`, over `TickDisruptor` and `Candles` | `MarketDataProofs` |
| `WSHandler` | the connection of `market_data/upstox_ws_handler.cpp`: chain, timer, back-off, `stop` | `TransportProofs` |
| `KafkaPublisher` | `transport/kafka_publisher.cpp` over librdkafka's queue | |
| `RedisClient` | `transport/redis_client.cpp`, one action per critical section | `TransportProofs` |
| `Transport` | the three of them with the threads that use them and the part of `main.cpp`'s shutdown that ends them | `TransportProofs` |
| `StrategyManager` | `strategy/strategy_manager.cpp`: plugins, strategy threads, cache, dispatch | `EngineProofs` |
| `Engine` | `StrategyManager` with `main.cpp`'s start, monitor loop and shutdown, and the orders it leaves behind | `EngineProofs` |
| `Momentum` | `strategy/plugins/momentum_strategy.*` on the threads the manager calls it from | `MomentumProofs` |
| `MC...` | the constants and bounds of the runs | |

### SPSCQueue

`write_pos`, `read_pos` and `data` are the members of the class. `prod` and `cons`
hold the locals of the `push` and `pop` in progress: `PushLoad` reads the own
position, `PushRoom`/`PushFull` reads the other one, `PushWrite` copies the
element, `PushStore` publishes it; `PopCheck`/`PopEmpty`, `PopRead` and `PopStore`
mirror them. The overloads of `push` and `pop` have the same steps.

The accesses interleave sequentially consistently. The code loads its own
position relaxed, the other one with acquire, and stores with release; each
position has one writer, so what a weaker load can return beyond this model is an
*older* value of the other side's position. An older `read_pos` can only make
`push` report full, an older `write_pos` can only make `pop` report empty, and
the release/acquire pairs order the slot accesses. `Producers` is a parameter:
the class is built for one, and paper mode has one per strategy.

### OMS

| Variable | Code |
|---|---|
| `free_list`, `slot` | `OrderPool::free_list_` (a stack), `pool_` |
| `orders`, `exchange_to_internal` | `orders_`, `exchange_to_internal_` |
| `processed` | `FillDeduplicator::processed_` |
| `seq` | `seq_`, the last part of a generated order id |
| `ctx[t]` | the locals of the call thread `t` is in: `pc` names the next step |
| `sweep` | the ids `cancel_all_open` has collected and not yet cancelled |
| `published` | the calls of `fill_cb_` |
| `request`, `rest`, `exch`, `trades`, `cancels` | ghosts and the outside: what was asked for, how far the REST call is, the exchange's book |

One action is one critical section, or one piece of unlocked code between two:
`submit` is `SubmitAcquire`, `SubmitInsert`, then `SubmitPlace` (live) or
`PaperAck`, `PaperFill` and the steps of `on_fill` (paper mode runs them inside
`submit`, on the strategy's thread); `on_fill` is `FillMark`, `FillLookup`,
`FillBuild`, `FillUpdate`, `FillPublish`; `cancel` is `CancelFind`, `CancelSend`;
`on_order_ack` and `on_reject` are one critical section each.

Choices a reader may want to check:

- `SubmitAcquire` fuses `pool_.acquire()`, `generate_order_id()` and the writes to
  the record. Nobody else can reach the record or the id yet, so no interleaving
  is lost.
- `try_mark` has a shared-lock fast path and a unique-lock insert. Only the
  insert decides, so the two are one step.
- `transition` is a load and a compare-and-swap; all its callers hold
  `orders_mtx_`, so it is one step. An illegal transition leaves the state machine
  alone, while the caller writes the `status` field regardless; both are modelled.
- Quantities are small numbers, prices are left out: no branch of `oms/` depends
  on one.
- `on_fill_event` and `on_reject` have no caller in the repository: the order
  feed that would call them is external and modelled as what the broker does
  (`FeedFill`, `FeedReject`), on an IO thread like all other callbacks.
  `reject_cb_` is never installed, and `reset_for_eod` has no caller. It tests nothing,
  and neither does `ResetForEod`, which may come at any moment: the comment at
  `FillDeduplicator::reset` allows it at the end of the day and on a reconnect. The
  ghost `forgotten` collects the trades it forgets of orders that are still in `orders_`.
- `Strategies` are the threads that call `submit` and `cancel`. `on_candle` runs on
  the normalizer's thread, which then is one more member of the set.
- A REST request is `sent`, then perhaps `accepted` by the exchange. The answer may
  be an acknowledgement, an error before the exchange saw the request, an error
  after it did (`RestFaults` contains `"late"`), or text that is not the expected
  JSON (`"unparsable"`), for which `EMS::place_order` calls nobody.
- `MaxOrders`, `MaxQty`, `MaxTrades` and `MaxSlices` bound what the strategies and the
  exchange do; everything else is finite by itself.

### FillPath

`FillPath` extends `OMS` and instantiates `SPSCQueue` as `FillQueue` with the
threads of `OMS` as producers. `FillPublish` is replaced by the steps of `push`
(`PushBegin`, `PushGoesOn`) and by `PushTaken` or `PushRefused`, which end `on_fill`
with `fill_cb_`; `PortfolioPoll` and `ProcessFill` are the loop of the portfolio's
thread. `booked` counts the calls of `process_fill` for each trade.

### Admission

A strategy is called on its own thread (`on_tick`), on the normalizer's (`on_candle`) and on
main's (`on_stop`), so `submit_order` of one strategy may run several times at once. `Calls`
pairs strategies with `Callers`, the threads; `gate[c]` is how far the `submit_order` of call
`c` is: `CheckKill` loads the switch, `CheckHours` reads the system clock, `TryConsume` is the
critical section of `rl_mtx_`, on the one bucket of the strategy, and `SubmitOrder` or
`RejectOrder` ends the call. Time is counted in minutes and tokens in
parts of one, as `tokens_` is a double; doubles are taken for the rationals they
stand for. `window`, `consumed` and `admitted` are ghosts that count; `OpenWindow`
starts a count at any moment, so that a bound on it is a bound for every window, and
`inside` holds the calls that were under way when the switch was engaged.
`engage_strategy_kill` is declared and not defined, so no strategy is ever halted.
`TokenBucketLimiter::reset` has no caller.

### Portfolio and Exposure

`process_fill`, `update_price` and `load_positions` are one critical section each.
Average prices are exact ratios in lowest terms. `load_positions` copies the broker's whole
position, results and price included, over what the books have of the instrument, and
leaves totals and cash alone. `carried` records the cost and `brought` the realised result
it brought in; `misstated` by how much fills through zero misstate the cost of
what is held, as they leave the old average price on the new side.

`Exposure` is the sequence `get_snapshot`, `check`, `oms_.submit` of `build_context`, one
action each, with no lock around them, for each of the `Slots`: a strategy on one of the
threads that call it. Order management is reduced to the orders
that work and the fills that wait for the portfolio; the queue and the records are
the business of `FillPath` and `OMS`. `overlap` records that two orders of one
instrument were under way at once. `PortfolioEngine::update_price` and
`load_positions` have no caller in the repository; they are actions at the times
their comments and names give. The price cache is modelled with atomic accesses:
`update_price` writes it without `pc_mtx_`, a data race on the map itself whose
outcomes have no useful description.

### TickDisruptor, Candles and MarketData

`producer_seq`, `slot_tick`, `slot_sequence` and `cursor` are the members of the class and
the `consumer_seq` each caller keeps; `pub` and `take[c]` hold the locals of the `push` and
the `try_consume` in progress. The publisher looks at no cursor, so a slot may be written
while it is read. A tick is therefore copied in two steps on both sides, and a copy that
met a write is `Torn`, which stands for any mixture of two ticks. `lapped` is the ghost of
the strategies that ever fell more than `BUFFER_SIZE` behind; it separates what the ring
promises to the others from what is left for these. As in `SPSCQueue`, the accesses
interleave sequentially consistently: a slot's sequence number has one writer, and the
release store and acquire load order the slot's content.

`Candles` keeps `open_bars_` by instrument and interval; `candle` is the last one given to
the callbacks. The ghosts are `seen` (the ticks of a bar), `candled` (how many ticks went
into candles) and `late` (keys that met a tick older than their open bar).

`MarketData` joins them. `OnFrame` is one frame on the IO thread; `Decode` gives the tick its
times from two different clocks, as the code does: `recv_ts` from the steady clock,
`exchange_ts` in epoch time, and that only for `ltpc` messages. `TickQueue` is a FIFO with
room for `QueueRoom` ticks, which is what `SPSCQueueProofs` shows of the queue. `Normalize`
is the loop of the normalizer (`PopTick`, the steps of `push`, `BuildCandles`), `StrategyStep`
the loop of a strategy's thread, and `StopNormalizer`, `StopAll`, `FlushAll` the shutdown in
the order of `main.cpp`. Kafka, Redis, the statistics and open interest are left out, and so
are the last-tick cache and the strategy callbacks, which `StrategyManager` has.

### WSHandler

`op` is the step of the connection's chain: an asynchronous operation under way
(`resolve`, `connect`, `tls`, `upgrade`, `read`) or code that is running now
(`authorize`, the blocking `fetch_ws_url`; `lost`, `failed`, `arming`, the statements of
the read handler and of `schedule_reconnect` between which `stop()` may run on the main
thread). Each asynchronous step may fail. `timer` is the reconnect timer; once `expired`,
its handler is queued and `cancel()` no longer reaches it. `StopFlag`, `StopTimer`,
`StopClose`, `Closed` are the statements of `stop()`, `IocStop` is main's. `attempts` is a
ghost. Delays are the doubling numbers, capped; time itself is not modelled, a timer that
is armed may expire at any later moment. The contents of a frame are `MarketData`'s.

### KafkaPublisher, RedisClient and Transport

A message to Kafka waits in `outbox`, then as a delivery report in `reports`, and takes
room in the one queue until `delivery_poll_loop` has served the report. `produce`'s result
is not looked at by the code, so `Produce` with a full queue does nothing.

`Write` and `Flush` of Redis are the test of `ctx_` before the lock; `AppendCommand` and
`FlushLock` are the beginning of the critical section, where a context that has become
null meanwhile is dereferenced (`crashed`). `flush` reads replies until an error, so it
always ends in the branch that frees the context and reconnects: `FlushDrain`, in which
some prefix of the buffered commands reached Redis, and `FlushReconnect`. All threads
wait for `mtx_` through both. `stored` is the newest value Redis has per kind of command.

`Transport` extends the three. Its threads are the IO thread (`FeedStep`, `Tick`, `Fill`),
the normalizer (`PublishTick`), the portfolio (`PublishPosition`, `FlushPositions`: the
update callback of `main.cpp`), the library's (`KafkaStep`) and main, whose `main` variable
follows the statements of the shutdown: `ws_handler.stop()`, `ioc.stop()`, the joins of the
normalizer and the portfolio, the two flushes, `io_thread.join()`. The tick and fill
queues are counters. A tick is only received on a connection whose subscription was sent.

### StrategyManager and Engine

`lib[i]` is the plugin's library, `listed` the strategies in `strategies_`, `thread[i]` where
`run_strategy_thread` is; a callback is entered in one step and left in another, so that
any other thread may act in between. `candle` is `dispatch_candle` on the normalizer's
thread, which holds `mtx_` through all callbacks; `stop_all` takes no lock. Ticks are
numbers and reach each strategy in order, as `MarketDataProofs` shows of a strategy
that is not lapped; there is one instrument, for the cache is a map by instrument.

`Engine` adds main: `LoadStrategy`, `ListStrategy` or `LoadFails` per configured strategy, `Up`,
the monitor loop, and the shutdown `Sweep`, `Cancel`, `Sleep`, `StopIO`, `JoinNormalizer`,
`StopStrategy`, `StopFlag`, `StopJoin`, `StopClear` in the order of `main.cpp`. `EnterCall`,
`LeaveCall` and `LeaveHalt` are `halt_strategy`, `update_params` and `dispatch_fill`, which have
no caller in the repository; they are allowed wherever the monitor loop is.
`StopClear` and `Destroy` are `strategies_.clear()`: the destructors of the instances, whose
code is in libraries `StopJoin` has closed, and which may end in a crash. `MainCalls` is main
in a callback, `MainInPlugin` main in any code of a plugin, the destructor included.

An order is what remains of `OMS` at this distance. It is posted to the IO thread, works
once `IOThread` has placed it, and works on while its cancel is posted (`cancel_posted`)
until `IOThread` has sent that too; after `ioc.stop()` the IO thread does neither.
`Exchange` fills, cancels or refuses to cancel.

### Momentum

`state[i]` holds the fields of `InstrumentState` that steer it. `EvaluateSignal` and `TryEntry`
or `NoEntry` are the normalizer's `on_candle`, apart, because nothing keeps `on_tick` and
`on_stop` away between the tests and the entry; `StopOrTargetHit`, `PlaceExit` and
`ClearPosition` are `manage_position` on the strategy's thread, `OnStop`, `OnKillSignal`,
`FlattenNext`, `PlaceExit`, `ClearPosition` and `Returns` the flattening on either of the
two threads that can do it. A fill, whole or in part, is `FillArrives` where `main.cpp`'s
callback takes it, which tells the strategy nothing, and `FillDispatched` where it goes
through `dispatch_fill`, as strategy_manager.hpp:64 says, and `OnOrderFill`. Nothing in the
repository calls `dispatch_fill`: the behaviours without `FillDispatched` are those of the
program as it is wired. `OnOrderReject` only logs.
Prices, averages and volatility are free choices: whether there is a signal, its side,
whether a stop is hit, and `compute_qty` among `Quantities`, 0 included. The ghosts `opened`
and `exits` count opening fills and exits. `on_candle` is declared
and not defined in the repository; it is taken to call `evaluate_signal`, as the comment at
momentum_strategy.cpp:102 says.

## 3. The runs

| Run | Instance | Shows |
|---|---|---|
| `SPSCQueue_one_producer` | ring of 4, two elements, one producer | no data race; refines `BoundedFIFO` with room for 3. The ring wraps around many times, so both boundaries are met in every position. |
| `OMS_live` | one strategy, one IO thread, main; two orders of up to 2 lots, 2 records, slices, anonymous trade, late and unparsable answers, resets | pool invariant, valid pointers, intact records, agreeing maps; a trade that was not forgotten is applied once; every live acknowledged order is tracked |
| `FillPath_paper` | three paper orders through one record, one strategy | published = booked + queued at every moment; what is booked is a trade with the data of its own order, once; every accepted order is booked (liveness) |
| `FillPath_overflow` | one order of up to 3 lots and two trades, each reported any number of times after the REST answer, cancels and resets, a queue with room for one | the two copies of the status agree, also after the refused PARTIAL to PARTIAL transition; the order is tracked until it is complete; what is booked is a trade, once unless it was forgotten; although fills are refused by the queue, every trade is applied to its order and every filled order released (liveness) |
| `Admission_rate` | two strategies on two threads each, four minutes in which the answer of `is_open` changes, bucket of two tokens that accrue by halves | the rate bound in every window; the kill switch lets through one order of each call that was in `submit_order` when it was engaged, and of no other |
| `Exposure_two_strategies` | two strategies on two threads each, one instrument, two prices, orders of 1 or 2 lots filled in parts, a position the broker reports with results of its own | the books balance after any sequence of fills, marks and loads, up to what fills through zero misstate and what was loaded; a position outgrows its limit only when orders overlap |
| `MarketData_lapped` | one strategy, a ring of 2 slots, 4 messages with and without a time and a price, one late, two intervals, one tick of the clock | a strategy that is not lapped sees every tick, a lapped one nothing older than its cursor, and both catch up (liveness); bars summarise their ticks, each tick is in exactly one bar of each interval, candles do not overlap while no tick is late |
| `Transport_shutdown` | every connection step fails at will, back-off up to 2, Kafka with room for one message, Redis up or down, one tick and two fills, the signal at any moment | the stream is never pulled from under an operation or under `close()`; at most one connection attempt after `stop()`; a null context is used only after a refused reconnect; the newest of the positions is in Redis between two fills, across reconnects; nothing is left in the Redis buffer at the end; the feed never gives up, a full Kafka queue recovers, the shutdown ends (liveness) |
| `Engine_shutdown` | two plugins that load or fail, two ticks, candles, two orders, halts, the signal at any moment | no thread is in, or about to make, a callback of an unloaded plugin; the shutdown ends (liveness) |
| `Momentum_positions` | each fill dispatched or not; two instruments (symmetric), cooldown 2, one position allowed, two orders of 2 lots filled in whole or in part, four units of time | entries of one instrument that are under way together are a cooldown apart; one exit per position while the strategy runs, at most one per thread when it stops |

These expect a violation; each checks one sentence of the repository that the code does
not keep, and has a finding in `PROJECT.json`:

| Run | Property | What TLC finds |
|---|---|---|
| `OMS_fill_before_ack` | `TradeApplied` | a fill that arrives before the acknowledgement is lost for ever |
| `FillPath_two_strategies` | `PublishedIsBooked` | two producers overwrite each other's fill in paper mode |

Why the bounds are enough: two orders are needed to confuse records, and two
records or one recycled record to reuse a slot; a ring of two slots and four ticks
to be lapped, to be lapped in the middle of a copy, and to catch up; three lots and two
trades to have a first partial fill and a completing one, or a second partial fill after a
trade that was forgotten and applied again (`FillPath_overflow`; in `OMS_live` an order has
one trade per slice, and there are two orders instead); one IO thread
is what `main.cpp` starts. Sizes beyond that are covered by the theorems. `OMS_live` has
one strategy thread because the interleavings of two strategies in live mode meet
only in the pool and in `orders_`, which the theorems cover for any number. Two of the three threads that call a strategy are enough for two calls of it
to be in the gate at once; the theorems have any number. In
`Transport_shutdown` a back-off limit of 2 has a delay below, at and (capped) above it; one
message of room makes the tick, the fill and the position compete; one tick and one fill
put the normalizer, the portfolio and main into the Redis client at once, and a second
fill makes an older and a newer position, and a position after a reconnect; the
connection may break and be made again without a bound. `Engine_shutdown` needs two
strategies for one to be stopped while the other runs. `Momentum_positions` needs
two instruments for `max_positions` to refuse one, two orders for an exit beside its entry,
and a clock two cooldowns long for an answer that comes after the next signal.

Symmetry is used in safety runs only, over strategies, threads or instruments that no
definition tells apart. Deadlock is checked in every run but that of `Transport`, whose
process ends, or dies of a null context; in `Engine` the end is a step of its own (`Ended`).

Every property of a passing run has a mutant in `PROJECT.json`, an operator named
after the definition it replaces, that breaks it.

### Fairness

- A thread finishes the call it is in (`Continue`, `FillPublish`, `Push`): nothing in
  these calls blocks except mutexes that are held for a few statements.
- The IO thread runs a handler that is ready: `io_context::run` with one thread.
- The broker answers a request and reports each trade at least once. This is an
  assumption about the outside, not a consequence of the code: `do_request` sets no
  deadline, and without it nothing could be promised about an order.
- The exchange executes a cancel it was sent for a live order.
- The portfolio's thread polls for as long as the engine runs, and so do the
  normalizer's and the strategies'.
- In `Transport` every wait on the network ends, well or not: a step of connecting
  (operating system time-outs; the handler sets none of its own), `close()`, librdkafka's
  `message.timeout.ms`, the second hiredis waits for a reply. Fairness is per thread.
- In `Engine` a plugin's callback returns. `on_start` and `on_tick` are code of others, and
  `join` would wait for ever on one that does not.
- Nothing forces a tick, a fill, a broken connection or the signal.
- Nothing forces a strategy to trade, the exchange to accept, to trade or to
  reject, or anybody to call `reset_for_eod`.

### What the violations say

1. `on_fill` marks the trade id *before* it looks the order up. A fill delivered
   before `on_order_ack` is dropped, and its redelivery is taken for a duplicate:
   fill_deduplicator.hpp:22-23 promises "NEW and should be processed" for a trade
   that was not seen, and "duplicate" for one that was; this one was seen and not processed.
2. `submit_order` "may be called from any callback", but in paper mode it pushes
   into a single-producer queue from the thread of the strategy.

Seen while modelling, possible in the models, and not kept as runs. No property of a passing
run claims the contrary of any of these. Orders and books:

- `reset` empties the deduplicator whatever is in `orders_`, on a "reconnect" too
  (fill_deduplicator.hpp:52). An order that works, or was cancelled, is still there, and a
  repeated report of its trade is applied again: a partial fill, a cancel, a reset and the
  report once more are enough. `AppliedOnce` and `BookedAsTraded` except the trades in
  `forgotten`, which are these and no others.
- When the fill queue is full, oms.cpp:234 logs "processing fill synchronously", and the fill is
  dropped: it goes to the callbacks and not to the books. What survives it is in
  `FillPath_overflow`; `RefusedOnlyWhenBehind` says when it happens.
- `MarketHours::is_open` tests for the carry of the minutes after it has removed it. Against
  "Market is open 09:15 to 15:30 IST, Mon-Fri" (pre_trade_risk.hpp:24), 09:15 to 09:29 and
  10:00 to 10:14 count as closed, and 16:00 to 16:29 as open. `GateKeepsHours` proves that
  these are all; `HoursAsStated` is false of the model.
- No code path moves an order to `CANCELLED`: the answer to a cancel is logged
  (ems.cpp:65). Each cancelled order keeps its record, and the pool of 10000 shrinks all
  day; oms.hpp:7 lists cancel callbacks among what is handled.
- Of a sliced order only the first exchange id is remembered, so the others can be
  neither cancelled nor filled; an answer lost after acceptance makes the engine
  forget an order that works; trades without an id are not deduplicated at all; an
  unparsable answer leaves a `PENDING` order that nothing can cancel. All of them are
  possible in `OMS_live`, whose invariants hold nevertheless.
- A fill that takes a position through zero leaves the old average price on the new
  side; a flat position keeps the unrealised result it had.
- Nothing calls `PortfolioEngine::update_price`, so `current_price` stays 0 and with it
  the used capital of check 7; an instrument without a price passes checks 5 to 8; an
  order that reduces a position that is too large can be rejected by check 6. Two orders of
  one instrument that overlap are each checked against a copy without the other, and
  together may pass the limit: `ExposureBounded` excepts them.
- "if exchange_ts is more than 5s behind recv_ts, mark stale" (upstox_ws_handler.cpp:475):
  one time is that of the epoch, the other that of the steady clock, so in the model, as on
  any machine that was booted after 1970, no tick is ever stale. `open` is never filled in, so the
  normalizer's third sanity check never applies.
- A strategy that is lapped gets a newer tick in place of the one it asked for, and later
  the same one again; nothing tells it. A late tick, or one without an exchange time,
  closes the open bar and opens an older one, whose candle comes second.
- `flush_all` runs after `stop_all` has cleared the list of strategies: the candles of the
  last bars reach none.
- `starting_capital_` is "overridden by load_positions" (portfolio_engine.cpp:10), which
  does not touch it.

Connections:

- `RedisClient::flush` reads until an error, which after the last reply is the time-out of a
  second, with `mtx_` held; then it reconnects. So each fill delays the normalizer's
  publishing by a second, and one refused reconnect leaves `ctx_` null for ever:
  `reconnect()` has no caller, later writes return at once, and a thread that had passed
  the test dereferences the null pointer.
- kafka_publisher.hpp:13 says of a full queue that it drops the oldest; the newest is
  dropped, and counted as published.
- `do_send_subscription` hands `async_write` a buffer on a string that is gone when the
  function returns (upstox_ws_handler.cpp:337-341), and an error of that write is only
  logged: a connection may stay up without a subscription and without ticks.
- `stop()` closes a connection only if it is up; one that is upgraded afterwards stays
  open, and reads until `ioc.stop()`. `unsubscribe` does not tell the server, and has no
  caller.

Strategies and shutdown:

- `stop_all` closes the library before it destroys the instance, whose destructor is in it
  (`Destroy`), and does not use `destroy_strategy`. If that crashes, `portfolio.stop()` and
  the flushes after it do not happen. `CallbacksBeforeUnload` is about callbacks only.
- `cancel_all_open` (oms.hpp:74: "EOD: cancel all open orders") runs while strategies still
  trade: an order acknowledged after it looked is left working. It only posts the cancels,
  and those the IO thread has not sent when half a second has passed are dropped by
  `ioc.stop()`: these orders work on too. (The orders `on_stop` places to flatten are posted
  after `ioc.stop()` and never sent.)
- The last-tick cache is written by every strategy's thread, so a slow one takes it back
  in time; strategy_manager.hpp:91 says "the most recent tick".
- Nothing calls `dispatch_fill`, so a strategy never learns of its fills: `in_position`
  stays false, and neither stop, target nor flattening ever closes a position.
- strategy_interface.hpp:8-9 promises that callbacks come from one thread. `on_candle` comes
  from the normalizer's, `on_stop` and `on_kill_signal` from main's while the own thread still
  runs, and `on_stop` then comes again from the own thread: a position may get two exits.
- `fill_loop` leaves at its flag with fills still in the queue.
- `dispatch_fill`, `halt_strategy`, `update_params`, `publish_alert` and `on_order_reject` have
  no callers. Called from paper mode's `submit`, within `on_candle`, `dispatch_fill` would lock
  `mtx_` twice on one thread.
- The momentum strategy clears `in_position` when it *places* an exit. Where fills are
  dispatched, the fill of an exit is taken for an opening fill, and a phantom position of
  the other side is managed from then on; if the exit is refused, the real position is managed no longer.
  Entries under way do not count against `max_positions`. `on_candle` is not defined, so the
  library does not load with `RTLD_NOW`.

## 4. The proofs

All theorems are about the specifications the runs check, for all values of the
constants that satisfy the named assumptions of the modules. These are what the code
grants: a ring has a slot, intervals, quantities and delays are positive, prices and limits
are not negative, the threads are different threads, and a value that stands for "none" is
none of the others. A hypothesis beyond that is named in the theorem.

**`SPSCQueueProofs`**. `QueueInv` is inductive while pushes do not overlap
(`PushesApart`), which one producer grants (`SingleProducer`) and several may:
types, the relation between the locals and the positions (what the producer
believes about `read_pos` may be old, but old in the safe direction), and the slot
a thread is about to touch lies outside, or at the head of, the stretch between
the positions. `RaceFree` follows at once, and `ImplementsBoundedFIFO` maps the
stretch to the sequence of `BoundedFIFO`: `PushStore` is `Put`, `PushFull` is
`PutRefused`, which the abstract queue allows only when it holds `Capacity - 1`
elements, `PopStore` is `Get`, `PopEmpty` is `GetNothing`, and all else stutters.

**`OMSProofs`** (assumes `SingleIOThread`: at most one IO thread, as in `main.cpp`).
None of the invariants is inductive alone. The pointer that `on_fill` holds stays
valid because whoever else could release the record is excluded: the REST error
callback and `on_reject` run on the same IO thread, and in paper mode neither can
concern the order, which has no exchange id but its own and one fill, made by the
thread that submitted it. `Ownership` spells this out in parts: which thread may be
at which step (`RoleInv`), no two calls concern one order (`DistinctInv`), what
`orders` and the records say (`TableInv`), what a submit in progress owns
(`SubmitInv`, `PaperInv`), the two maps (`MapInv`), the held pointer (`HeldInv`) and the
pool (`PoolInv`); `WorldInv` ties the exchange's ghosts to the REST state.
`IInv == TypeOK /\ WorldInv /\ Ownership` is preserved action by action, and gives
`TypeCorrect`, `PoolNeverCorrupted`, `NoStalePointer`, `RecordsIntact`,
`StatusesAgree` and `MapsConsistent`. They hold in both modes, with any number of
strategies, under all REST faults and with a reset at any time.
With a second thread in `io_context::run` the held pointer is no longer safe: two
trades of one order could be processed at once, and the first to complete it
would release the record under the other.

`FillInv` carries the two results about trades. It is proved from `IInv` and speaks of the
trades the deduplicator was not made to forget; of the others nothing holds (section 3). `DedupInv`: a trade that some `on_fill` knows is in `processed_` for as long as its order
is in the table, so that one thread at most works on it, and none after it was published.
It has to speak of the order because a reset, at any moment, empties `processed_`
while the feed may still repeat: what it forgets of an order in the table is in `forgotten`,
and the rest can no longer be applied. `TradeInv`: the locals of `on_fill` are those of a trade of
the exchange. `QuantityInv`: what is filled, what was traded and is not yet applied, and what
is left at the exchange add up to no more than was ordered; so an order that still works
cannot complete. The sum over the trades of an order is a function that the invariant
asks for (`Tally`), which turns an induction over trades into a witness for each step.
`TrackInv`: an order is in the table until its REST call is answered and then for as long as
it works. `FillsAppliedOnce` and `WorkingOrdersTracked` follow, for any number of orders,
slices, trades and repetitions, under all REST faults.

**`FillPathProofs`**: every step of the fill path is a step of `OMS` or leaves it unchanged
(`PathStep`), which carries the invariants over: `PathKeepsOrders`. It assumes one IO thread,
as before, but not a single producer: a corrupted queue cannot corrupt the orders.

What reaches the books does need the single producer (`OnePusher`: one IO thread in live
mode, one strategy in paper mode; `FillPath_two_strategies` shows the other case) and, for
exactly-once, trades that carry ids. `PathInv` speaks of the ring directly: a push in progress
is the end of an `on_fill` and has its fill (`PushInv`), a pop has the oldest one (`PopInv`), and
a fill that waits is genuine, published, not booked, and waits once (`WaitInv`).
`BooksAreTrades` follows with any queue, also one that overflows. `BooksLoseOnlyRefused` is
`PublishedIsBooked` for behaviours without a refused push: a refused push is all that can lose
a fill. `PaperBooksComplete` discharges this condition in paper mode with fewer orders than
slots: fills wait in the order of their order ids, so each waits behind fewer fills than its
own id (`PaperQueueInv`), and the queue is never full.

In live mode nothing bounds the number of trades. `RefusedOnlyWhenBehind` says what a
refusal means there: in a full ring all positions but one wait, each with another trade
that is published and not booked, so the portfolio is `Capacity - 1` trades behind
(`RefusedWhenBehind` counts them with an injection). `BooksCompleteWhenPrompt` is
`PublishedIsBooked` for behaviours in which it never falls so far behind. Both are for as
long as the deduplicator was not made to forget a trade, which could then wait twice.

The queue inside the composition is that of `SPSCQueueProofs` (`FillRing`). Its threads are
all threads of the engine, so `SingleProducer` is false of it; what is true with `OnePusher`
is that a push in progress belongs to a thread at the end of `on_fill` (`PushCalls`), of which
`OMS` has one at a time. `RingStep` and `RingUsed` show that the composition takes only steps
of the queue and keeps pushes apart; `FillsNeverTorn` and `FillsQueueInOrder` (the refinement
of `BoundedFIFO`) follow without an assumption about trade ids or resets.

**`RiskProofs`**. `RateBound` is not inductive: it says nothing of what is in the
bucket. `BucketInv` adds it: what a strategy took in the window, together with what
the bucket would hold after a refill now, is at most a full bucket and what accrued
in the window. It survives `OpenWindow` because of the cap at `burst`, and a refused
call because `last_refill_ns_` and `tokens_` move together. `KillInv` says that while the
switch is on a call in the gate was there when it was engaged and has submitted nothing
since, so that a call that left the gate cannot get back in. `RateIsBounded` and
`KillSwitchStops` follow for every rate, burst, number of strategies and of threads that call
them, and length of time. `GateKeepsHours` measures the defect of the market hours: it takes a
minute apart into week, day, hour and minute (`ClockShows`, `ClockReads`), adds the five and a
half hours with all their carries (`IndianClock`) and shows that what the code computes differs
from the stated hours in the three stretches of section 3 and in no other minute
(`GateJudges`).

`ExposureLimited` is about steps, and about the only booking a fill causes. `ExposureInv`
adds, for behaviours in which no two orders of an instrument were under way at once: beside
a call nothing of its instrument moves, so its copy of the position is good (`CallsApart`);
and for each instrument there is a path (`Path`) from what is held through what will be held
after each waiting fill to the position check 6 allowed, all in one direction. A point of the
path that is further from zero than the one before lies between it and the end (`Between`), at
the price of the check. Average prices and results play no part in it.

The books: `BooksBalance` (`CashBalances` and `RealizedAgrees`) is inductive with its types;
the work is in the arithmetic. `Ratio` takes the least denominator, so that equal values are
equal pairs (`SameRatio`) and sums may be regrouped and replaced in equations (`PlusRegroups`,
`PlusReplaces`). The library's theorems on well-founded orderings give a least element of a set
of naturals (`LeastNumber`) and a smallest one of a set of finite sets (`SmallestSubset`), which
take the place of induction over data. With them the fold in `Total` unfolds to a sum that is taken
element by element (`Sums`, `SumsExist`), and changing one position changes the total by the
difference (`TotalUpdated`). `FillBalances` is the accountant's argument for one fill: opening,
adding, reducing, closing and crossing zero each change cost, cash, result and what is
misstated so that the equation survives; `LoadBooked` does the same for a loaded position, with
any quantity, price and results. `BooksAreBalanced` and, for closed positions,
`ClosedBooksCorrect` hold for every finite set of instruments
(`BooksAssumption`), all prices and quantities.

**`MarketDataProofs`** (assumes a ring of at least one slot and nothing about the number
of consumers). `DeliveredInOrder` says nothing of a copy in progress, so `DisruptorInv` adds
what the publisher has in hand (`PublisherInv`), that a slot holds the tick of its number
unless it is being written (`SlotInv`), and what a consumer between its check and the end
of its copy relies on (`ConsumerInv`). The argument rests on `SameSlot`, two numbers less than
a lap apart share a slot only if they are equal: a consumer that was not lapped therefore
finds in its slot exactly the number it asked for (`UnlappedSlot`), and any other one that or
a later one (`SlotNotOlder`). `UnlappedSeesAll` and `LappedSeesNewer` are the two results.
`MarketInv` joins this to the rest of the path: a tick past `validate` has a price (`NormInv`);
a bar's fields are the first, last, highest and lowest of the ticks in it and all of them
fall into its stretch of time (`BarInv`); a tick of the history is in a candle, in the open bar
or in the normalizer's hands, counted once (`CountInv`, the count being a cardinality); the
open bar follows the last candle unless a tick was late (`OrderInv`).
`MarketImplementsDisruptor` shows the composition to implement `DisruptorSpec`,
`StrategiesSeeTicks` carries the ring's promises over, and `BarsShowTicks`,
`CandlesHoldEveryTick` and `CandlesFollow` are the results about candles, for any number of
instruments, intervals, messages and strategies.

**`TransportProofs`**. `StreamKept` is about three parties: the timer, the chain and
`close()` on the main thread. `WSInv` adds how they exclude each other: `connected_` is set
only beside the read loop, or left set by a stop (`ConnectedInv`); inside `close()` no timer
is armed and only the end of the read can still run (`ClosingInv`); of a reconnect begun,
due or being armed after the stop there is never more than one (`AttemptInv`).
`StreamNeverLost` and `AttemptsBounded` follow for every back-off limit.

`WSInv` carries over to the composition (`HandlerStep`: each of its steps
is one of the handler or leaves it alone). This gives `EngineKeepsStream` and
`EngineAttemptsBounded`. `RedisNullOnlyAfterRefusal` rests on `RedisInv`: the thread that
drains and reconnects holds `mtx_`, and `ctx_` is null only while it does, after a
refusal, or when it always was, and then nobody is past the test. `StageInv` says who may
still be in the client at each stage of the shutdown, `BufferInv` what the buffer holds: from
the append of a position to the drain it is the only one there and the newest, before and
after there is none and Redis has it unless it was lost. `RedisHasNewestPosition` and
`RedisBufferEmptied` follow. All of it holds for any number of ticks and fills.

**`EngineProofs`**. `CallbacksBeforeUnload` is not inductive: it does not say what
main is past. `LoadInv`
says who is listed when, that the normalizer is in a plugin only before main has joined it,
and that `stop_all` has unloaded only plugins it is past, each after its thread had
ended. `NoCallbackAfterUnload` holds for any number of strategies, orders and ticks; it is
about callbacks, and the destructor that `Destroy` runs after `dlclose` is not one.

**`MomentumProofs`**. `ExitInv` counts the exits each thread has placed and may still place
for positions opened so far (`Pending`); while the strategy runs only its own thread is
counted, afterwards main's too, which gives `ExitsBounded`. `EntryInv` says that every entry
under way was sent no later than the last signal of its instrument, and that this is a
cooldown ago when the normalizer is on its way to the next, which gives `EntriesAreSpaced`.
Both hold whichever of the fills are dispatched, none included.

Every invariant and every action property of the passing runs is a theorem. Only
model-checked is all liveness (`TradeApplied`, `FilledOrderReleased`, `PaperOrderBooked`,
`CatchesUp`, `NeverGivesUp`, `KafkaRecovers`, `TransportStops`, `EngineStops`): it rests on
fairness, which is out of the prover's reach.

## 5. Not modelled

- Contents and formats: JSON, protobuf, HTTP, TLS, Kafka and Redis encodings, log
  lines, the command line and the configuration files; no property depends on them.
- The numerics of the momentum strategy (moving averages, volatility, stops, sizes):
  floating point, and only their outcome steers the control.
- `common/arena_allocator.hpp`: its one instance is thread-local and nothing refers to it.
- Greeks (`check_greeks`), whose call is commented out.
- `open_order_count`, `log_open_orders` and the statistics, which only read.
- `dry_run` and the other configuration values that are loaded and read by nobody.
- `infra/`, `scripts/`, `notebooks/`, the SQL and the dashboards.

## 6. Plan

1. Done: all modules of section 2, and proofs of every safety property of the runs.
2. Left: liveness stays with TLC. When the repository gets a caller for
   `PortfolioEngine::update_price` or a handler for cancelled orders, `Exposure` and `OMS` are
   the modules to extend first.
