----------------------------- MODULE MarketData -----------------------------
(***************************************************************************)
(* A tick's way from the wire to the strategies: decode_protobuf_frame on  *)
(* the IO thread, TickQueue, the normalizer's thread with its fan-out to   *)
(* the disruptor and to the candles, and the strategies' threads; with the *)
(* part of main.cpp's shutdown that stops them.                            *)
(*                                                                         *)
(* TickQueue is a FIFO with room for QueueRoom ticks, which is what        *)
(* SPSCQueue implements.  Kafka, Redis and the risk engine's price cache   *)
(* (module Exposure) only receive the tick here, and the counters that the *)
(* heartbeat logs are left out.                                            *)
(***************************************************************************)
EXTENDS TickDisruptor, Candles

CONSTANTS
  Messages,      \* of the feed, see below
  EpochStart,    \* the system clock, in minutes, when the steady clock is 0
  StaleAfter,    \* five seconds, in the unit of the model's clocks
  QueueRoom,     \* what TickQueue holds
  MaxMessages,   \* bound: messages of the feed
  MaxTime        \* bound: minutes

VARIABLES
  now,               \* the steady clock
  received,          \* messages so far
  raw_queue,
  norm,              \* the normalizer's locals
  running,           \* per strategy
  phase              \* how far the shutdown is

marketVars == <<disruptorVars, candleVars, now, received, raw_queue, norm,
                running, phase>>

\* A message is [token, kind, ltp, age]: its kind is "ltpc", "full", "greeks", or
\* "none" if it holds no data, an ltp of 0 was left out by the feed, and age is the
\* time from the trade to the message's arrival.

MarketInit ==
  /\ DisruptorInit
  /\ CandlesInit
  /\ now = 0
  /\ received = 0
  /\ raw_queue = << >>
  /\ norm = [pc |-> "pop", tick |-> Torn]
  /\ running = [c \in Consumers |-> TRUE]
  /\ phase = "up"

-----------------------------------------------------------------------------
(* The IO thread *)

\* Only an ltpc message brings the time of the trade, in time of the system clock;
\* the time of arrival is that of the steady clock.  Nobody fills in open.  The
\* volume of the day grows with the messages, so their number stands for it.
Decode(msg, time, number) ==
  LET exchange_ts == IF msg.kind = "ltpc" THEN EpochStart + time - msg.age ELSE 0
  IN [token |-> msg.token, ltp |-> msg.ltp, open |-> 0,
      exchange_ts |-> exchange_ts, recv_ts |-> time,
      volume |-> IF msg.kind = "full" THEN number ELSE 0,
      is_stale |-> exchange_ts > 0 /\ time - exchange_ts > StaleAfter]

ASSUME FeedAssumption ==
  /\ EpochStart \in Nat /\ StaleAfter \in Nat
  /\ MaxMessages \in Nat /\ MaxTime \in Nat
  /\ \A msg \in Messages, time \in 0 .. MaxTime, number \in 0 .. MaxMessages :
       Decode(msg, time, number) \in Ticks
  /\ \A tick \in Ticks :
       {tick.ltp, tick.exchange_ts, tick.recv_ts, tick.volume} \subseteq Int

Bars == [start : Int, open : Int, high : Int, low : Int, close : Int, volume : Int,
         seen : Seq(Ticks)]
CandleRecords == [bar : Bars, close_ts : Int]

ASSUME NoneAssumption == None \notin Bars /\ None \notin CandleRecords

OnFrame(msg) ==
  /\ received < MaxMessages
  /\ received' = received + 1
  /\ raw_queue' = IF msg.kind = "none" \/ Len(raw_queue) = QueueRoom
                    THEN raw_queue
                    ELSE Append(raw_queue, Decode(msg, now, received))
  /\ UNCHANGED <<disruptorVars, candleVars, now, norm, running, phase>>

-----------------------------------------------------------------------------
(* The normalizer's thread *)

Insane(tick) ==
  \/ tick.ltp <= 0
  \/ tick.open > 0 /\ 2 * (tick.ltp - tick.open) \notin -tick.open .. tick.open

\* try_pop and validate
PopTick ==
  LET tick == Head(raw_queue)
      good == ~ tick.is_stale /\ ~ Insane(tick)
  IN /\ norm.pc = "pop" /\ phase = "up"
     /\ raw_queue # << >>
     /\ raw_queue' = Tail(raw_queue)
     /\ norm' = IF good THEN [pc |-> "push", tick |-> tick] ELSE norm
     /\ UNCHANGED <<disruptorVars, candleVars, now, received, running, phase>>

PushTick ==
  /\ norm.pc = "push"
  /\ ClaimNext(norm.tick)
  /\ norm' = [norm EXCEPT !.pc = "candles"]
  /\ UNCHANGED <<candleVars, now, received, raw_queue, running, phase>>

PublishTicks ==
  /\ Publish
  /\ UNCHANGED <<candleVars, now, received, raw_queue, norm, running, phase>>

\* candle_builder_.on_tick, then kafka_fn_
BuildCandles ==
  /\ norm.pc = "candles" /\ pub.pc = "idle"
  /\ on_tick(norm.tick)
  /\ norm' = [pc |-> "pop", tick |-> Torn]
  /\ UNCHANGED <<disruptorVars, now, received, raw_queue, running, phase>>

Normalize == PopTick \/ PushTick \/ PublishTicks \/ BuildCandles

-----------------------------------------------------------------------------
(* The thread of strategy c: run_strategy_thread *)

StrategyStep(c) ==
  /\ take[c].pc = "idle" => running[c]
  /\ Consume(c) \/ ConsumeReturn(c)
  /\ UNCHANGED <<candleVars, now, received, raw_queue, norm, running, phase>>

\* halt_strategy, or an on_start that throws
HaltStrategy(c) ==
  /\ running[c]
  /\ running' = [running EXCEPT ![c] = FALSE]
  /\ UNCHANGED <<disruptorVars, candleVars, now, received, raw_queue, norm, phase>>

-----------------------------------------------------------------------------
(* Shutdown, on the main thread *)

\* normalizer.stop(): the loop ends once the tick in hand is done.
StopNormalizer ==
  /\ phase = "up"
  /\ phase' = "stopping"
  /\ UNCHANGED <<disruptorVars, candleVars, now, received, raw_queue, norm, running>>

\* strategy_mgr.stop_all(), after the join of the normalizer; it stops one strategy
\* after the other, and HaltStrategy gives the states in between.
StopAll ==
  /\ phase = "stopping" /\ norm.pc = "pop"
  /\ phase' = "stopped"
  /\ running' = [c \in Consumers |-> FALSE]
  /\ UNCHANGED <<disruptorVars, candleVars, now, received, raw_queue, norm>>

\* candle_builder.flush_all(), after the join of the strategies; its now is that of
\* the system clock.
FlushAll ==
  /\ phase = "stopped" /\ \A c \in Consumers : take[c].pc = "idle"
  /\ phase' = "flushed"
  /\ flush_all(EpochStart + now)
  /\ UNCHANGED <<disruptorVars, now, received, raw_queue, norm, running>>

Clock ==
  /\ now < MaxTime
  /\ now' = now + 1
  /\ UNCHANGED <<disruptorVars, candleVars, received, raw_queue, norm, running, phase>>

Shutdown == StopNormalizer \/ StopAll \/ FlushAll

\* The engine has stopped.
Stopped == phase = "flushed" /\ UNCHANGED marketVars

MarketNext ==
  \/ \E msg \in Messages : OnFrame(msg)
  \/ Normalize
  \/ \E c \in Consumers : StrategyStep(c) \/ HaltStrategy(c)
  \/ Shutdown
  \/ Clock
  \/ Stopped

\* The normalizer and the strategies poll; whether and when anything arrives, is
\* halted or stopped is open.
MarketFairness ==
  /\ WF_marketVars(Normalize)
  /\ \A c \in Consumers : WF_marketVars(StrategyStep(c))

MarketSpec == MarketInit /\ [][MarketNext]_marketVars /\ MarketFairness

-----------------------------------------------------------------------------
\* The ticks of k's instrument that went to the strategies
Fanned(k) == {n \in DOMAIN history : history[n].token = k[1]}

\* Between two ticks, for every instrument and interval, the candles and the open
\* bar together hold each tick that went to the strategies exactly once: the two
\* fan-outs of the normalizer agree, across late ticks and flush_all too.
CandlesComplete ==
  norm.pc = "pop" =>
    \A k \in Keys :
      candled[k] + (IF open_bars[k] = None THEN 0 ELSE Len(open_bars[k].seen))
        = Cardinality(Fanned(k))

\* Once the feed falls silent, which it does after MaxMessages messages, every
\* running strategy has caught up with the publisher, lapped or not: no consumer
\* gets stuck at a slot that was overwritten.
CatchesUp ==
  \A c \in Consumers : <>[](running[c] => cursor[c] = producer_seq)
=============================================================================
