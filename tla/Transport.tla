----------------------------- MODULE Transport -----------------------------
(***************************************************************************)
(* The engine's connections to the outside, composed as main.cpp wires     *)
(* them: WSHandler brings ticks, the broker's callbacks bring fills, the   *)
(* normalizer's and the portfolio's threads and the IO thread publish to   *)
(* Kafka and Redis; and the part of main's shutdown that stops these       *)
(* threads and flushes what they published.                                *)
(*                                                                         *)
(* The tick queue and the fill queue are counters here; Engine has the     *)
(* other part of the shutdown, the strategies and their orders.            *)
(***************************************************************************)
EXTENDS WSHandler, KafkaPublisher, RedisClient

CONSTANTS
  Normalizer, Portfolio, Main,   \* threads
  MaxTicks, MaxFills             \* bounds

ASSUME TransportAssumption ==
  /\ RedisUsers = {Normalizer, Portfolio, Main}
  /\ Normalizer # Portfolio /\ Normalizer # Main /\ Portfolio # Main
  /\ MaxTicks \in Nat /\ MaxFills \in Nat

VARIABLES
  ticks, taken,      \* ticks received, and taken by the normalizer
  fills, booked,     \* fills received, and applied by the portfolio
  flush_due,         \* the portfolio's update callback has still to flush
  lossy,             \* ghost: the newest position was not handed to Redis in full
  main               \* how far main's shutdown is

flowVars == <<ticks, taken, fills, booked, flush_due, lossy>>
transportVars == <<wsVars, kafkaVars, redisVars, flowVars, main>>

TransportInit ==
  /\ WSInit /\ KafkaInit /\ RedisInit
  /\ ticks = 0 /\ taken = 0 /\ fills = 0 /\ booked = 0
  /\ flush_due = FALSE /\ lossy = FALSE
  /\ main = "up"

-----------------------------------------------------------------------------
(* The IO thread *)

FeedStep ==
  /\ IO \/ TimerExpires
  /\ UNCHANGED <<kafkaVars, redisVars, flowVars, main>>

ConnectionBreaks ==
  /\ ReadFails
  /\ UNCHANGED <<kafkaVars, redisVars, flowVars, main>>

\* A frame on a subscribed connection: push into the tick queue
Tick ==
  /\ HandlerRuns /\ op = "read" /\ ~ stop /\ subscription = "sent"
  /\ ticks < MaxTicks
  /\ ticks' = ticks + 1
  /\ UNCHANGED <<wsVars, kafkaVars, redisVars, taken, fills, booked, flush_due, lossy,
                 main>>

\* A fill: push into the fill queue, and oms's fill_cb_: kafka.publish_fill
Fill ==
  /\ HandlerRuns /\ fills < MaxFills
  /\ fills' = fills + 1
  /\ Produce
  /\ UNCHANGED <<wsVars, redisVars, ticks, taken, booked, flush_due, lossy, main>>

-----------------------------------------------------------------------------
(* The normalizer's thread: kafka_fn_ *)

NormalizerOn == main \in {"up", "ws"}

PublishTick ==
  /\ NormalizerOn /\ taken < ticks
  /\ taken' = taken + 1
  /\ Produce
  /\ Write(Normalizer, [kind |-> "tick", value |-> taken + 1])
  /\ UNCHANGED <<wsVars, ticks, fills, booked, flush_due, lossy, main>>

-----------------------------------------------------------------------------
(* The portfolio's thread: process_fill and its update callback *)

PortfolioOn == NormalizerOn \/ main = "normalizer"

\* kafka.publish_portfolio, redis.publish_position ...
PublishPosition ==
  /\ PortfolioOn /\ booked < fills /\ ~ flush_due
  /\ booked' = booked + 1
  /\ Produce
  /\ Write(Portfolio, [kind |-> "position", value |-> booked + 1])
  /\ flush_due' = TRUE
  /\ lossy' = (ctx = "null")
  /\ UNCHANGED <<wsVars, ticks, taken, fills, main>>

\* ... redis.flush
FlushPositions ==
  /\ flush_due
  /\ Flush(Portfolio)
  /\ flush_due' = FALSE
  /\ UNCHANGED <<wsVars, kafkaVars, ticks, taken, fills, booked, lossy, main>>

-----------------------------------------------------------------------------
(* Inside the Redis client and the Kafka library *)

RedisCall(t) ==
  /\ AppendCommand(t) \/ FlushLock(t) \/ FlushReconnect(t)
  /\ UNCHANGED <<wsVars, kafkaVars, flowVars, main>>

RedisDrain(t) ==
  /\ \E n \in 0 .. Len(pipeline) :
       /\ FlushDrain(t, n)
       /\ lossy' = (lossy \/ n < Len(pipeline))
  /\ UNCHANGED <<wsVars, kafkaVars, ticks, taken, fills, booked, flush_due, main>>

KafkaStep ==
  /\ Transmit \/ Poll
  /\ UNCHANGED <<wsVars, redisVars, flowVars, main>>

-----------------------------------------------------------------------------
(* main's shutdown *)

Goto(from, to) == main = from /\ main' = to

\* The signal: the monitor loop ends; ws_handler.stop()
Signal ==
  /\ Goto("up", "ws")
  /\ UNCHANGED <<wsVars, kafkaVars, redisVars, flowVars>>

StopFeed ==
  /\ main = "ws"
  /\ StopCall
  /\ UNCHANGED <<kafkaVars, redisVars, flowVars, main>>

\* ioc.stop(), and the flag of normalizer.stop()
StopIO ==
  /\ Goto("ws", "normalizer")
  /\ IocStop
  /\ UNCHANGED <<kafkaVars, redisVars, flowVars>>

\* The normalizer has finished the tick in hand; portfolio.stop()
JoinNormalizer ==
  /\ Goto("normalizer", "portfolio")
  /\ redis_pc[Normalizer] = "out"
  /\ UNCHANGED <<wsVars, kafkaVars, redisVars, flowVars>>

\* mutant: nobody waits for the portfolio's thread
JoinPortfolioNot ==
  /\ Goto("portfolio", "kafka")
  /\ UNCHANGED <<wsVars, kafkaVars, redisVars, flowVars>>

JoinPortfolio ==
  /\ Goto("portfolio", "kafka")
  /\ redis_pc[Portfolio] = "out" /\ ~ flush_due
  /\ UNCHANGED <<wsVars, kafkaVars, redisVars, flowVars>>

\* kafka.flush(5000): the queue is empty or the time is over.
FlushKafka ==
  /\ Goto("kafka", "redis")
  /\ UNCHANGED <<wsVars, kafkaVars, redisVars, flowVars>>

FlushRedis ==
  /\ Goto("redis", "join")
  /\ Flush(Main)
  /\ UNCHANGED <<wsVars, kafkaVars, flowVars>>

\* io_thread.join(), and the destructors
JoinIO ==
  /\ Goto("join", "done")
  /\ redis_pc[Main] = "out" /\ op \notin Running
  /\ KafkaDestroy
  /\ UNCHANGED <<wsVars, redisVars, flowVars>>

ShutdownStep ==
  StopFeed \/ StopIO \/ JoinNormalizer \/ JoinPortfolio \/ FlushKafka \/ FlushRedis
  \/ JoinIO

-----------------------------------------------------------------------------
RedisUse(t) == RedisCall(t) \/ RedisDrain(t)

\* What each thread is bound to do; nobody need ever send a tick, a fill or a signal.
IOThread == FeedStep
PortfolioThread == PublishPosition \/ FlushPositions \/ RedisUse(Portfolio)
MainThread == ShutdownStep \/ RedisUse(Main)

TransportNext ==
  /\ ~ crashed
  /\ \/ IOThread \/ ConnectionBreaks \/ Tick \/ Fill
     \/ PublishTick \/ RedisUse(Normalizer)
     \/ PortfolioThread
     \/ KafkaStep
     \/ Signal \/ MainThread

Alive(A) == ~ crashed /\ A

\* Every thread goes on, and every wait on the network ends: a step of connecting
\* fails or succeeds, close() is answered, librdkafka gives a message up after
\* message.timeout.ms, hiredis a read after its second.
TransportFairness ==
  /\ WF_transportVars(Alive(IOThread))
  /\ WF_transportVars(Alive(RedisUse(Normalizer)))
  /\ WF_transportVars(Alive(PortfolioThread))
  /\ WF_transportVars(Alive(MainThread))
  /\ WF_transportVars(Alive(KafkaStep))

TransportSpec ==
  TransportInit /\ [][TransportNext]_transportVars /\ TransportFairness

-----------------------------------------------------------------------------
\* Between two fills Redis shows the newest position, unless the connection was
\* missing or broke while it was sent: the commands of the normalizer, which share
\* the buffer and the mutex, neither hold a position back nor overtake it.
PositionsReachRedis ==
  ~ flush_due /\ redis_pc[Portfolio] = "out" /\ ~ lossy /\ ~ crashed
    => stored["position"] = booked

\* Redis is flushed for the last time while the IO thread is still there: what any
\* thread wrote is out of the buffer by then, and nobody adds to it afterwards.
NothingLeftBehind ==
  main \in {"join", "done"} /\ redis_pc[Main] = "out" => pipeline = << >>

\* Until stop() the handler never gives up, whatever fails and however often: it is
\* connected or tries to connect, again and again.
NeverGivesUp == []<>(connected \/ op = "authorize" \/ stop \/ crashed)

\* A full queue, which costs every message that comes meanwhile, does not stay full:
\* broker up or down, the library gives messages up and the poll thread makes room.
KafkaRecovers == Full ~> ~ Full \/ ~ polling \/ crashed

\* Once begun, the shutdown comes to its end: close(), the joins and the flushes
\* wait for threads that do end, at whatever point of a reconnect or a flush the
\* signal finds them, short of the crash of NullOnlyAfterRefusal.
TransportStops == main = "ws" ~> main = "done" \/ crashed
=============================================================================
