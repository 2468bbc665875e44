-------------------------- MODULE TransportProofs --------------------------
(***************************************************************************)
(* The WebSocket handler, alone and in the engine as main.cpp wires it: no *)
(* stream is destroyed while somebody uses it, and at most one connection  *)
(* is begun after stop().  The Redis client: the null context, the newest  *)
(* position, and the buffer at the end of the shutdown.  All of it for     *)
(* every back-off limit and any number of ticks and fills.                 *)
(***************************************************************************)
EXTENDS Transport, TLAPS

(* The handler *)

\* connected_ is set exactly while the read loop is, except that stop() leaves it
\* set; so a reconnect, which follows its reset, is never due beside it.
ConnectedInv ==
  connected => op \in {"read", "lost"} \/ (stop /\ op = "none")

\* Inside close() the only handler that can still run is that of the read, and with
\* stop_ set it ends without arming the timer.
ClosingInv ==
  /\ stop <=> closing # "out"
  /\ closing = "close" =>
       /\ ws /\ timer = "off"
       /\ op \in {"read", "lost", "failed", "none"}

\* What can still become a reconnect after stop(): one begun, one due, or one that
\* is being armed, never two of them
AttemptInv ==
  /\ ~ stop => attempts = 0
  /\ attempts = 0 \/ (attempts = 1 /\ timer = "off" /\ op # "arming")

WSInv == WSTypeOK /\ StreamKept /\ ConnectedInv /\ ClosingInv /\ AttemptInv

LEMMA WSInitInv == WSInit => WSInv
<1> SUFFICES ASSUME WSInit PROVE WSInv
  OBVIOUS
<1>1. WSTypeOK
  <2>1. delay \in 1 .. MAX_RECONNECT_DELAY
    BY DelayAssumption DEF WSInit
  <2> QED
    BY <2>1 DEF WSInit, WSTypeOK, Chain, Running
<1>2. StreamKept /\ ConnectedInv /\ ClosingInv
  BY DEF WSInit, StreamKept, ConnectedInv, ClosingInv, OnStream
<1>3. AttemptInv
  BY DEF WSInit, AttemptInv
<1> QED
  BY <1>1, <1>2, <1>3 DEF WSInv

\* The steps that move the chain on leave the timer and stop() alone.
LEMMA ChainStep ==
  ASSUME WSInv,
         Authorize \/ Resolved \/ Connected \/ Secured \/ UpgradeFailed \/ Upgraded
           \/ Subscribed \/ ReadStops \/ ReadFails \/ Lost
  PROVE  WSInv'
<1> USE DelayAssumption DEF WSInv, WSTypeOK, StreamKept, ConnectedInv, ClosingInv,
        AttemptInv, Chain, Running, OnStream, HandlerRuns
<1>1. CASE Authorize
  BY <1>1 DEF Authorize
<1>2. CASE Resolved
  BY <1>2 DEF Resolved
<1>3. CASE Connected
  BY <1>3 DEF Connected
<1>4. CASE Secured
  BY <1>4 DEF Secured
<1>5. CASE UpgradeFailed
  BY <1>5 DEF UpgradeFailed
<1>6. CASE Upgraded
  BY <1>6 DEF Upgraded
<1>7. CASE Subscribed
  BY <1>7 DEF Subscribed
<1>8. CASE ReadStops
  BY <1>8 DEF ReadStops
<1>9. CASE ReadFails
  BY <1>9 DEF ReadFails
<1>10. CASE Lost
  BY <1>10 DEF Lost
<1> QED
  BY <1>1, <1>2, <1>3, <1>4, <1>5, <1>6, <1>7, <1>8, <1>9, <1>10

\* schedule_reconnect, the timer and do_reconnect
LEMMA TimerStep ==
  ASSUME WSInv, Schedule \/ Arm \/ TimerExpires \/ Reconnect
  PROVE  WSInv'
<1> USE DelayAssumption DEF WSInv, WSTypeOK, StreamKept, ConnectedInv, ClosingInv,
        AttemptInv, Chain, Running, OnStream, HandlerRuns
<1>1. CASE Schedule
  BY <1>1 DEF Schedule
<1>2. CASE Arm
  BY <1>2 DEF Arm
<1>3. CASE TimerExpires
  BY <1>3 DEF TimerExpires
<1>4. CASE Reconnect
  <2>1. /\ timer' = "off" /\ ws' = FALSE /\ op' = "authorize" /\ subscription' = "none"
        /\ UNCHANGED <<connected, stop, delay, wanted, closing, ioc>>
    BY <1>4 DEF Reconnect
  <2>2. ~ connected /\ closing # "close" /\ attempts = 0
    BY <1>4 DEF Reconnect
  <2>3. attempts' = (IF stop THEN 1 ELSE 0)
    BY <1>4, <2>2 DEF Reconnect
  <2>4. WSTypeOK'
    BY <2>1, <2>3
  <2>5. StreamKept' /\ ConnectedInv' /\ ClosingInv'
    BY <2>1, <2>2
  <2>6. AttemptInv'
    BY <2>1, <2>3
  <2> QED
    BY <2>4, <2>5, <2>6
<1> QED
  BY <1>1, <1>2, <1>3, <1>4

\* The main thread
LEMMA MainStep ==
  ASSUME WSInv, StopCall \/ IocStop \/ Unsubscribe
  PROVE  WSInv'
<1> USE DEF WSInv, WSTypeOK, StreamKept, ConnectedInv, ClosingInv, AttemptInv, Chain,
        Running, OnStream
<1>1. CASE StopFlag
  BY <1>1 DEF StopFlag
<1>2. CASE StopTimer
  BY <1>2 DEF StopTimer
<1>3. CASE StopClose
  BY <1>3 DEF StopClose
<1>4. CASE Closed
  BY <1>4 DEF Closed
<1>5. CASE IocStop
  BY <1>5 DEF IocStop
<1>6. CASE Unsubscribe
  BY <1>6 DEF Unsubscribe
<1> QED
  BY <1>1, <1>2, <1>3, <1>4, <1>5, <1>6 DEF StopCall

LEMMA WSInvariance == WSSpec => []WSInv
<1>1. ASSUME WSInv, [WSNext]_wsVars
      PROVE  WSInv'
  <2>1. CASE UNCHANGED wsVars
    BY <1>1, <2>1 DEF wsVars, WSInv, WSTypeOK, StreamKept, ConnectedInv, ClosingInv,
       AttemptInv
  <2> QED
    BY <1>1, <2>1, ChainStep, TimerStep, MainStep DEF WSNext, IO
<1> QED
  BY <1>1, WSInitInv, PTL DEF WSSpec

\* Type correctness of the market-data handler, upstox_ws_handler.cpp.
THEOREM WSTypeCorrect == WSSpec => []WSTypeOK
BY WSInvariance, PTL DEF WSInv

\* do_reconnect never destroys a stream that the chain or stop()'s close() works on,
\* and there is never a second chain, for every back-off limit.
THEOREM StreamNeverLost == WSSpec => []StreamKept
BY WSInvariance, PTL DEF WSInv

\* However the timer races stop(), do_reconnect runs at most once after it.
THEOREM AttemptsBounded == WSSpec => []OneAttemptAfterStop
<1>1. WSInv => OneAttemptAfterStop
  BY DEF WSInv, AttemptInv, OneAttemptAfterStop
<1> QED
  BY <1>1, WSInvariance, PTL

-----------------------------------------------------------------------------
(* The handler in the engine *)

\* Every step of the composition is a step of the handler or leaves it alone: main
\* calls stop() and ioc.stop() in the order WSHandler expects.
LEMMA HandlerStep ==
  ASSUME [TransportNext]_transportVars
  PROVE  [WSNext]_wsVars
<1> USE DEF WSNext
<1>1. CASE UNCHANGED transportVars
  BY <1>1 DEF transportVars, wsVars
<1>2. CASE FeedStep \/ ConnectionBreaks
  BY <1>2 DEF FeedStep, ConnectionBreaks
<1>3. CASE StopFeed \/ StopIO
  BY <1>3 DEF StopFeed, StopIO
<1>4. CASE Tick \/ Fill \/ PublishTick \/ PublishPosition \/ FlushPositions \/ Signal
  BY <1>4 DEF Tick, Fill, PublishTick, PublishPosition, FlushPositions, Signal
<1>5. CASE KafkaStep \/ \E t \in RedisUsers : RedisUse(t)
  BY <1>5 DEF KafkaStep, RedisUse, RedisCall, RedisDrain
<1>6. CASE JoinNormalizer \/ JoinPortfolio \/ FlushKafka \/ FlushRedis \/ JoinIO
  BY <1>6 DEF JoinNormalizer, JoinPortfolio, FlushKafka, FlushRedis, JoinIO
<1> QED
  BY <1>1, <1>2, <1>3, <1>4, <1>5, <1>6, TransportAssumption
  DEF TransportNext, IOThread, PortfolioThread, MainThread, ShutdownStep

LEMMA HandlerInvariance == TransportSpec => []WSInv
<1>1. TransportInit => WSInv
  BY WSInitInv DEF TransportInit
<1>2. ASSUME WSInv, [TransportNext]_transportVars
      PROVE  WSInv'
  <2>1. CASE UNCHANGED wsVars
    BY <1>2, <2>1 DEF wsVars, WSInv, WSTypeOK, StreamKept, ConnectedInv, ClosingInv,
       AttemptInv
  <2> QED
    BY <1>2, <2>1, HandlerStep, ChainStep, TimerStep, MainStep DEF WSNext, IO
<1> QED
  BY <1>1, <1>2, PTL DEF TransportSpec

\* In the engine as main.cpp wires it no stream is destroyed under its user.
THEOREM EngineKeepsStream == TransportSpec => []StreamKept
BY HandlerInvariance, PTL DEF WSInv

\* In the engine as main.cpp wires it at most one connection begins after stop().
THEOREM EngineAttemptsBounded == TransportSpec => []OneAttemptAfterStop
<1>1. WSInv => OneAttemptAfterStop
  BY DEF WSInv, AttemptInv, OneAttemptAfterStop
<1> QED
  BY <1>1, HandlerInvariance, PTL

-----------------------------------------------------------------------------
(* The Redis client *)

\* mtx_ is held by the thread that flushes, and by no other; and ctx_ is null only
\* while the holder reconnects, after a reconnect has failed, or because there was
\* never a connection, and then nobody gets past the test.
RedisInv ==
  /\ redis_pc \in [RedisUsers -> {"out", "append", "flush", "drain", "reconnect"}]
  /\ \A t \in RedisUsers : redis_pc[t] \in {"drain", "reconnect"} => mtx = t
  /\ \/ ctx # "null"
     \/ refused
     \/ \E t \in RedisUsers : redis_pc[t] = "reconnect"
     \/ \A t \in RedisUsers : redis_pc[t] = "out"
  /\ NullOnlyAfterRefusal

LEMMA RedisSteps ==
  ASSUME RedisInv, NEW t \in RedisUsers,
         \/ AppendCommand(t) \/ FlushLock(t) \/ FlushReconnect(t) \/ Flush(t)
         \/ \E n \in 0 .. Len(pipeline) : FlushDrain(t, n)
         \/ \E cmd : Write(t, cmd)
  PROVE  RedisInv'
<1> USE UsersAssumption DEF RedisInv, NullOnlyAfterRefusal
<1>1. CASE AppendCommand(t)
  <2>1. \A u \in RedisUsers : redis_pc[u] # "reconnect"
    BY <1>1 DEF AppendCommand
  <2>2. ctx # "null" \/ refused
    BY <1>1, <2>1 DEF AppendCommand
  <2>3. crashed' => refused
    BY <1>1, <2>2 DEF AppendCommand
  <2> QED
    BY <1>1, <2>2, <2>3 DEF AppendCommand
<1>2. CASE FlushLock(t)
  <2>1. \A u \in RedisUsers : redis_pc[u] # "reconnect"
    BY <1>2 DEF FlushLock
  <2>2. ctx # "null" \/ refused
    BY <1>2, <2>1 DEF FlushLock
  <2>3. crashed' => refused
    BY <1>2, <2>2 DEF FlushLock
  <2> QED
    BY <1>2, <2>1, <2>2, <2>3 DEF FlushLock
<1>3. CASE FlushReconnect(t)
  BY <1>3 DEF FlushReconnect
<1>4. CASE Flush(t)
  BY <1>4 DEF Flush
<1>5. ASSUME NEW n \in 0 .. Len(pipeline), FlushDrain(t, n) PROVE RedisInv'
  BY <1>5 DEF FlushDrain
<1>6. ASSUME NEW cmd, Write(t, cmd) PROVE RedisInv'
  BY <1>6 DEF Write
<1> QED
  BY <1>1, <1>2, <1>3, <1>4, <1>5, <1>6

LEMMA RedisInvariance == TransportSpec => []RedisInv
<1>1. TransportInit => RedisInv
  BY DEF TransportInit, RedisInit, RedisInv, NullOnlyAfterRefusal
<1>2. ASSUME RedisInv, [TransportNext]_transportVars
      PROVE  RedisInv'
  <2>1. CASE UNCHANGED redisVars
    BY <1>2, <2>1 DEF redisVars, RedisInv, NullOnlyAfterRefusal
  <2>2. ASSUME NEW t \in RedisUsers, RedisUse(t)
        PROVE  RedisInv'
    BY <1>2, <2>2, RedisSteps DEF RedisUse, RedisCall, RedisDrain
  <2>3. CASE PublishTick \/ PublishPosition
    BY <1>2, <2>3, RedisSteps, TransportAssumption DEF PublishTick, PublishPosition
  <2>4. CASE FlushPositions \/ FlushRedis
    BY <1>2, <2>4, RedisSteps, TransportAssumption DEF FlushPositions, FlushRedis
  <2>5. CASE FeedStep \/ ConnectionBreaks \/ StopFeed \/ StopIO \/ Tick \/ Fill \/ Signal
             \/ KafkaStep \/ JoinNormalizer \/ JoinPortfolio \/ FlushKafka \/ JoinIO
    <3>1. UNCHANGED redisVars
      BY <2>5 DEF FeedStep, ConnectionBreaks, StopFeed, StopIO, Tick, Fill, Signal,
         KafkaStep, JoinNormalizer, JoinPortfolio, FlushKafka, JoinIO
    <3> QED
      BY <2>1, <3>1
  <2>6. UNCHANGED transportVars => UNCHANGED redisVars
    BY DEF transportVars
  <2> QED
    BY <1>2, <2>1, <2>2, <2>3, <2>4, <2>5, <2>6, TransportAssumption
    DEF TransportNext, IOThread, PortfolioThread, MainThread, ShutdownStep
<1> QED
  BY <1>1, <1>2, PTL DEF TransportSpec

\* However many ticks and fills are published beside a flush, a null context is used
\* only after Redis refused a reconnect.
THEOREM RedisNullOnlyAfterRefusal == TransportSpec => []NullOnlyAfterRefusal
BY RedisInvariance, PTL DEF RedisInv

-----------------------------------------------------------------------------
(* What is in the buffer, and who may still add to it *)

\* The normalizer only writes and main only flushes; the portfolio flushes after each
\* write.  Whom main has joined is out of the client for good.
StageInv ==
  /\ main \in {"up", "ws", "normalizer", "portfolio", "kafka", "redis", "join", "done"}
  /\ flush_due \in BOOLEAN /\ lossy \in BOOLEAN
  /\ redis_pc[Normalizer] \in {"out", "append"}
  /\ redis_pc[Main] \in {"out", "flush", "drain", "reconnect"}
  /\ redis_pc[Portfolio] = "append" => flush_due
  /\ flush_due => redis_pc[Portfolio] \in {"out", "append"}
  /\ main # "join" => redis_pc[Main] = "out"
  /\ main \notin {"up", "ws", "normalizer"} => redis_pc[Normalizer] = "out"
  /\ main \in {"kafka", "redis", "join", "done"} => redis_pc[Portfolio] = "out" /\ ~ flush_due

Commands == [kind : Kinds, value : Nat]

NoPosition == \A i \in 1 .. Len(pipeline) : pipeline[i].kind # "position"

\* The buffer holds one position, the newest.
NewestPosition ==
  \E i \in 1 .. Len(pipeline) :
    /\ pipeline[i] = [kind |-> "position", value |-> booked]
    /\ \A j \in 1 .. Len(pipeline) : pipeline[j].kind = "position" => j = i

\* From the append to the drain the newest position is the only one in the buffer;
\* before and after there is none, and Redis has the newest unless it was lost.
BufferInv ==
  /\ booked \in Nat /\ taken \in Nat
  /\ pipeline \in Seq(Commands)
  /\ pending \in [RedisUsers -> Commands]
  /\ ctx \in {"up", "null"}
  /\ ctx = "null" => pipeline = << >>
  /\ \A t \in RedisUsers : redis_pc[t] = "reconnect" => ctx = "null"
  /\ redis_pc[Normalizer] = "append" => pending[Normalizer] \in [kind : {"tick"}, value : Nat]
  /\ redis_pc[Portfolio] = "append" =>
       /\ pending[Portfolio] = [kind |-> "position", value |-> booked]
       /\ NoPosition
  /\ flush_due => (lossy <=> ctx = "null")
  /\ redis_pc[Portfolio] \in {"append", "flush", "drain"} => ctx = "up"
  /\ flush_due /\ redis_pc[Portfolio] = "out" /\ ~ lossy => NewestPosition
  /\ redis_pc[Portfolio] \in {"flush", "drain"} => NewestPosition
  /\ ~ flush_due /\ redis_pc[Portfolio] \in {"out", "reconnect"} =>
       /\ NoPosition
       /\ ~ lossy => stored["position"] = booked
  /\ main \in {"join", "done"} /\ redis_pc[Main] = "out" => pipeline = << >>

RedisState == RedisInv /\ StageInv /\ BufferInv

\* A tick in the buffer changes nothing for the positions.
LEMMA TickAppended ==
  ASSUME pipeline \in Seq(Commands), NEW c \in [kind : {"tick"}, value : Nat],
         pipeline' = Append(pipeline, c), UNCHANGED booked
  PROVE  /\ NoPosition => NoPosition'
         /\ NewestPosition => NewestPosition'
<1>1. /\ Len(pipeline') = Len(pipeline) + 1
      /\ pipeline'[Len(pipeline) + 1] = c /\ c.kind # "position"
      /\ \A j \in 1 .. Len(pipeline) : pipeline'[j] = pipeline[j]
      /\ Len(pipeline) \in Nat
  BY DEF Commands, Kinds
<1>2. NoPosition => NoPosition'
  BY <1>1 DEF NoPosition
<1>3. ASSUME NewestPosition PROVE NewestPosition'
  <2>1. PICK i \in 1 .. Len(pipeline) :
          /\ pipeline[i] = [kind |-> "position", value |-> booked]
          /\ \A j \in 1 .. Len(pipeline) : pipeline[j].kind = "position" => j = i
    BY <1>3 DEF NewestPosition
  <2>2. i \in 1 .. Len(pipeline') /\ pipeline'[i] = pipeline[i]
    BY <1>1
  <2>3. \A j \in 1 .. Len(pipeline') : pipeline'[j].kind = "position" => j = i
    BY <1>1, <2>1
  <2> QED
    BY <2>1, <2>2, <2>3 DEF NewestPosition
<1> QED
  BY <1>2, <1>3

LEMMA PositionAppended ==
  ASSUME pipeline \in Seq(Commands), NoPosition, booked \in Nat,
         pipeline' = Append(pipeline, [kind |-> "position", value |-> booked]),
         UNCHANGED booked
  PROVE  NewestPosition'
<1>1. /\ Len(pipeline') = Len(pipeline) + 1
      /\ pipeline'[Len(pipeline) + 1] = [kind |-> "position", value |-> booked]
      /\ \A j \in 1 .. Len(pipeline) : pipeline'[j] = pipeline[j]
  BY DEF Commands, Kinds
<1>2. \A j \in 1 .. Len(pipeline') : pipeline'[j].kind = "position" => j = Len(pipeline) + 1
  BY <1>1 DEF NoPosition
<1> QED
  BY <1>1, <1>2 DEF NewestPosition

\* Draining the buffer
LEMMA PositionDrained ==
  ASSUME pipeline \in Seq(Commands), NewestPosition
  PROVE  StoredAfter(Len(pipeline))["position"] = booked
<1> DEFINE writes == {i \in 1 .. Len(pipeline) : pipeline[i].kind = "position"}
<1>1. PICK i \in 1 .. Len(pipeline) :
        /\ pipeline[i] = [kind |-> "position", value |-> booked]
        /\ \A j \in 1 .. Len(pipeline) : pipeline[j].kind = "position" => j = i
  BY DEF NewestPosition
<1>2. writes = {i}
  BY <1>1
<1>3. (CHOOSE k \in writes : \A j \in writes : j <= k) = i
  BY <1>2
<1>4. StoredAfter(Len(pipeline))["position"] = pipeline[i].value
  BY <1>2, <1>3 DEF StoredAfter, Kinds
<1> QED
  BY <1>1, <1>4

LEMMA NothingDrained ==
  ASSUME NoPosition, NEW n \in 0 .. Len(pipeline)
  PROVE  StoredAfter(n)["position"] = stored["position"]
<1>1. {i \in 1 .. n : pipeline[i].kind = "position"} = {}
  BY DEF NoPosition
<1> QED
  BY <1>1 DEF StoredAfter, Kinds

LEMMA RedisStateInit == TransportInit => RedisState
<1> SUFFICES ASSUME TransportInit PROVE RedisState
  OBVIOUS
<1> USE TransportAssumption DEF TransportInit, RedisInit
<1>1. RedisInv
  BY DEF RedisInv, NullOnlyAfterRefusal
<1>2. StageInv
  BY DEF StageInv
<1>3. pipeline = << >> /\ << >> \in Seq(Commands) /\ NoPosition /\ stored["position"] = 0
  BY DEF NoPosition, Kinds
<1>4. pending \in [RedisUsers -> Commands]
  BY DEF NoCommand, Commands, Kinds
<1>5. BufferInv
  BY <1>3, <1>4 DEF BufferInv
<1> QED
  BY <1>1, <1>2, <1>5 DEF RedisState

\* Steps that touch neither the client nor the portfolio's bookkeeping; the joins of
\* main find the threads out of the client.
LEMMA RedisElsewhere ==
  ASSUME StageInv, BufferInv, UNCHANGED <<redisVars, taken, booked, flush_due, lossy>>,
         \/ UNCHANGED main
         \/ Signal \/ StopIO \/ JoinNormalizer \/ JoinPortfolio \/ FlushKafka \/ JoinIO
  PROVE  StageInv' /\ BufferInv'
<1>1. StageInv'
  BY DEF StageInv, redisVars, Signal, StopIO, JoinNormalizer, JoinPortfolio, FlushKafka,
     JoinIO, Goto
<1>2. main' \in {"join", "done"} => main = "join" \/ main = main'
  BY DEF Signal, StopIO, JoinNormalizer, JoinPortfolio, FlushKafka, JoinIO, Goto, StageInv
<1>3. (NoPosition <=> NoPosition') /\ (NewestPosition <=> NewestPosition')
  BY DEF NoPosition, NewestPosition, redisVars
<1>4. BufferInv'
  BY <1>2, <1>3 DEF BufferInv, redisVars
<1> QED
  BY <1>1, <1>4

\* The writers up to the lock
LEMMA TickWritten ==
  ASSUME RedisState, PublishTick
  PROVE  StageInv' /\ BufferInv'
<1> USE TransportAssumption DEF RedisState
<1> DEFINE cmd == [kind |-> "tick", value |-> taken + 1]
<1>1. /\ main \in {"up", "ws"} /\ redis_pc[Normalizer] = "out"
      /\ UNCHANGED <<main, ctx, mtx, pipeline, stored, booked, flush_due, lossy>>
      /\ taken' = taken + 1
      /\ redis_pc' = [redis_pc EXCEPT ![Normalizer] = IF ctx = "null" THEN "out" ELSE "append"]
      /\ pending' = [pending EXCEPT ![Normalizer] = IF ctx = "null" THEN NoCommand ELSE cmd]
  BY DEF PublishTick, NormalizerOn, Write
<1>2. /\ redis_pc'[Portfolio] = redis_pc[Portfolio] /\ redis_pc'[Main] = redis_pc[Main]
      /\ redis_pc'[Normalizer] = IF ctx = "null" THEN "out" ELSE "append"
  BY <1>1 DEF RedisInv
<1>3. StageInv'
  BY <1>1, <1>2 DEF StageInv
<1>4. cmd \in [kind : {"tick"}, value : Nat] /\ cmd \in Commands /\ NoCommand \in Commands
  BY DEF BufferInv, Commands, Kinds, NoCommand
<1>5. /\ pending' \in [RedisUsers -> Commands]
      /\ pending'[Portfolio] = pending[Portfolio]
      /\ redis_pc'[Normalizer] = "append" => pending'[Normalizer] = cmd
  BY <1>1, <1>2, <1>4 DEF BufferInv
<1>6. (NoPosition <=> NoPosition') /\ (NewestPosition <=> NewestPosition')
  BY <1>1 DEF NoPosition, NewestPosition
<1>7. \A t \in RedisUsers : redis_pc'[t] = "reconnect" => redis_pc[t] = "reconnect"
  BY <1>2
<1>8. BufferInv'
  BY <1>1, <1>2, <1>4, <1>5, <1>6, <1>7 DEF BufferInv
<1> QED
  BY <1>3, <1>8

LEMMA PositionWritten ==
  ASSUME RedisState, PublishPosition
  PROVE  StageInv' /\ BufferInv'
<1> USE TransportAssumption DEF RedisState
<1> DEFINE cmd == [kind |-> "position", value |-> booked + 1]
<1>1. /\ main \in {"up", "ws", "normalizer"} /\ redis_pc[Portfolio] = "out" /\ ~ flush_due
      /\ UNCHANGED <<main, ctx, mtx, pipeline, stored, taken>>
      /\ booked' = booked + 1 /\ flush_due' = TRUE /\ lossy' = (ctx = "null")
      /\ redis_pc' = [redis_pc EXCEPT ![Portfolio] = IF ctx = "null" THEN "out" ELSE "append"]
      /\ pending' = [pending EXCEPT ![Portfolio] = IF ctx = "null" THEN NoCommand ELSE cmd]
  BY DEF PublishPosition, PortfolioOn, NormalizerOn, Write
<1>2. /\ redis_pc'[Normalizer] = redis_pc[Normalizer] /\ redis_pc'[Main] = redis_pc[Main]
      /\ redis_pc'[Portfolio] = IF ctx = "null" THEN "out" ELSE "append"
  BY <1>1 DEF RedisInv
<1>3. StageInv'
  BY <1>1, <1>2 DEF StageInv
<1>4. cmd \in Commands /\ NoCommand \in Commands
  BY DEF BufferInv, Commands, Kinds, NoCommand
<1>5. /\ pending' \in [RedisUsers -> Commands]
      /\ pending'[Normalizer] = pending[Normalizer]
      /\ redis_pc'[Portfolio] = "append" => pending'[Portfolio] = cmd
  BY <1>1, <1>2, <1>4 DEF BufferInv
<1>6. NoPosition'
  BY <1>1 DEF BufferInv, NoPosition
<1>7. \A t \in RedisUsers : redis_pc'[t] = "reconnect" => redis_pc[t] = "reconnect"
  BY <1>2
<1>8. booked' \in Nat /\ (lossy' <=> ctx' = "null")
  <2>1. booked' \in Nat
    BY <1>1 DEF BufferInv
  <2>2. lossy' <=> ctx' = "null"
    BY <1>1, Zenon
  <2> QED
    BY <2>1, <2>2
<1>9. redis_pc'[Portfolio] # "append" => lossy'
  BY <1>1, <1>2
<1>10. pending'[Portfolio] = [kind |-> "position", value |-> booked'] \/ lossy'
  BY <1>1, <1>2, <1>5, <1>9
<1>11. BufferInv'
  BY <1>1, <1>2, <1>5, <1>6, <1>7, <1>8, <1>9, <1>10 DEF BufferInv
<1> QED
  BY <1>3, <1>11

\* redisAppendCommand: the portfolio meets its context, as nobody replaces it before
\* the portfolio's own flush.
LEMMA Appended ==
  ASSUME RedisState, NEW t \in RedisUsers, AppendCommand(t),
         UNCHANGED <<taken, booked, flush_due, lossy, main>>
  PROVE  StageInv' /\ BufferInv'
<1> USE TransportAssumption DEF RedisState
<1>1. /\ redis_pc[t] = "append" /\ redis_pc' = [redis_pc EXCEPT ![t] = "out"]
      /\ pending' = [pending EXCEPT ![t] = NoCommand]
      /\ UNCHANGED <<ctx, mtx, stored>>
      /\ IF ctx = "null" THEN UNCHANGED pipeline ELSE pipeline' = Append(pipeline, pending[t])
  BY DEF AppendCommand
<1>2. t \in {Normalizer, Portfolio} /\ main \notin {"join", "done"}
  BY <1>1 DEF StageInv
<1>3. /\ redis_pc'[t] = "out"
      /\ \A u \in RedisUsers \ {t} : redis_pc'[u] = redis_pc[u] /\ pending'[u] = pending[u]
      /\ pending' \in [RedisUsers -> Commands]
      /\ pipeline' \in Seq(Commands)
  <2>1. NoCommand \in Commands
    BY DEF NoCommand, Commands, Kinds
  <2>2. pipeline \in Seq(Commands) /\ pending[t] \in Commands
    BY DEF BufferInv
  <2>3. pipeline' \in Seq(Commands)
    BY <1>1, <2>2
  <2> QED
    BY <1>1, <2>1, <2>3 DEF RedisInv, BufferInv
<1>4. StageInv'
  BY <1>1, <1>2, <1>3 DEF StageInv
<1>5. CASE t = Normalizer
  <2>1. (NoPosition => NoPosition') /\ (NewestPosition => NewestPosition')
    <3>1. CASE ctx = "null"
      BY <1>1, <3>1 DEF NoPosition, NewestPosition
    <3>2. CASE ctx # "null"
      BY <1>1, <1>5, <3>2, TickAppended DEF BufferInv
    <3> QED
      BY <3>1, <3>2
  <2>2. ctx = "null" => pipeline' = << >>
    BY <1>1 DEF BufferInv
  <2> QED
    BY <1>1, <1>2, <1>3, <1>4, <1>5, <2>1, <2>2 DEF BufferInv
<1>6. CASE t = Portfolio
  <2>1. ctx = "up" /\ flush_due /\ ~ lossy
    BY <1>1, <1>6 DEF BufferInv, StageInv
  <2>2. NewestPosition'
    BY <1>1, <1>6, <2>1, PositionAppended DEF BufferInv
  <2> QED
    BY <1>1, <1>2, <1>3, <1>4, <1>6, <2>1, <2>2 DEF BufferInv
<1> QED
  BY <1>2, <1>5, <1>6

\* flush up to the lock, on the portfolio's thread and at the end on main's
LEMMA FlushBegun ==
  ASSUME RedisState, FlushPositions \/ FlushRedis
  PROVE  StageInv' /\ BufferInv'
<1> USE TransportAssumption DEF RedisState
<1>1. (NoPosition <=> NoPosition') /\ (NewestPosition <=> NewestPosition')
  BY DEF FlushPositions, FlushRedis, Flush, NoPosition, NewestPosition, flowVars
<1>2. CASE FlushPositions
  <2>1. /\ flush_due /\ ~ flush_due' /\ redis_pc[Portfolio] = "out"
        /\ UNCHANGED <<ctx, mtx, pending, pipeline, stored, taken, booked, lossy, main>>
        /\ redis_pc' = [redis_pc EXCEPT ![Portfolio] = IF ctx = "null" THEN "out" ELSE "flush"]
        /\ flush_due' \in BOOLEAN
    BY <1>2 DEF FlushPositions, Flush
  <2>2. /\ redis_pc'[Normalizer] = redis_pc[Normalizer] /\ redis_pc'[Main] = redis_pc[Main]
        /\ redis_pc'[Portfolio] = IF ctx = "null" THEN "out" ELSE "flush"
    BY <2>1 DEF RedisInv
  <2>3. StageInv'
    BY <2>1, <2>2 DEF StageInv
  <2>4. ctx = "null" => lossy /\ pipeline = << >> /\ NoPosition
    BY <2>1 DEF BufferInv, NoPosition
  <2>5. ctx # "null" => NewestPosition /\ ctx = "up"
    BY <2>1 DEF BufferInv, StageInv
  <2>6. \A t \in RedisUsers : redis_pc'[t] = "reconnect" => redis_pc[t] = "reconnect"
    BY <2>2
  <2>7. BufferInv'
    BY <1>1, <2>1, <2>2, <2>4, <2>5, <2>6 DEF BufferInv
  <2> QED
    BY <2>3, <2>7
<1>3. CASE FlushRedis
  <2>1. /\ main = "redis" /\ main' = "join"
        /\ UNCHANGED <<ctx, mtx, pending, pipeline, stored, taken, booked, flush_due, lossy>>
        /\ redis_pc' = [redis_pc EXCEPT ![Main] = IF ctx = "null" THEN "out" ELSE "flush"]
    BY <1>3 DEF FlushRedis, Flush, Goto, flowVars
  <2>2. /\ redis_pc'[Normalizer] = "out" /\ redis_pc'[Portfolio] = "out"
        /\ redis_pc[Normalizer] = "out" /\ redis_pc[Portfolio] = "out"
        /\ redis_pc'[Main] = IF ctx = "null" THEN "out" ELSE "flush"
    BY <2>1 DEF RedisInv, StageInv
  <2>3. StageInv'
    BY <2>1, <2>2 DEF StageInv
  <2>4. BufferInv'
    BY <1>1, <2>1, <2>2 DEF BufferInv, StageInv
  <2> QED
    BY <2>3, <2>4
<1> QED
  BY <1>2, <1>3

\* The lock of flush, and the end of its critical section
LEMMA FlushBounds ==
  ASSUME RedisState, NEW t \in RedisUsers, FlushLock(t) \/ FlushReconnect(t),
         UNCHANGED <<taken, booked, flush_due, lossy, main>>
  PROVE  StageInv' /\ BufferInv'
<1> USE TransportAssumption DEF RedisState
<1>1. (NoPosition <=> NoPosition') /\ (NewestPosition <=> NewestPosition')
  BY DEF FlushLock, FlushReconnect, NoPosition, NewestPosition
<1>2. CASE FlushLock(t)
  <2>1. /\ redis_pc[t] = "flush" /\ UNCHANGED <<ctx, pending, pipeline, stored>>
        /\ redis_pc' = IF ctx = "null" THEN redis_pc ELSE [redis_pc EXCEPT ![t] = "drain"]
    BY <1>2 DEF FlushLock
  <2>2. /\ redis_pc'[t] \in {"flush", "drain"}
        /\ \A u \in RedisUsers \ {t} : redis_pc'[u] = redis_pc[u]
    BY <2>1 DEF RedisInv
  <2>3. t # Normalizer
    BY <2>1 DEF StageInv
  <2>4. StageInv'
    BY <2>1, <2>2, <2>3 DEF StageInv
  <2>5. BufferInv'
    BY <1>1, <2>1, <2>2, <2>3 DEF BufferInv
  <2> QED
    BY <2>4, <2>5
<1>3. CASE FlushReconnect(t)
  <2>1. /\ redis_pc[t] = "reconnect" /\ UNCHANGED <<pending, pipeline, stored>>
        /\ redis_pc' = [redis_pc EXCEPT ![t] = "out"]
        /\ ctx' \in {"up", "null"}
    BY <1>3 DEF FlushReconnect
  <2>2. /\ redis_pc'[t] = "out"
        /\ \A u \in RedisUsers \ {t} : redis_pc'[u] = redis_pc[u]
    BY <2>1 DEF RedisInv
  <2>3. t # Normalizer /\ ~ flush_due /\ redis_pc[Portfolio] \in {"out", "reconnect"}
    BY <2>1 DEF StageInv
  <2>4. \A u \in RedisUsers \ {t} : redis_pc[u] # "reconnect"
    BY <2>1 DEF RedisInv
  <2>5. ctx = "null" /\ pipeline = << >>
    BY <2>1 DEF BufferInv
  <2>6. StageInv'
    BY <2>1, <2>2, <2>3 DEF StageInv
  <2>7. redis_pc'[Normalizer] = "append" => redis_pc[Normalizer] = "append"
    BY <2>2, <2>3
  <2>8. redis_pc'[Portfolio] = "out"
    BY <2>2, <2>3, <2>4
  <2>9. BufferInv'
    BY <1>1, <2>1, <2>2, <2>3, <2>4, <2>5, <2>7, <2>8 DEF BufferInv
  <2> QED
    BY <2>6, <2>9
<1> QED
  BY <1>2, <1>3

\* The buffer is sent, or part of it, and lost with the context.
LEMMA Drained ==
  ASSUME RedisState, NEW t \in RedisUsers, RedisDrain(t)
  PROVE  StageInv' /\ BufferInv'
<1> USE TransportAssumption DEF RedisState
<1>1. PICK n \in 0 .. Len(pipeline) :
        FlushDrain(t, n) /\ lossy' = (lossy \/ n < Len(pipeline))
  BY DEF RedisDrain
<1>2. /\ redis_pc[t] = "drain" /\ stored' = StoredAfter(n) /\ pipeline' = << >> /\ ctx' = "null"
      /\ redis_pc' = [redis_pc EXCEPT ![t] = "reconnect"]
      /\ UNCHANGED <<pending, taken, booked, flush_due, main>>
  BY <1>1 DEF FlushDrain, RedisDrain
<1>3. /\ redis_pc'[t] = "reconnect"
      /\ \A u \in RedisUsers \ {t} : redis_pc'[u] = redis_pc[u]
  BY <1>2 DEF RedisInv
<1>4. t # Normalizer /\ ~ flush_due /\ (t = Main => redis_pc[Portfolio] = "out")
  BY <1>2 DEF StageInv
<1>5. /\ lossy' \in BOOLEAN
      /\ ~ lossy' => ~ lossy /\ n = Len(pipeline)
  <2>1. lossy' \in BOOLEAN
    BY <1>1, Zenon
  <2>2. ~ lossy' => ~ lossy /\ ~ (n < Len(pipeline))
    BY <1>1, Zenon
  <2>3. Len(pipeline) \in Nat
    BY DEF BufferInv
  <2> QED
    BY <2>1, <2>2, <2>3
<1>6. StageInv'
  BY <1>2, <1>3, <1>4, <1>5 DEF StageInv
<1>7. NoPosition'
  BY <1>2 DEF NoPosition
<1>8. ~ lossy' => stored'["position"] = booked
  <2>1. CASE t = Portfolio
    BY <1>2, <1>5, <2>1, PositionDrained DEF BufferInv
  <2>2. CASE t = Main
    <3>1. NoPosition /\ (~ lossy => stored["position"] = booked)
      BY <1>4, <2>2 DEF BufferInv
    <3>2. stored'["position"] = stored["position"]
      BY <1>2, <3>1, NothingDrained
    <3> QED
      BY <1>5, <3>1, <3>2
  <2> QED
    BY <1>4, <2>1, <2>2
<1>9. redis_pc'[Portfolio] \in {"out", "reconnect"}
  BY <1>3, <1>4
<1>10. /\ pipeline' \in Seq(Commands)
       /\ redis_pc'[Normalizer] = redis_pc[Normalizer]
  BY <1>2, <1>3, <1>4
<1>11. BufferInv'
  BY <1>2, <1>4, <1>7, <1>8, <1>9, <1>10 DEF BufferInv
<1> QED
  BY <1>6, <1>11

LEMMA RedisStateInvariance == TransportSpec => [](StageInv /\ BufferInv)
<1>1. ASSUME RedisState, [TransportNext]_transportVars
      PROVE  StageInv' /\ BufferInv'
  <2> USE <1>1 DEF RedisState
  <2>1. ASSUME NEW t \in RedisUsers, RedisUse(t)
        PROVE  StageInv' /\ BufferInv'
    BY <2>1, Appended, FlushBounds, Drained DEF RedisUse, RedisCall, flowVars
  <2>2. CASE FeedStep \/ ConnectionBreaks \/ StopFeed \/ Tick \/ Fill \/ KafkaStep
             \/ UNCHANGED transportVars
    <3>1. UNCHANGED <<redisVars, taken, booked, flush_due, lossy, main>>
      BY <2>2 DEF FeedStep, ConnectionBreaks, StopFeed, Tick, Fill, KafkaStep, transportVars,
         flowVars
    <3> QED
      BY <3>1, RedisElsewhere
  <2>3. CASE Signal \/ StopIO \/ JoinNormalizer \/ JoinPortfolio \/ FlushKafka \/ JoinIO
    <3>1. UNCHANGED <<redisVars, taken, booked, flush_due, lossy>>
      BY <2>3 DEF Signal, StopIO, JoinNormalizer, JoinPortfolio, FlushKafka, JoinIO, flowVars
    <3> QED
      BY <2>3, <3>1, RedisElsewhere
  <2> QED
    BY <2>1, <2>2, <2>3, TickWritten, PositionWritten, FlushBegun, TransportAssumption
    DEF TransportNext, IOThread, PortfolioThread, MainThread, ShutdownStep
<1> QED
  BY <1>1, RedisStateInit, RedisInvariance, PTL DEF TransportSpec, RedisState

\* Between two fills Redis has the newest position unless a connection failed: the
\* normalizer's ticks in the same buffer neither hold it back nor overtake it.
THEOREM RedisHasNewestPosition == TransportSpec => []PositionsReachRedis
<1>1. BufferInv => PositionsReachRedis
  BY DEF BufferInv, PositionsReachRedis
<1> QED
  BY <1>1, RedisStateInvariance, PTL

\* main's last flush leaves nothing behind: whoever could write has been joined.
THEOREM RedisBufferEmptied == TransportSpec => []NothingLeftBehind
<1>1. BufferInv => NothingLeftBehind
  BY DEF BufferInv, NothingLeftBehind
<1> QED
  BY <1>1, RedisStateInvariance, PTL
=============================================================================
