-------------------------- MODULE StrategyManager --------------------------
(***************************************************************************)
(* strategy/strategy_manager.cpp: plugins are loaded, called from three    *)
(* threads (their own, the normalizer's with a candle, the main thread's)  *)
(* and unloaded.  A callback is entered and left in two steps.             *)
(*                                                                         *)
(* Ticks are numbered and reach a strategy in order, which is what         *)
(* TickDisruptor gives one that is not lapped; there is one instrument.    *)
(***************************************************************************)
EXTENDS Naturals

CONSTANTS
  N,          \* strategies in the configuration
  MaxTicks    \* bound: ticks published

ASSUME StrategyAssumption == N \in Nat /\ MaxTicks \in Nat

VARIABLES
  lib,         \* dl_handle: "none", "open", "closed"
  listed,      \* the strategies in strategies_
  running,     \* per strategy
  thread,      \* per strategy: where run_strategy_thread is
  ticks,       \* ticks the normalizer published
  cursor,      \* per strategy: the last tick it took
  last_tick,   \* last_tick_cache_
  candle       \* the normalizer's dispatch_candle: [at: strategy, in: called it]

managerVars == <<lib, listed, running, thread, ticks, cursor, last_tick, candle>>

Strategies == 1 .. N
NoCandle == [at |-> 0, in |-> FALSE]

ManagerInit ==
  /\ lib = [i \in Strategies |-> "none"]
  /\ listed = {}
  /\ running = [i \in Strategies |-> FALSE]
  /\ thread = [i \in Strategies |-> "none"]
  /\ ticks = 0
  /\ cursor = [i \in Strategies |-> 0]
  /\ last_tick = 0
  /\ candle = NoCandle

\* mtx_ is held through the whole of dispatch_candle.
DispatchHoldsMutex == candle.at # 0

-----------------------------------------------------------------------------
(* load_strategy.  When dlopen, dlsym or create_strategy fails the library is *)
(* closed again and nothing is left of the strategy.                          *)

\* The thread is spawned ...
Spawn(i) ==
  /\ lib' = [lib EXCEPT ![i] = "open"]
  /\ running' = [running EXCEPT ![i] = TRUE]
  /\ thread' = [thread EXCEPT ![i] = "on_start"]
  /\ UNCHANGED <<listed, ticks, cursor, last_tick, candle>>

\* ... before the strategy is in strategies_.
PushBack(i) ==
  /\ listed' = listed \cup {i}
  /\ UNCHANGED <<lib, running, thread, ticks, cursor, last_tick, candle>>

-----------------------------------------------------------------------------
(* run_strategy_thread *)

\* on_start returns, or throws and ends the thread.
Started(i) ==
  /\ thread[i] = "on_start"
  /\ \/ thread' = [thread EXCEPT ![i] = "loop"] /\ UNCHANGED running
     \/ /\ thread' = [thread EXCEPT ![i] = "done"]
        /\ running' = [running EXCEPT ![i] = FALSE]
  /\ UNCHANGED <<lib, listed, ticks, cursor, last_tick, candle>>

TryConsume(i) ==
  /\ thread[i] = "loop" /\ running[i]
  /\ cursor[i] < ticks
  /\ cursor' = [cursor EXCEPT ![i] = @ + 1]
  /\ thread' = [thread EXCEPT ![i] = "took"]
  /\ UNCHANGED <<lib, listed, running, ticks, last_tick, candle>>

\* last_tick_cache_[token] = tick; on_tick is called
CacheTick(i) ==
  /\ thread[i] = "took"
  /\ last_tick' = cursor[i]
  /\ thread' = [thread EXCEPT ![i] = "on_tick"]
  /\ UNCHANGED <<lib, listed, running, ticks, cursor, candle>>

\* on_tick returns or throws, which is caught.
TickDone(i) ==
  /\ thread[i] = "on_tick"
  /\ thread' = [thread EXCEPT ![i] = "loop"]
  /\ UNCHANGED <<lib, listed, running, ticks, cursor, last_tick, candle>>

\* mutant: running is tested only after a tick
LeaveLoopSpins(i) ==
  /\ thread[i] = "loop" /\ ~ running[i]
  /\ UNCHANGED managerVars

LeaveLoop(i) ==
  /\ thread[i] = "loop" /\ ~ running[i]
  /\ thread' = [thread EXCEPT ![i] = "on_stop"]
  /\ UNCHANGED <<lib, listed, running, ticks, cursor, last_tick, candle>>

ThreadEnds(i) ==
  /\ thread[i] = "on_stop"
  /\ thread' = [thread EXCEPT ![i] = "done"]
  /\ UNCHANGED <<lib, listed, running, ticks, cursor, last_tick, candle>>

StrategyThread(i) ==
  \/ Started(i) \/ TryConsume(i) \/ CacheTick(i) \/ TickDone(i)
  \/ LeaveLoop(i) \/ ThreadEnds(i)

-----------------------------------------------------------------------------
(* The normalizer's thread *)

PublishTick ==
  /\ ~ DispatchHoldsMutex /\ ticks < MaxTicks
  /\ ticks' = ticks + 1
  /\ UNCHANGED <<lib, listed, running, thread, cursor, last_tick, candle>>

\* dispatch_candle, of a candle the tick has completed
DispatchBegin ==
  /\ ~ DispatchHoldsMutex /\ N > 0
  /\ candle' = [at |-> 1, in |-> FALSE]
  /\ UNCHANGED <<lib, listed, running, thread, ticks, cursor, last_tick>>

\* The strategy is called if it runs and is subscribed ...
DispatchCall ==
  /\ DispatchHoldsMutex /\ ~ candle.in
  /\ candle.at \in listed /\ running[candle.at]
  /\ candle' = [candle EXCEPT !.in = TRUE]
  /\ UNCHANGED <<lib, listed, running, thread, ticks, cursor, last_tick>>

\* ... and the next one is looked at when on_candle returned, or at once.
DispatchNext ==
  /\ DispatchHoldsMutex
  /\ candle' = IF candle.at = N THEN NoCandle ELSE [at |-> candle.at + 1, in |-> FALSE]
  /\ UNCHANGED <<lib, listed, running, thread, ticks, cursor, last_tick>>

DispatchCandle == DispatchCall \/ DispatchNext

-----------------------------------------------------------------------------
(* Steps of calls on the main thread *)

ClearRunning(i) ==
  /\ running' = [running EXCEPT ![i] = FALSE]
  /\ UNCHANGED <<lib, listed, thread, ticks, cursor, last_tick, candle>>

\* mutant: the thread is detached instead of joined
JoinAndCloseDetached(i) ==
  /\ lib' = [lib EXCEPT ![i] = "closed"]
  /\ UNCHANGED <<listed, running, thread, ticks, cursor, last_tick, candle>>

\* stop_all: thread.join(), dlclose
JoinAndClose(i) ==
  /\ thread[i] = "done"
  /\ lib' = [lib EXCEPT ![i] = "closed"]
  /\ UNCHANGED <<listed, running, thread, ticks, cursor, last_tick, candle>>

\* strategies_.clear(), one element
DestroyInstance(i) ==
  /\ listed' = listed \ {i}
  /\ UNCHANGED <<lib, running, thread, ticks, cursor, last_tick, candle>>

-----------------------------------------------------------------------------
\* Strategy i's own thread or the normalizer's is inside the code of its plugin.
InCallback(i) ==
  \/ thread[i] \in {"on_start", "on_tick", "on_stop"}
  \/ candle = [at |-> i, in |-> TRUE]
=============================================================================
