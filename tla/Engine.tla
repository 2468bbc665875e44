------------------------------- MODULE Engine -------------------------------
(***************************************************************************)
(* main/main.cpp around the strategies: start_all, the monitor loop and    *)
(* the shutdown in main's order, with the orders the strategies send       *)
(* through the IO thread in live mode.  What OMS models step by step is    *)
(* one step here: an order is posted (the REST call waits for the IO       *)
(* thread), works at the exchange, and is closed by it; a cancel is posted *)
(* as well, and the order works on until the IO thread has sent it.        *)
(*                                                                         *)
(* Transport has the parts of the shutdown left out here: the WebSocket,   *)
(* Kafka and Redis.                                                        *)
(***************************************************************************)
EXTENDS StrategyManager

CONSTANT MaxOrders   \* bound: orders

ASSUME OrdersAssumption == MaxOrders \in Nat

VARIABLES
  main,      \* the main thread: [pc, at: the strategy it is concerned with]
  ioc,       \* "running" or "stopped"
  order,     \* per order: its state
  todo       \* the orders cancel_all_open has still to cancel

tradeVars == <<ioc, order, todo>>
engineVars == <<managerVars, main, tradeVars>>

Orders == 1 .. MaxOrders

EngineInit ==
  /\ ManagerInit
  /\ main = [pc |-> "load", at |-> 1]
  /\ ioc = "running"
  /\ order = [o \in Orders |-> "none"]
  /\ todo = {}

Goto(pc, at) == main' = [pc |-> pc, at |-> at]

-----------------------------------------------------------------------------
(* Orders *)

\* Main calls plugin i: on_stop from stop_all, or a callback from halt_strategy,
\* update_params or dispatch_fill.
MainCalls(i) == main.pc \in {"call", "on_stop"} /\ main.at = i

\* Main is inside the code of plugin i also in the destructor of the instance, which
\* strategies_.clear() runs.
MainInPlugin(i) == MainCalls(i) \/ (main = [pc |-> "destroy", at |-> i] /\ i \in listed)

\* Some callback submits an order; also after ioc.stop(), where nobody reads the
\* answer that it will never be sent.
Submit(o) ==
  /\ \E i \in Strategies : InCallback(i) \/ MainInPlugin(i)
  /\ order[o] = "none"
  /\ \A p \in 1 .. o - 1 : order[p] # "none"
  /\ order' = [order EXCEPT ![o] = "posted"]
  /\ UNCHANGED <<managerVars, main, ioc, todo>>

\* What only the IO thread does: it places an order, which the exchange accepts or
\* rejects, and it sends a cancel.
SentMoves ==
  {<<"posted", "working">>, <<"posted", "closed">>, <<"cancel_posted", "cancelling">>}

IOThread(o) ==
  /\ ioc = "running"
  /\ \E move \in SentMoves :
       order[o] = move[1] /\ order' = [order EXCEPT ![o] = move[2]]
  /\ UNCHANGED <<managerVars, main, ioc, todo>>

\* The exchange fills an order, cancels it or refuses to; the answer to a cancel is
\* only logged.  "closed" is the end of an order at the exchange.
ExchangeMoves ==
  {<<"working", "closed">>, <<"cancel_posted", "closed">>, <<"cancelling", "closed">>,
   <<"cancelling", "refused">>}

Exchange(o) ==
  /\ \E move \in ExchangeMoves :
       order[o] = move[1] /\ order' = [order EXCEPT ![o] = move[2]]
  /\ UNCHANGED <<managerVars, main, ioc, todo>>

-----------------------------------------------------------------------------
(* main: start_all *)

LoadFails ==
  /\ main.pc = "load" /\ main.at \in Strategies
  /\ Goto("load", main.at + 1)
  /\ UNCHANGED <<managerVars, tradeVars>>

LoadStrategy ==
  /\ main.pc = "load" /\ main.at \in Strategies
  /\ Spawn(main.at)
  /\ Goto("push", main.at)
  /\ UNCHANGED tradeVars

ListStrategy ==
  /\ main.pc = "push"
  /\ PushBack(main.at)
  /\ Goto("load", main.at + 1)
  /\ UNCHANGED tradeVars

\* normalizer.start(), and the rest of the start
Up ==
  /\ main.pc = "load" /\ main.at = N + 1
  /\ Goto("up", 0)
  /\ UNCHANGED <<managerVars, tradeVars>>

-----------------------------------------------------------------------------
(* The monitor loop.  halt_strategy, update_params and dispatch_fill have no  *)
(* caller yet; they are meant for it.  All hold mtx_ through the callback.    *)

EnterCall(i) ==
  /\ main.pc = "up" /\ i \in listed
  /\ ~ DispatchHoldsMutex
  /\ Goto("call", i)
  /\ UNCHANGED <<managerVars, tradeVars>>

LeaveCall ==
  /\ main.pc = "call"
  /\ Goto("up", 0)
  /\ UNCHANGED <<managerVars, tradeVars>>

\* halt_strategy, after on_kill_signal
LeaveHalt ==
  /\ main.pc = "call"
  /\ ClearRunning(main.at)
  /\ Goto("up", 0)
  /\ UNCHANGED tradeVars

Signal ==
  /\ main.pc = "up"
  /\ Goto("sweep", 0)
  /\ UNCHANGED <<managerVars, tradeVars>>

-----------------------------------------------------------------------------
(* The normalizer; it runs until main joins it. *)

NormalizerOn == main.pc \in {"up", "call", "sweep", "cancel", "sleep"}

Normalizer ==
  /\ \/ NormalizerOn /\ PublishTick
     \/ NormalizerOn /\ main.pc # "call" /\ DispatchBegin
     \/ DispatchCandle
  /\ UNCHANGED <<main, tradeVars>>

-----------------------------------------------------------------------------
(* Shutdown *)

\* oms.cancel_all_open(): the acknowledged orders are collected ...
Sweep ==
  /\ main.pc = "sweep"
  /\ todo' = {o \in Orders : order[o] = "working"}
  /\ Goto("cancel", 0)
  /\ UNCHANGED <<managerVars, ioc, order>>

\* ... and one by one, if still open, a cancel is posted to the IO thread.
Cancel(o) ==
  /\ main.pc = "cancel" /\ o \in todo
  /\ todo' = todo \ {o}
  /\ order' = [order EXCEPT ![o] = IF @ = "working" THEN "cancel_posted" ELSE @]
  /\ UNCHANGED <<managerVars, main, ioc>>

\* half a second; ws_handler.stop()
Sleep ==
  /\ main.pc = "cancel" /\ todo = {}
  /\ Goto("sleep", 0)
  /\ UNCHANGED <<managerVars, tradeVars>>

\* work_guard.reset(), ioc.stop(), the flag of normalizer.stop()
StopIO ==
  /\ main.pc = "sleep"
  /\ ioc' = "stopped"
  /\ Goto("join", 0)
  /\ UNCHANGED <<managerVars, order, todo>>

JoinNormalizer ==
  /\ main.pc = "join"
  /\ ~ DispatchHoldsMutex
  /\ Goto("stop", 1)
  /\ UNCHANGED <<managerVars, tradeVars>>

\* stop_all: on_stop is called on the main thread while the strategy's own thread
\* still runs ...
StopStrategy ==
  /\ main.pc = "stop" /\ main.at \in Strategies
  /\ IF main.at \in listed THEN Goto("on_stop", main.at) ELSE Goto("stop", main.at + 1)
  /\ UNCHANGED <<managerVars, tradeVars>>

\* ... the flag is cleared ...
StopFlag ==
  /\ main.pc = "on_stop"
  /\ ClearRunning(main.at)
  /\ Goto("join_strategy", main.at)
  /\ UNCHANGED tradeVars

\* ... and the library unloaded.
StopJoin ==
  /\ main.pc = "join_strategy"
  /\ JoinAndClose(main.at)
  /\ Goto("stop", main.at + 1)
  /\ UNCHANGED tradeVars

\* strategies_.clear() destroys the instances one after the other ...
StopClear ==
  /\ main.pc = "stop" /\ main.at = N + 1
  /\ Goto("destroy", 1)
  /\ UNCHANGED <<managerVars, tradeVars>>

\* ... and the destructor's code is that of the library, which dlclose has unmapped
\* unless the loader kept it.
Destroy ==
  /\ main.pc = "destroy" /\ main.at \in Strategies
  /\ DestroyInstance(main.at)
  /\ \/ Goto("destroy", main.at + 1)
     \/ main.at \in listed /\ lib[main.at] = "closed" /\ Goto("crashed", 0)
  /\ UNCHANGED tradeVars

\* portfolio.stop(), the flushes and io_thread.join() follow.
Done ==
  /\ main.pc = "destroy" /\ main.at = N + 1
  /\ Goto("done", 0)
  /\ UNCHANGED <<managerVars, tradeVars>>

ShutdownStep ==
  \/ Sweep \/ (\E o \in Orders : Cancel(o)) \/ Sleep \/ StopIO \/ JoinNormalizer
  \/ StopStrategy \/ StopFlag \/ StopJoin \/ StopClear \/ Destroy \/ Done

-----------------------------------------------------------------------------
StartStep == LoadFails \/ LoadStrategy \/ ListStrategy \/ Up
MonitorStep == (\E i \in Strategies : EnterCall(i)) \/ LeaveCall \/ LeaveHalt \/ Signal

StrategyStep(i) == StrategyThread(i) /\ UNCHANGED <<main, tradeVars>>

\* The process has ended.
Ended == main.pc \in {"done", "crashed"} /\ UNCHANGED engineVars

EngineNext ==
  \/ StartStep \/ MonitorStep \/ ShutdownStep
  \/ Normalizer
  \/ \E i \in Strategies : StrategyStep(i)
  \/ \E o \in Orders : Submit(o) \/ IOThread(o) \/ Exchange(o)
  \/ Ended

\* Every thread is scheduled and every callback of a plugin returns.
EngineFairness ==
  /\ WF_engineVars(ShutdownStep)
  /\ WF_engineVars(DispatchCandle /\ UNCHANGED <<main, tradeVars>>)
  /\ \A i \in Strategies : WF_engineVars(StrategyStep(i))

EngineSpec == EngineInit /\ [][EngineNext]_engineVars /\ EngineFairness

-----------------------------------------------------------------------------
\* No callback of a plugin is running, nor will its thread make one, once its library
\* is unloaded: stop_all holds no mutex, and it is the order of main's shutdown (the
\* normalizer is joined first) and of stop_all (the flag, the join, then dlclose) that
\* keeps the three threads which make callbacks away.  The destructor of the instance is
\* not a callback: Destroy runs it when the library is closed.
CallbacksBeforeUnload ==
  \A i \in Strategies :
    lib[i] # "open" =>
      ~ InCallback(i) /\ ~ MainCalls(i) /\ thread[i] \in {"none", "done"}

\* Once begun, the shutdown ends, whatever the strategies and the normalizer are
\* doing and although two callbacks of one strategy may run at once: no join waits
\* for a thread that waits for main.
EngineStops == main.pc = "sweep" ~> main.pc \in {"done", "crashed"}
=============================================================================
