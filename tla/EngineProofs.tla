---------------------------- MODULE EngineProofs ----------------------------
(***************************************************************************)
(* For every number of strategies, ticks and orders: no plugin is unloaded *)
(* while one of the three threads that make callbacks is inside it or will *)
(* call it again.                                                          *)
(***************************************************************************)
EXTENDS Engine, TLAPS

Starting == {"load", "push"}
Working == {"up", "call", "sweep", "cancel", "sleep", "join"}
Stopping == {"stop", "on_stop", "join_strategy"}
Ending == {"destroy", "done", "crashed"}

\* The types of what concerns the plugins
PluginTypes ==
  /\ lib \in [Strategies -> {"none", "open", "closed"}]
  /\ running \in [Strategies -> BOOLEAN]
  /\ thread \in [Strategies -> {"none", "on_start", "loop", "took", "on_tick", "on_stop",
                                "done"}]
  /\ listed \subseteq Strategies
  /\ candle \in [at : 0 .. N, in : BOOLEAN]
  /\ candle.at = 0 => ~ candle.in
  /\ main \in [pc : Starting \cup Working \cup Stopping \cup Ending, at : Nat]

\* What is listed was loaded; the normalizer is in a plugin only while none is
\* unloaded, and gone when stop_all begins; stop_all has unloaded those before the
\* one it is at, each after its thread had ended.
LoadInv ==
  /\ \A i \in listed : lib[i] # "none"
  /\ main.pc = "push" => main.at \in Strategies /\ lib[main.at] # "none"
  /\ main.pc \in {"call", "on_stop", "join_strategy"} => main.at \in listed
  /\ candle.in => candle.at \in listed
  /\ main.pc \notin Working => candle.at = 0
  /\ main.pc \in Starting \cup Working => \A i \in Strategies : lib[i] # "closed"
  /\ main.pc \in Stopping => \A i \in Strategies : lib[i] = "closed" => i < main.at
  /\ \A i \in Strategies : thread[i] \notin {"none", "done"} => lib[i] = "open"

PluginInv == PluginTypes /\ LoadInv

LEMMA PluginInvImplies == PluginInv => CallbacksBeforeUnload
<1> SUFFICES ASSUME PluginInv, NEW i \in Strategies, lib[i] # "open"
             PROVE  ~ InCallback(i) /\ ~ MainCalls(i) /\ thread[i] \in {"none", "done"}
  BY DEF CallbacksBeforeUnload
<1> USE DEF PluginInv, PluginTypes, LoadInv
<1>1. thread[i] \in {"none", "done"}
  OBVIOUS
<1>2. candle # [at |-> i, in |-> TRUE]
  <2>1. SUFFICES ASSUME candle = [at |-> i, in |-> TRUE] PROVE FALSE
    OBVIOUS
  <2>2. i \in listed /\ candle.at # 0
    BY <2>1 DEF Strategies
  <2>3. main.pc \in Working
    BY <2>2
  <2> QED
    BY <2>2, <2>3
<1>3. ~ MainCalls(i)
  <2>1. SUFFICES ASSUME main.pc \in {"call", "on_stop"}, main.at = i PROVE FALSE
    BY DEF MainCalls
  <2>2. lib[i] # "none" /\ lib[i] = "closed"
    BY <2>1
  <2> QED
    BY <2>1, <2>2 DEF Working, Stopping, Strategies
<1> QED
  BY <1>1, <1>2, <1>3 DEF InCallback

LEMMA PluginInit == EngineInit => PluginInv
BY StrategyAssumption
DEF EngineInit, ManagerInit, NoCandle, PluginInv, PluginTypes, LoadInv, Starting, Working,
    Stopping, Ending

\* Steps that leave the plugins and main alone
LEMMA Elsewhere ==
  ASSUME PluginInv, UNCHANGED <<lib, listed, running, thread, candle, main>>
  PROVE  PluginInv'
BY DEF PluginInv, PluginTypes, LoadInv

\* A strategy's own thread: it goes on only if it is neither unborn nor ended.
LEMMA ThreadStep ==
  ASSUME PluginInv, NEW i \in Strategies, StrategyStep(i)
  PROVE  PluginInv'
<1> USE DEF PluginInv, PluginTypes, LoadInv
<1>1. /\ thread[i] \notin {"none", "done"}
      /\ UNCHANGED <<lib, listed, candle, main>>
      /\ running' \in [Strategies -> BOOLEAN]
  BY DEF StrategyStep, StrategyThread, Started, TryConsume, CacheTick, TickDone, LeaveLoop,
     ThreadEnds
<1>2. PICK pc \in {"loop", "done", "took", "on_tick", "on_stop"} :
        thread' = [thread EXCEPT ![i] = pc]
  BY DEF StrategyStep, StrategyThread, Started, TryConsume, CacheTick, TickDone, LeaveLoop,
     ThreadEnds
<1> QED
  BY <1>1, <1>2

\* The normalizer calls only listed strategies, and only before stop_all.
LEMMA NormalizerStep ==
  ASSUME PluginInv, Normalizer
  PROVE  PluginInv'
<1> USE DEF PluginInv, PluginTypes, LoadInv, Normalizer
<1>1. CASE UNCHANGED candle
  BY <1>1, Elsewhere DEF PublishTick, DispatchBegin, DispatchCandle, DispatchCall, DispatchNext
<1>2. CASE NormalizerOn /\ DispatchBegin
  <2>1. candle' = [at |-> 1, in |-> FALSE] /\ 1 \in 0 .. N /\ main.pc \in Working
    BY <1>2, StrategyAssumption DEF DispatchBegin, NormalizerOn, Working
  <2> QED
    BY <1>2, <2>1 DEF DispatchBegin
<1>3. CASE DispatchCall
  BY <1>3 DEF DispatchCall, DispatchHoldsMutex
<1>4. CASE DispatchNext
  <2>1. candle' \in [at : 0 .. N, in : {FALSE}] /\ main.pc \in Working
    BY <1>4, StrategyAssumption DEF DispatchNext, DispatchHoldsMutex, NoCandle
  <2> QED
    BY <1>4, <2>1 DEF DispatchNext
<1> QED
  BY <1>1, <1>2, <1>3, <1>4 DEF PublishTick, DispatchCandle

LEMMA StartSteps ==
  ASSUME PluginInv, StartStep
  PROVE  PluginInv'
<1> USE StrategyAssumption DEF PluginInv, PluginTypes, LoadInv, Starting, Working, Stopping,
        Ending, Goto, Strategies
<1>1. CASE LoadFails
  BY <1>1 DEF LoadFails, managerVars
<1>2. CASE LoadStrategy
  BY <1>2 DEF LoadStrategy, Spawn
<1>3. CASE ListStrategy
  <2>1. /\ main.at \in Strategies /\ lib[main.at] # "none"
        /\ listed' = listed \cup {main.at}
        /\ main' = [pc |-> "load", at |-> main.at + 1]
        /\ candle.at = 0 /\ \A i \in Strategies : lib[i] # "closed"
        /\ UNCHANGED <<lib, running, thread, candle>>
    BY <1>3 DEF ListStrategy, PushBack
  <2>2. main' \in [pc : Starting \cup Working \cup Stopping, at : Nat]
    BY <2>1
  <2>3. PluginTypes'
    BY <2>1, <2>2
  <2>4. LoadInv'
    BY <2>1
  <2> QED
    BY <2>3, <2>4
<1>4. CASE Up
  BY <1>4 DEF Up, managerVars
<1> QED
  BY <1>1, <1>2, <1>3, <1>4 DEF StartStep

LEMMA MonitorSteps ==
  ASSUME PluginInv, MonitorStep
  PROVE  PluginInv'
<1> USE DEF PluginInv, PluginTypes, LoadInv, Starting, Working, Stopping, Ending, Goto
<1>1. ASSUME NEW i \in Strategies, EnterCall(i) PROVE PluginInv'
  BY <1>1 DEF EnterCall, managerVars, Strategies
<1>2. CASE LeaveCall \/ Signal
  BY <1>2 DEF LeaveCall, Signal, managerVars
<1>3. CASE LeaveHalt
  BY <1>3 DEF LeaveHalt, ClearRunning
<1> QED
  BY <1>1, <1>2, <1>3 DEF MonitorStep

\* main's shutdown up to the join of the normalizer
LEMMA BeforeStop ==
  ASSUME PluginInv,
         Sweep \/ (\E o \in Orders : Cancel(o)) \/ Sleep \/ StopIO \/ JoinNormalizer
  PROVE  PluginInv'
<1> USE DEF PluginInv, PluginTypes, LoadInv, Starting, Working, Stopping, Ending, Goto
<1>1. CASE Sweep
  BY <1>1 DEF Sweep, managerVars
<1>2. CASE \E o \in Orders : Cancel(o)
  BY <1>2, Elsewhere DEF Cancel, managerVars
<1>3. CASE Sleep
  BY <1>3 DEF Sleep, managerVars
<1>4. CASE StopIO
  BY <1>4 DEF StopIO, managerVars
<1>5. CASE JoinNormalizer
  BY <1>5 DEF JoinNormalizer, managerVars, DispatchHoldsMutex
<1> QED
  BY <1>1, <1>2, <1>3, <1>4, <1>5

\* stop_all
LEMMA StopAll ==
  ASSUME PluginInv, StopStrategy \/ StopFlag \/ StopJoin \/ StopClear \/ Destroy \/ Done
  PROVE  PluginInv'
<1> USE DEF PluginInv, PluginTypes, LoadInv, Starting, Working, Stopping, Ending, Goto,
        Strategies
<1>1. CASE StopStrategy
  BY <1>1 DEF StopStrategy, managerVars
<1>2. CASE StopFlag
  BY <1>2 DEF StopFlag, ClearRunning
<1>3. CASE StopJoin
  <2> DEFINE k == main.at
  <2>1. /\ k \in Strategies /\ thread[k] = "done"
        /\ lib' = [lib EXCEPT ![k] = "closed"]
        /\ main' = [pc |-> "stop", at |-> k + 1]
        /\ UNCHANGED <<listed, running, thread, candle>>
    BY <1>3 DEF StopJoin, JoinAndClose
  <2>2. PluginTypes'
    BY <2>1
  <2>3. \A i \in Strategies : lib'[i] = "closed" => i < k + 1
    BY <1>3, <2>1 DEF StopJoin
  <2>4. LoadInv'
    BY <1>3, <2>1, <2>3 DEF StopJoin
  <2> QED
    BY <2>2, <2>4
<1>4. CASE StopClear
  BY <1>4 DEF StopClear, managerVars
<1>5. CASE Destroy
  <2>1. /\ main.at \in Nat /\ main'.pc \in Ending /\ main' \in [pc : Ending, at : Nat]
        /\ listed' \subseteq listed /\ candle.at = 0
        /\ UNCHANGED <<lib, running, thread, candle>>
    BY <1>5 DEF Destroy, DestroyInstance
  <2> QED
    BY <2>1
<1>6. CASE Done
  BY <1>6 DEF Done, managerVars
<1> QED
  BY <1>1, <1>2, <1>3, <1>4, <1>5, <1>6

LEMMA PluginInvariance == EngineSpec => []PluginInv
<1>1. ASSUME PluginInv, [EngineNext]_engineVars
      PROVE  PluginInv'
  <2>1. CASE \E o \in Orders : Submit(o) \/ IOThread(o) \/ Exchange(o)
    BY <1>1, <2>1, Elsewhere DEF Submit, IOThread, Exchange, managerVars
  <2>2. CASE Ended \/ UNCHANGED engineVars
    BY <1>1, <2>2, Elsewhere DEF Ended, engineVars, managerVars
  <2> QED
    BY <1>1, <2>1, <2>2, ThreadStep, NormalizerStep, StartSteps, MonitorSteps, BeforeStop,
       StopAll DEF EngineNext, ShutdownStep
<1> QED
  BY <1>1, PluginInit, PTL DEF EngineSpec

\* However many strategies there are and whatever they are doing, main's shutdown
\* and stop_all unload a plugin only when no callback of it is running and none will be
\* made.  The destructors that run after dlclose are not covered: see Destroy.
THEOREM NoCallbackAfterUnload == EngineSpec => []CallbacksBeforeUnload
BY PluginInvariance, PluginInvImplies, PTL
=============================================================================
