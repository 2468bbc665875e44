------------------------------ MODULE Momentum ------------------------------
(***************************************************************************)
(* strategy/plugins/momentum_strategy: entries on a signal, exits by stop  *)
(* or target, the flattening of on_stop and on_kill_signal, and the belief *)
(* about each instrument's position that on_order_fill keeps.              *)
(*                                                                         *)
(* Nothing in the plugin is locked.  on_tick and the last on_stop run on   *)
(* the strategy's thread, on_candle on the normalizer's, on_kill_signal    *)
(* and stop_all's on_stop on main.  on_order_fill is for dispatch_fill,    *)
(* which nothing in the repository calls: a fill arrives either as         *)
(* main.cpp treats it, and the strategy hears nothing (FillArrives), or    *)
(* through the manager's public dispatch_fill (FillDispatched).  on_candle,*)
(* on_kill_signal and on_order_fill hold the manager's mtx_ (module        *)
(* StrategyManager).                                                       *)
(*                                                                         *)
(* Prices and indicators only decide whether there is a signal and whether *)
(* a stop or target is hit: both are free here.  states_ has an entry for  *)
(* every instrument.                                                       *)
(***************************************************************************)
EXTENDS Integers, FiniteSets

CONSTANTS
  Instruments,
  NoInstrument,
  COOLDOWN,          \* 300 s between two signals
  max_positions,
  Quantities,        \* what compute_qty returns
  MaxOrders,         \* bound: orders
  MaxTime            \* bound: the clock

ASSUME MomentumAssumption ==
  /\ NoInstrument \notin Instruments
  /\ COOLDOWN \in Nat \ {0} /\ max_positions \in Nat
  /\ Quantities \subseteq Nat
  /\ MaxOrders \in Nat /\ MaxTime \in Nat

VARIABLES
  state,       \* states_: in_position, position_side, position_qty, last_signal_ts
  alive,       \* alive_
  running,     \* the strategy manager's flag: the strategy's thread goes on
  call,        \* per thread that exits positions: where it is
  halting,     \* main is in halt_strategy
  deciding,    \* the normalizer is between evaluate_signal's tests and try_entry
  now,         \* now_ns
  orders,      \* orders that were submitted and not answered in full
  sent,        \* orders submitted so far
  opened,      \* ghost: fills taken for an opening fill
  exits        \* ghost: exits placed

callVars == <<running, call, halting, deciding>>
ghostVars == <<opened, exits>>
momentumVars == <<state, alive, callVars, now, orders, sent, ghostVars>>

BUY == 1
SELL == -1
Exiters == {"strategy", "main"}
Idle == [pc |-> "idle", at |-> NoInstrument, todo |-> {}, last |-> FALSE]

\* on_start; now_ns is far from 0, so that the first signal is not held back
MomentumInit ==
  /\ state = [i \in Instruments |->
                [in_position |-> FALSE, side |-> BUY, qty |-> 0, last_signal_ts |-> 0]]
  /\ alive = TRUE /\ running = TRUE
  /\ call = [t \in Exiters |-> Idle]
  /\ halting = FALSE /\ deciding = NoInstrument
  /\ now = COOLDOWN
  /\ orders = {} /\ sent = 0
  /\ opened = [i \in Instruments |-> 0]
  /\ exits = [i \in Instruments |-> 0]

ClockTicks ==
  /\ now < MaxTime
  /\ now' = now + 1
  /\ UNCHANGED <<state, alive, callVars, orders, sent, ghostVars>>

\* Nobody holds the manager's mtx_.
MutexFree == deciding = NoInstrument /\ ~ halting

\* place_market: submit_order takes the order or refuses it, which is only logged.
PlaceMarket(i, side, qty, entry) ==
  \/ /\ sent < MaxOrders
     /\ orders' = orders \cup
          {[id |-> sent + 1, at |-> i, side |-> side, left |-> qty, ts |-> now,
            entry |-> entry]}
     /\ sent' = sent + 1
  \/ UNCHANGED <<orders, sent>>

-----------------------------------------------------------------------------
(* Entries, on the normalizer's thread *)

\* mutant: no pause between two signals
EvaluateSignalAtOnce(i) ==
  /\ running /\ MutexFree /\ call["main"] = Idle
  /\ ~ state[i].in_position
  /\ deciding' = i
  /\ UNCHANGED <<state, alive, running, call, halting, now, orders, sent, ghostVars>>

\* dispatch_candle, on_candle, evaluate_signal: the series is long enough and the
\* averages are far enough apart, which is free here.  The normalizer is joined
\* before stop_all.
EvaluateSignal(i) ==
  /\ running /\ MutexFree /\ call["main"] = Idle
  /\ now - state[i].last_signal_ts >= COOLDOWN
  /\ ~ state[i].in_position
  /\ deciding' = i
  /\ UNCHANGED <<state, alive, running, call, halting, now, orders, sent, ghostVars>>

\* Positions of the map, not orders under way, are counted against max_positions.
Active == {i \in Instruments : state[i].in_position}

\* try_entry; last_signal_ts is set before the order is placed, and also if the order
\* is refused.
TryEntry ==
  /\ deciding # NoInstrument
  /\ deciding' = NoInstrument
  /\ Cardinality(Active) < max_positions
  /\ state' = [state EXCEPT ![deciding].last_signal_ts = now]
  /\ \E side \in {BUY, SELL}, qty \in Quantities \ {0} :
       PlaceMarket(deciding, side, qty, TRUE)
  /\ UNCHANGED <<alive, running, call, halting, now, ghostVars>>

\* Too many positions, or no volatility, or compute_qty has nothing to spend
NoEntry ==
  /\ deciding # NoInstrument
  /\ Cardinality(Active) < max_positions => 0 \in Quantities
  /\ deciding' = NoInstrument
  /\ UNCHANGED <<state, alive, running, call, halting, now, orders, sent, ghostVars>>

-----------------------------------------------------------------------------
(* Exits: manage_position, on the strategy's thread, and eod_flatten_all, on two *)

\* on_tick: the position's stop or target is hit.
StopOrTargetHit(i) ==
  /\ running /\ alive /\ call["strategy"] = Idle
  /\ state[i].in_position
  /\ call' = [call EXCEPT !["strategy"] = [Idle EXCEPT !.pc = "exit", !.at = i]]
  /\ UNCHANGED <<state, alive, running, halting, deciding, now, orders, sent, ghostVars>>

Flattening(t) ==
  /\ call[t] = Idle
  /\ alive' = FALSE
  /\ call' = [call EXCEPT ![t] = [Idle EXCEPT !.pc = "flatten", !.todo = Instruments,
                                              !.last = (t = "strategy")]]
  /\ UNCHANGED <<state, running, deciding, now, orders, sent, ghostVars>>

\* on_stop: the strategy's thread calls it when it ends, main in stop_all.
OnStop(t) ==
  /\ Flattening(t)
  /\ IF t = "strategy" THEN ~ running ELSE deciding = NoInstrument
  /\ UNCHANGED halting

\* on_kill_signal, in halt_strategy
OnKillSignal ==
  /\ MutexFree
  /\ Flattening("main")
  /\ halting' = TRUE

\* eod_flatten_all looks at the next instrument.
FlattenNext(t) ==
  /\ call[t].pc = "flatten"
  /\ \E i \in call[t].todo :
       call' = [call EXCEPT
                 ![t].pc = IF state[i].in_position THEN "exit" ELSE "flatten",
                 ![t].at = IF state[i].in_position THEN i ELSE NoInstrument,
                 ![t].todo = @ \ {i}]
  /\ UNCHANGED <<state, alive, running, halting, deciding, now, orders, sent, ghostVars>>

\* The callback, on_tick too, returns.  After the one on main the manager clears
\* running; after on_stop the strategy's thread ends.
Returns(t) ==
  /\ call[t].pc = "flatten" /\ call[t].todo = {}
  /\ call' = [call EXCEPT ![t] = IF @.last THEN [Idle EXCEPT !.pc = "ended"] ELSE Idle]
  /\ IF t = "main" THEN running' = FALSE /\ halting' = FALSE
                   ELSE UNCHANGED <<running, halting>>
  /\ UNCHANGED <<state, alive, deciding, now, orders, sent, ghostVars>>

\* place_market(token, close_side, s.position_qty, ...)
PlaceExit(t) ==
  LET i == call[t].at IN
  /\ call[t].pc = "exit"
  /\ PlaceMarket(i, - state[i].side, state[i].qty, FALSE)
  /\ call' = [call EXCEPT ![t].pc = "clear"]
  /\ exits' = [exits EXCEPT ![i] = @ + 1]
  /\ UNCHANGED <<state, alive, running, halting, deciding, now, opened>>

\* mutant: left to the closing fill
ClearPositionNot(t) ==
  /\ call[t].pc = "clear"
  /\ call' = [call EXCEPT ![t].pc = "flatten", ![t].at = NoInstrument]
  /\ UNCHANGED <<state, alive, running, halting, deciding, now, orders, sent, ghostVars>>

\* s.in_position = false, without waiting for the fill
ClearPosition(t) ==
  /\ call[t].pc = "clear"
  /\ state' = [state EXCEPT ![call[t].at].in_position = FALSE]
  /\ call' = [call EXCEPT ![t].pc = "flatten", ![t].at = NoInstrument]
  /\ UNCHANGED <<alive, running, halting, deciding, now, orders, sent, ghostVars>>

-----------------------------------------------------------------------------
(* The broker's answers *)

\* on_order_fill of n shares: what opens and what closes is told by in_position alone.
OnOrderFill(o, n) ==
  IF state[o.at].in_position
    THEN /\ state' = [state EXCEPT ![o.at].in_position = FALSE, ![o.at].qty = 0]
         /\ UNCHANGED opened
    ELSE /\ state' = [state EXCEPT ![o.at].in_position = TRUE,
                                   ![o.at].side = o.side, ![o.at].qty = n]
         /\ opened' = [opened EXCEPT ![o.at] = @ + 1]

\* The exchange fills n shares of the order, all that is left of it or a part.
Filled(o, n) ==
  orders' = (orders \ {o}) \cup (IF n < o.left THEN {[o EXCEPT !.left = @ - n]} ELSE {})

\* The fill callback of main.cpp updates the price cache and Kafka, and tells the
\* strategy nothing.
FillArrives(o) ==
  \E n \in 1 .. o.left :
    /\ Filled(o, n)
    /\ UNCHANGED <<state, alive, callVars, now, sent, ghostVars>>

\* dispatch_fill, for whoever calls it
FillDispatched(o) ==
  \E n \in 1 .. o.left :
    /\ MutexFree
    /\ Filled(o, n)
    /\ OnOrderFill(o, n)
    /\ UNCHANGED <<alive, callVars, now, sent, exits>>

\* on_order_reject only logs.
OnOrderReject(o) ==
  /\ orders' = orders \ {o}
  /\ UNCHANGED <<state, alive, callVars, now, sent, ghostVars>>

-----------------------------------------------------------------------------
MomentumNext ==
  \/ ClockTicks
  \/ \E i \in Instruments : EvaluateSignal(i) \/ StopOrTargetHit(i)
  \/ TryEntry \/ NoEntry \/ OnKillSignal
  \/ \E t \in Exiters :
       OnStop(t) \/ FlattenNext(t) \/ Returns(t) \/ PlaceExit(t) \/ ClearPosition(t)
  \/ \E o \in orders : FillArrives(o) \/ FillDispatched(o) \/ OnOrderReject(o)

MomentumSpec == MomentumInit /\ [][MomentumNext]_momentumVars

-----------------------------------------------------------------------------
\* Two entries under way for one instrument are a whole cooldown apart, although
\* evaluate_signal tests the pause, try_entry notes the time later, and neither looks
\* at the orders under way nor at those that were refused.
EntriesSpaced ==
  \A o, p \in orders :
    o # p /\ o.entry /\ p.entry /\ o.at = p.at
      => o.ts - p.ts >= COOLDOWN \/ p.ts - o.ts >= COOLDOWN

\* A position that a fill opened is closed by one exit while the strategy runs,
\* although the position counts as closed before the exit is filled.  Once on_stop or
\* on_kill_signal has begun on main, beside on_tick or on_stop on the strategy's own
\* thread, each of the two threads may close it, and no more than that.
OneExitPerThread ==
  \A i \in Instruments : exits[i] <= IF alive THEN opened[i] ELSE 2 * opened[i]
=============================================================================
