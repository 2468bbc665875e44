--------------------------- MODULE MomentumProofs ---------------------------
(***************************************************************************)
(* The momentum strategy closes a position at most once per thread, and    *)
(* its entries for one instrument are a cooldown apart, for every number   *)
(* of instruments and orders, every quantity and every cooldown, whichever *)
(* of its fills are dispatched to it.                                      *)
(***************************************************************************)
EXTENDS Momentum, TLAPS

Positions == [in_position : BOOLEAN, side : {BUY, SELL}, qty : Nat, last_signal_ts : Nat]
Orders == [id : Nat, at : Instruments, side : {BUY, SELL}, left : Nat, ts : Nat,
           entry : BOOLEAN]
Calls == [pc : {"idle", "exit", "clear", "flatten", "ended"},
          at : Instruments \cup {NoInstrument}, todo : SUBSET Instruments, last : BOOLEAN]

StrategyTypes ==
  /\ state \in [Instruments -> Positions]
  /\ alive \in BOOLEAN
  /\ call \in [Exiters -> Calls]
  /\ deciding \in Instruments \cup {NoInstrument}
  /\ now \in Nat
  /\ orders \subseteq Orders
  /\ sent \in Nat
  /\ opened \in [Instruments -> Nat]
  /\ exits \in [Instruments -> Nat]

\* A thread that is about to place an exit, or has placed it, is at an instrument.
CallTypes ==
  \A t \in Exiters : call[t].pc \in {"exit", "clear"} => call[t].at \in Instruments

At(t, i, pc) == call[t].pc = pc /\ call[t].at = i

\* Exits of i that thread t may still place for positions opened so far
Pending(t, i) ==
  IF At(t, i, "exit") THEN 1
  ELSE IF At(t, i, "clear") \/ ~ state[i].in_position THEN 0 ELSE 1

\* While the strategy runs only its own thread exits, and every exit placed or
\* pending has an opening fill of its own; from then on, one for each thread.
ExitInv ==
  /\ alive => call["main"] = Idle
  /\ \A i \in Instruments :
       /\ state[i].in_position => opened[i] >= 1
       /\ alive => exits[i] + Pending("strategy", i) <= opened[i]
       /\ ~ alive => exits[i] + Pending("strategy", i) + Pending("main", i) <= 2 * opened[i]

\* An entry was sent no later than the last signal of its instrument, which is a
\* cooldown ago when the normalizer is on its way to the next.
EntryInv ==
  /\ \A i \in Instruments : state[i].last_signal_ts <= now
  /\ deciding # NoInstrument => now - state[deciding].last_signal_ts >= COOLDOWN
  /\ \A o \in orders : o.entry => o.ts <= state[o.at].last_signal_ts
  /\ EntriesSpaced

MomentumInv == StrategyTypes /\ CallTypes /\ ExitInv /\ EntryInv

LEMMA InvImplies == MomentumInv => EntriesSpaced /\ OneExitPerThread
<1> SUFFICES ASSUME MomentumInv PROVE EntriesSpaced /\ OneExitPerThread
  OBVIOUS
<1>1. EntriesSpaced
  BY DEF MomentumInv, EntryInv
<1>2. OneExitPerThread
  <2> SUFFICES ASSUME NEW i \in Instruments
               PROVE  exits[i] <= IF alive THEN opened[i] ELSE 2 * opened[i]
    BY DEF OneExitPerThread
  <2>1. Pending("strategy", i) \in {0, 1} /\ Pending("main", i) \in {0, 1}
    BY DEF Pending
  <2> QED
    BY <2>1 DEF MomentumInv, StrategyTypes, ExitInv
<1> QED
  BY <1>1, <1>2

LEMMA InvInit == MomentumInit => MomentumInv
<1> SUFFICES ASSUME MomentumInit PROVE MomentumInv
  OBVIOUS
<1> USE MomentumAssumption DEF MomentumInit, Idle, BUY, SELL
<1>1. StrategyTypes /\ CallTypes
  BY DEF StrategyTypes, CallTypes, Positions, Calls, Exiters
<1>2. ExitInv
  <2>1. \A i \in Instruments : Pending("strategy", i) = 0
    BY DEF Pending, At, Exiters
  <2> QED
    BY <2>1 DEF ExitInv, Exiters
<1>3. EntryInv
  BY DEF EntryInv, EntriesSpaced
<1> QED
  BY <1>1, <1>2, <1>3 DEF MomentumInv

\* place_market adds one order at most.
LEMMA Placed ==
  ASSUME StrategyTypes, NEW i \in Instruments, NEW side \in {BUY, SELL}, NEW q \in Nat,
         NEW entry \in BOOLEAN, PlaceMarket(i, side, q, entry)
  PROVE  /\ orders' \subseteq Orders /\ sent' \in Nat
         /\ \A o \in orders' : o \in orders \/ (o.at = i /\ o.ts = now /\ o.entry = entry)
         /\ \A o, p \in orders' \ orders : o = p
<1>1. CASE UNCHANGED <<orders, sent>>
  <2>1. orders' = orders /\ sent' = sent
    BY <1>1
  <2>2. orders' \subseteq Orders /\ sent' \in Nat
    BY <2>1 DEF StrategyTypes
  <2>3. \A o \in orders' : o \in orders
    BY <2>1
  <2> QED
    BY <2>2, <2>3
<1>2. CASE ~ UNCHANGED <<orders, sent>>
  <2> DEFINE new == [id |-> sent + 1, at |-> i, side |-> side, left |-> q, ts |-> now,
                     entry |-> entry]
  <2>1. orders' = orders \cup {new} /\ sent' = sent + 1
    BY <1>2 DEF PlaceMarket
  <2>2. new \in Orders /\ new.at = i /\ new.ts = now /\ new.entry = entry
    BY DEF StrategyTypes, Orders
  <2>3. orders' \subseteq Orders /\ sent' \in Nat
    BY <2>1, <2>2 DEF StrategyTypes
  <2>4. \A o \in orders' : o \in orders \/ o = new
    BY <2>1
  <2> QED
    BY <2>2, <2>3, <2>4
<1> QED
  BY <1>1, <1>2

\* Steps that send no entry and leave the times alone; orders may be answered.
LEMMA EntryElsewhere ==
  ASSUME MomentumInv, UNCHANGED <<deciding, now>>,
         \A i \in Instruments : state'[i].last_signal_ts = state[i].last_signal_ts,
         orders' \subseteq Orders, \A o \in orders' : o.entry => o \in orders
  PROVE  EntryInv'
<1> USE DEF MomentumInv, StrategyTypes, EntryInv
<1>1. \A o \in orders' : o.entry => o.ts <= state'[o.at].last_signal_ts
  BY DEF Orders
<1>2. EntriesSpaced'
  BY DEF EntriesSpaced
<1> QED
  BY <1>1, <1>2, MomentumAssumption

LEMMA ExitElsewhere ==
  ASSUME MomentumInv, UNCHANGED <<state, alive, call, opened, exits>>
  PROVE  ExitInv'
<1>1. \A t \in Exiters, i \in Instruments : Pending(t, i)' = Pending(t, i)
  BY DEF Pending, At
<1> QED
  BY <1>1 DEF MomentumInv, ExitInv, Exiters

-----------------------------------------------------------------------------
LEMMA ClockStep ==
  ASSUME MomentumInv, ClockTicks
  PROVE  MomentumInv'
<1> USE DEF MomentumInv, StrategyTypes
<1>1. /\ now' = now + 1
      /\ UNCHANGED <<state, alive, call, deciding, orders, sent, opened, exits>>
  BY DEF ClockTicks, callVars, ghostVars
<1>2. StrategyTypes' /\ CallTypes'
  BY <1>1 DEF CallTypes
<1>3. ExitInv'
  BY <1>1, ExitElsewhere
<1>4. EntryInv'
  BY <1>1, MomentumAssumption DEF EntryInv, EntriesSpaced, Positions
<1> QED
  BY <1>2, <1>3, <1>4

\* on_candle up to try_entry, and a candle that leads to no entry
LEMMA CandleStep ==
  ASSUME MomentumInv, NoEntry \/ \E i \in Instruments : EvaluateSignal(i)
  PROVE  MomentumInv'
<1> USE DEF MomentumInv, StrategyTypes
<1>1. /\ UNCHANGED <<state, alive, call, now, orders, sent, opened, exits>>
      /\ deciding' \in Instruments \cup {NoInstrument}
      /\ deciding' # NoInstrument => now - state[deciding'].last_signal_ts >= COOLDOWN
  BY MomentumAssumption DEF NoEntry, EvaluateSignal, ghostVars
<1>2. StrategyTypes' /\ CallTypes'
  BY <1>1 DEF CallTypes
<1>3. ExitInv'
  BY <1>1, ExitElsewhere
<1>4. EntryInv'
  BY <1>1 DEF EntryInv, EntriesSpaced
<1> QED
  BY <1>2, <1>3, <1>4

\* The pause since the last signal is a pause since every earlier entry.
LEMMA EntryStep ==
  ASSUME MomentumInv, TryEntry
  PROVE  MomentumInv'
<1> USE MomentumAssumption DEF MomentumInv, StrategyTypes
<1>0. PICK d \in Instruments : d = deciding
  BY DEF TryEntry
<1>1. /\ deciding' = NoInstrument
      /\ now - state[d].last_signal_ts >= COOLDOWN
      /\ state' = [state EXCEPT ![d].last_signal_ts = now]
      /\ UNCHANGED <<alive, call, now, opened, exits>>
  BY <1>0 DEF TryEntry, ghostVars, EntryInv
<1>2. PICK side \in {BUY, SELL}, qty \in Quantities \ {0} :
        PlaceMarket(d, side, qty, TRUE)
  BY <1>0 DEF TryEntry
<1>3. /\ orders' \subseteq Orders /\ sent' \in Nat
      /\ \A o \in orders' : o \in orders \/ (o.at = d /\ o.ts = now)
      /\ \A o, p \in orders' \ orders : o = p
  BY <1>1, <1>2, Placed
<1>4. /\ state' \in [Instruments -> Positions]
      /\ \A i \in Instruments : /\ state'[i].in_position = state[i].in_position
                                /\ state'[i].side = state[i].side
                                /\ state'[i].qty = state[i].qty
      /\ state'[d].last_signal_ts = now
      /\ \A i \in Instruments \ {d} : state'[i] = state[i]
  BY <1>1 DEF Positions
<1>5. StrategyTypes' /\ CallTypes'
  BY <1>1, <1>3, <1>4 DEF CallTypes
<1>6. ExitInv'
  <2>1. \A t \in Exiters, i \in Instruments : Pending(t, i)' = Pending(t, i)
    BY <1>1, <1>4 DEF Pending, At
  <2> QED
    BY <1>1, <1>4, <2>1 DEF ExitInv, Exiters
<1>7. \A o \in orders :
        o.entry => /\ o.ts \in Nat /\ state'[o.at].last_signal_ts \in Nat
                   /\ o.ts <= state'[o.at].last_signal_ts
                   /\ o.at = d => now - o.ts >= COOLDOWN
  <2> SUFFICES ASSUME NEW o \in orders, o.entry
               PROVE  /\ o.ts \in Nat /\ state'[o.at].last_signal_ts \in Nat
                      /\ o.ts <= state'[o.at].last_signal_ts
                      /\ o.at = d => now - o.ts >= COOLDOWN
    OBVIOUS
  <2>1. o.at \in Instruments /\ o.ts \in Nat
    BY DEF Orders
  <2>2. /\ o.ts <= state[o.at].last_signal_ts /\ state[o.at].last_signal_ts <= now
        /\ state[o.at].last_signal_ts \in Nat /\ state'[o.at].last_signal_ts \in Nat
    BY <1>4, <2>1 DEF EntryInv, Positions
  <2> QED
    BY <1>1, <1>4, <2>1, <2>2
<1>8. EntriesSpaced'
  <2> SUFFICES ASSUME NEW o \in orders', NEW p \in orders',
                      o # p, o.entry, p.entry, o.at = p.at
               PROVE  o.ts - p.ts >= COOLDOWN \/ p.ts - o.ts >= COOLDOWN
    BY DEF EntriesSpaced
  <2>1. CASE o \in orders /\ p \in orders
    BY <2>1 DEF EntryInv, EntriesSpaced
  <2>2. CASE o \in orders /\ p \notin orders
    <3>1. p.at = d /\ p.ts = now
      BY <1>3, <2>2
    <3>2. now - o.ts >= COOLDOWN
      BY <1>7, <2>2, <3>1
    <3> QED
      BY <3>1, <3>2
  <2>3. CASE o \notin orders /\ p \in orders
    <3>1. o.at = d /\ o.ts = now
      BY <1>3, <2>3
    <3>2. now - p.ts >= COOLDOWN
      BY <1>7, <2>3, <3>1
    <3> QED
      BY <3>1, <3>2
  <2> QED
    BY <1>3, <2>1, <2>2, <2>3
<1>9. EntryInv'
  <2>1. \A i \in Instruments : state'[i].last_signal_ts <= now'
    BY <1>1, <1>4 DEF EntryInv
  <2>2. \A o \in orders' : o.entry => o.ts <= state'[o.at].last_signal_ts
    <3> SUFFICES ASSUME NEW o \in orders', o.entry
                 PROVE  o.ts <= state'[o.at].last_signal_ts
      OBVIOUS
    <3>1. CASE o \in orders
      BY <1>7, <3>1
    <3>2. CASE o.at = d /\ o.ts = now
      BY <1>4, <3>2
    <3> QED
      BY <1>3, <3>1, <3>2
  <2> QED
    BY <1>1, <1>8, <2>1, <2>2 DEF EntryInv
<1> QED
  BY <1>5, <1>6, <1>9

-----------------------------------------------------------------------------
\* A thread begins to flatten, or ends: it has no exit in hand before or after.
LEMMA FlatteningStep ==
  ASSUME MomentumInv, NEW t \in Exiters, Flattening(t) \/ Returns(t)
  PROVE  MomentumInv'
<1> USE DEF MomentumInv, StrategyTypes
<1>1. /\ UNCHANGED <<state, deciding, now, orders, sent, opened, exits>>
      /\ alive' \in BOOLEAN
      /\ \A i \in Instruments : ~ At(t, i, "exit") /\ ~ At(t, i, "clear")
  <2>1. /\ UNCHANGED <<state, deciding, now, orders, sent, opened, exits>>
        /\ alive' \in BOOLEAN
    BY DEF Flattening, Returns, ghostVars
  <2>2. call[t].pc \in {"idle", "flatten"}
    BY DEF Flattening, Returns, Idle
  <2> QED
    BY <2>1, <2>2 DEF At
<1>2. PICK c \in Calls : /\ call' = [call EXCEPT ![t] = c]
                         /\ c.pc \notin {"exit", "clear"}
  <2>1. CASE Flattening(t)
    <3>1. [Idle EXCEPT !.pc = "flatten", !.todo = Instruments, !.last = (t = "strategy")]
            \in Calls
      BY DEF Calls, Idle
    <3> QED
      BY <2>1, <3>1 DEF Flattening, Idle
  <2>2. CASE Returns(t)
    <3>1. Idle \in Calls /\ [Idle EXCEPT !.pc = "ended"] \in Calls
      BY DEF Calls, Idle
    <3> QED
      BY <2>2, <3>1 DEF Returns, Idle
  <2> QED
    BY <2>1, <2>2
<1>3. StrategyTypes' /\ CallTypes'
  BY <1>1, <1>2 DEF CallTypes
<1>4. EntryInv'
  BY <1>1, EntryElsewhere
<1>5. ExitInv'
  <2>1. \A u \in Exiters, i \in Instruments : Pending(u, i)' = Pending(u, i)
    BY <1>1, <1>2 DEF Pending, At
  <2>2. CASE UNCHANGED alive
    <3>1. alive => ~ alive' \/ call'["main"] = Idle
      <4>1. CASE Flattening(t)
        BY <4>1 DEF Flattening
      <4>2. CASE Returns(t)
        <5>1. alive => call["main"] = Idle /\ t = "strategy"
          BY <4>2 DEF Returns, ExitInv, Idle, Exiters
        <5> QED
          BY <1>2, <5>1 DEF Exiters
      <4> QED
        BY <4>1, <4>2
    <3> QED
      BY <1>1, <2>1, <2>2, <3>1 DEF ExitInv, Exiters
  <2>3. CASE ~ UNCHANGED alive
    <3>1. alive /\ ~ alive'
      BY <2>3 DEF Flattening, Returns
    <3>2. ASSUME NEW i \in Instruments
          PROVE  exits[i] + Pending("strategy", i) + Pending("main", i) <= 2 * opened[i]
      <4>1. call["main"] = Idle
        BY <3>1 DEF ExitInv
      <4>2. Pending("main", i) = IF state[i].in_position THEN 1 ELSE 0
        BY <4>1 DEF Pending, At, Idle
      <4>3. Pending("strategy", i) \in {0, 1}
        BY DEF Pending
      <4> QED
        BY <3>1, <4>2, <4>3 DEF ExitInv
    <3> QED
      BY <1>1, <2>1, <3>1, <3>2 DEF ExitInv, Exiters
  <2> QED
    BY <2>2, <2>3
<1> QED
  BY <1>3, <1>4, <1>5

\* A thread takes up a position: the exit it may place becomes the one it will place.
LEMMA TakeUpStep ==
  ASSUME MomentumInv, NEW t \in Exiters,
         FlattenNext(t) \/ (t = "strategy" /\ \E i \in Instruments : StopOrTargetHit(i))
  PROVE  MomentumInv'
<1> USE DEF MomentumInv, StrategyTypes
<1>1. /\ UNCHANGED <<state, alive, deciding, now, orders, sent, opened, exits>>
      /\ \A i \in Instruments : ~ At(t, i, "exit") /\ ~ At(t, i, "clear")
      /\ t = "main" => call[t] # Idle
  <2>1. UNCHANGED <<state, alive, deciding, now, orders, sent, opened, exits>>
    BY DEF FlattenNext, StopOrTargetHit, ghostVars
  <2>2. call[t].pc = "flatten" \/ (t = "strategy" /\ call[t] = Idle)
    BY DEF FlattenNext, StopOrTargetHit
  <2>3. Idle.pc = "idle"
    BY DEF Idle
  <2> QED
    BY <2>1, <2>2, <2>3 DEF At
<1>2. PICK c \in Calls :
        /\ call' = [call EXCEPT ![t] = c]
        /\ c.pc # "clear"
        /\ c.pc = "exit" => c.at \in Instruments /\ state[c.at].in_position
  <2>1. CASE FlattenNext(t)
    <3>1. PICK i \in call[t].todo :
            call' = [call EXCEPT
                      ![t].pc = IF state[i].in_position THEN "exit" ELSE "flatten",
                      ![t].at = IF state[i].in_position THEN i ELSE NoInstrument,
                      ![t].todo = @ \ {i}]
      BY <2>1 DEF FlattenNext
    <3> DEFINE c == [call[t] EXCEPT
                       !.pc = IF state[i].in_position THEN "exit" ELSE "flatten",
                       !.at = IF state[i].in_position THEN i ELSE NoInstrument,
                       !.todo = @ \ {i}]
    <3>2. call[t] \in Calls /\ i \in Instruments
      BY DEF Calls
    <3>3. call' = [call EXCEPT ![t] = c]
      BY <3>1, <3>2 DEF Calls
    <3>4. /\ c \in Calls /\ c.pc # "clear"
          /\ c.pc = "exit" => c.at \in Instruments /\ state[c.at].in_position
      BY <3>2 DEF Calls
    <3> QED
      BY <3>3, <3>4
  <2>2. CASE t = "strategy" /\ \E i \in Instruments : StopOrTargetHit(i)
    <3>1. PICK i \in Instruments : StopOrTargetHit(i)
      BY <2>2
    <3>2. [Idle EXCEPT !.pc = "exit", !.at = i] \in Calls
      BY DEF Calls, Idle
    <3> QED
      BY <2>2, <3>1, <3>2 DEF StopOrTargetHit, Idle
  <2> QED
    BY <2>1, <2>2
<1>3. StrategyTypes' /\ CallTypes'
  BY <1>1, <1>2 DEF CallTypes
<1>4. EntryInv'
  BY <1>1, EntryElsewhere
<1>5. ExitInv'
  <2>1. \A u \in Exiters, i \in Instruments : Pending(u, i)' = Pending(u, i)
    BY <1>1, <1>2 DEF Pending, At
  <2>2. alive => call'["main"] = call["main"]
    BY <1>1, <1>2 DEF ExitInv, Exiters
  <2> QED
    BY <1>1, <2>1, <2>2 DEF ExitInv, Exiters
<1> QED
  BY <1>3, <1>4, <1>5

\* place_market of an exit: the pending exit becomes a placed one.
LEMMA ExitStep ==
  ASSUME MomentumInv, NEW t \in Exiters, PlaceExit(t)
  PROVE  MomentumInv'
<1> USE DEF MomentumInv, StrategyTypes
<1>0. PICK x \in Instruments : x = call[t].at
  BY DEF PlaceExit, CallTypes
<1>1. /\ call[t].pc = "exit"
      /\ call' = [call EXCEPT ![t].pc = "clear"]
      /\ exits' = [exits EXCEPT ![x] = @ + 1]
      /\ PlaceMarket(x, - state[x].side, state[x].qty, FALSE)
      /\ UNCHANGED <<state, alive, deciding, now, opened>>
  BY <1>0 DEF PlaceExit
<1>2. - state[x].side \in {BUY, SELL} /\ state[x].qty \in Nat
  BY DEF Positions, BUY, SELL
<1>3. /\ orders' \subseteq Orders /\ sent' \in Nat
      /\ \A o \in orders' : o \in orders \/ o.entry = FALSE
  BY <1>1, <1>2, Placed
<1>4. /\ \A u \in Exiters \ {t} : call'[u] = call[u]
      /\ call'[t] \in Calls /\ call'[t].pc = "clear" /\ call'[t].at = x
      /\ call' \in [Exiters -> Calls]
  BY <1>0, <1>1 DEF Calls
<1>5. StrategyTypes' /\ CallTypes'
  BY <1>1, <1>3, <1>4 DEF CallTypes
<1>6. EntryInv'
  BY <1>1, <1>3, EntryElsewhere
<1>7. ExitInv'
  <2>1. /\ Pending(t, x) = 1 /\ Pending(t, x)' = 0
        /\ \A u \in Exiters, i \in Instruments :
             u # t \/ i # x => Pending(u, i)' = Pending(u, i)
    BY <1>0, <1>1, <1>4 DEF Pending, At
  <2>2. exits'[x] = exits[x] + 1 /\ \A i \in Instruments \ {x} : exits'[i] = exits[i]
    BY <1>1
  <2>3. alive => t = "strategy" /\ call'["main"] = Idle
    <3>1. Idle.pc = "idle"
      BY DEF Idle
    <3>2. alive => call["main"] = Idle /\ t # "main"
      BY <1>1, <3>1 DEF ExitInv
    <3> QED
      BY <1>4, <3>2 DEF Exiters
  <2>4. \A u \in Exiters : Pending(u, x) \in {0, 1}
    BY DEF Pending
  <2>5. ASSUME NEW i \in Instruments
        PROVE  /\ state[i].in_position => opened[i] >= 1
               /\ alive => exits'[i] + Pending("strategy", i)' <= opened[i]
               /\ ~ alive => exits'[i] + Pending("strategy", i)' + Pending("main", i)'
                               <= 2 * opened[i]
    <3>1. CASE i # x
      BY <2>1, <2>2, <3>1 DEF ExitInv, Exiters
    <3>2. CASE i = x
      <4>1. CASE t = "strategy"
        BY <2>1, <2>2, <2>4, <3>2, <4>1 DEF ExitInv, Exiters
      <4>2. CASE t = "main"
        BY <2>1, <2>2, <2>3, <2>4, <3>2, <4>2 DEF ExitInv, Exiters
      <4> QED
        BY <4>1, <4>2 DEF Exiters
    <3> QED
      BY <3>1, <3>2
  <2> QED
    BY <1>1, <2>3, <2>5 DEF ExitInv
<1> QED
  BY <1>5, <1>6, <1>7

\* in_position is cleared only where an exit was placed.
LEMMA ClearStep ==
  ASSUME MomentumInv, NEW t \in Exiters, ClearPosition(t)
  PROVE  MomentumInv'
<1> USE DEF MomentumInv, StrategyTypes
<1>0. PICK x \in Instruments : x = call[t].at
  BY DEF ClearPosition, CallTypes
<1>1. /\ call[t].pc = "clear"
      /\ state' = [state EXCEPT ![x].in_position = FALSE]
      /\ call' = [call EXCEPT ![t].pc = "flatten", ![t].at = NoInstrument]
      /\ UNCHANGED <<alive, deciding, now, orders, sent, opened, exits>>
  BY <1>0 DEF ClearPosition, ghostVars
<1>2. /\ state' \in [Instruments -> Positions]
      /\ ~ state'[x].in_position
      /\ \A i \in Instruments : state'[i].last_signal_ts = state[i].last_signal_ts
      /\ \A i \in Instruments \ {x} : state'[i] = state[i]
  BY <1>1 DEF Positions
<1>3. /\ \A u \in Exiters \ {t} : call'[u] = call[u]
      /\ call'[t] \in Calls /\ call'[t].pc = "flatten"
      /\ call' \in [Exiters -> Calls]
  BY <1>1 DEF Calls
<1>4. StrategyTypes' /\ CallTypes'
  BY <1>1, <1>2, <1>3 DEF CallTypes
<1>5. EntryInv'
  BY <1>1, <1>2, EntryElsewhere
<1>6. ExitInv'
  <2>1. \A u \in Exiters, i \in Instruments : Pending(u, i)' <= Pending(u, i)
    <3> SUFFICES ASSUME NEW u \in Exiters, NEW i \in Instruments
                 PROVE  Pending(u, i)' <= Pending(u, i)
      OBVIOUS
    <3>1. CASE u # t
      BY <1>2, <1>3, <3>1 DEF Pending, At
    <3>2. CASE u = t /\ i = x
      BY <1>0, <1>1, <1>2, <1>3, <3>2 DEF Pending, At
    <3>3. CASE u = t /\ i # x
      BY <1>0, <1>1, <1>2, <1>3, <3>3 DEF Pending, At
    <3> QED
      BY <3>1, <3>2, <3>3
  <2>2. \A u \in Exiters, i \in Instruments : Pending(u, i) \in Nat /\ Pending(u, i)' \in Nat
    BY DEF Pending
  <2>3. alive => call'["main"] = Idle
    <3>1. Idle.pc = "idle"
      BY DEF Idle
    <3>2. alive => call["main"] = Idle /\ t # "main"
      BY <1>1, <3>1 DEF ExitInv
    <3> QED
      BY <1>3, <3>2 DEF Exiters
  <2>4. ASSUME NEW i \in Instruments
        PROVE  /\ state'[i].in_position => opened[i] >= 1
               /\ alive => exits[i] + Pending("strategy", i)' <= opened[i]
               /\ ~ alive => exits[i] + Pending("strategy", i)' + Pending("main", i)'
                               <= 2 * opened[i]
    BY <1>2, <2>1, <2>2 DEF ExitInv, Exiters
  <2> QED
    BY <1>1, <2>3, <2>4 DEF ExitInv
<1> QED
  BY <1>4, <1>5, <1>6

-----------------------------------------------------------------------------
\* on_order_fill: a closing fill takes a pending exit away, an opening fill brings one.
LEMMA ToldStep ==
  ASSUME MomentumInv, NEW o \in orders, NEW n \in 1 .. o.left, OnOrderFill(o, n),
         UNCHANGED <<alive, call, exits>>
  PROVE  /\ state' \in [Instruments -> Positions] /\ opened' \in [Instruments -> Nat]
         /\ \A i \in Instruments : state'[i].last_signal_ts = state[i].last_signal_ts
         /\ ExitInv'
<1> USE MomentumAssumption DEF MomentumInv, StrategyTypes
<1>1. o.at \in Instruments /\ o.side \in {BUY, SELL} /\ n \in Nat
  BY DEF Orders
<1>2. PICK x \in Instruments : x = o.at
  BY <1>1
<1>3. /\ state' \in [Instruments -> Positions]
      /\ \A i \in Instruments : state'[i].last_signal_ts = state[i].last_signal_ts
      /\ \A i \in Instruments \ {x} : state'[i] = state[i] /\ opened'[i] = opened[i]
      /\ opened' \in [Instruments -> Nat]
  <2>1. state[x] \in Positions
    OBVIOUS
  <2>2. PICK p \in Positions : /\ state' = [state EXCEPT ![x] = p]
                              /\ p.last_signal_ts = state[x].last_signal_ts
    <3>1. CASE state[x].in_position
      <4>1. [state[x] EXCEPT !.in_position = FALSE, !.qty = 0] \in Positions
        BY <2>1 DEF Positions
      <4>2. state' = [state EXCEPT ![x] = [state[x] EXCEPT !.in_position = FALSE, !.qty = 0]]
        BY <1>2, <3>1 DEF OnOrderFill
      <4> QED
        BY <2>1, <4>1, <4>2 DEF Positions
    <3>2. CASE ~ state[x].in_position
      <4> DEFINE p == [state[x] EXCEPT !.in_position = TRUE, !.side = o.side, !.qty = n]
      <4>1. p \in Positions
        BY <1>1, <2>1 DEF Positions
      <4>2. state' = [state EXCEPT ![x] = p]
        BY <1>2, <3>2 DEF OnOrderFill
      <4> QED
        BY <2>1, <4>1, <4>2 DEF Positions
    <3> QED
      BY <3>1, <3>2
  <2>3. /\ opened' \in [Instruments -> Nat]
        /\ \A i \in Instruments \ {x} : opened'[i] = opened[i]
    BY <1>2 DEF OnOrderFill
  <2> QED
    BY <2>2, <2>3
<1>4. /\ state[x].in_position => ~ state'[x].in_position /\ opened' = opened
      /\ ~ state[x].in_position => /\ state'[x].in_position
                                   /\ state'[x].side = o.side /\ state'[x].qty = n
                                   /\ opened'[x] = opened[x] + 1
  BY <1>2 DEF OnOrderFill, Positions
<1>5. ExitInv'
  <2>1. /\ \A u \in Exiters, i \in Instruments \ {x} : Pending(u, i)' = Pending(u, i)
        /\ state[x].in_position => \A u \in Exiters : Pending(u, x)' <= Pending(u, x)
        /\ \A u \in Exiters : Pending(u, x)' \in {0, 1} /\ Pending(u, x) \in {0, 1}
        /\ ~ state[x].in_position => \A u \in Exiters : Pending(u, x)' <= Pending(u, x) + 1
    BY <1>3, <1>4 DEF Pending, At
  <2>2. ASSUME NEW i \in Instruments
        PROVE  /\ state'[i].in_position => opened'[i] >= 1
               /\ alive => exits[i] + Pending("strategy", i)' <= opened'[i]
               /\ ~ alive => exits[i] + Pending("strategy", i)' + Pending("main", i)'
                               <= 2 * opened'[i]
    <3>1. CASE i # x
      BY <1>3, <2>1, <3>1 DEF ExitInv, Exiters
    <3>2. CASE i = x /\ state[x].in_position
      BY <1>4, <2>1, <3>2 DEF ExitInv, Exiters
    <3>3. CASE i = x /\ ~ state[x].in_position
      BY <1>4, <2>1, <3>3 DEF ExitInv, Exiters
    <3> QED
      BY <3>1, <3>2, <3>3
  <2> QED
    BY <2>2 DEF ExitInv
<1> QED
  BY <1>3, <1>5

\* A fill of o, whether main.cpp's callback or dispatch_fill takes it
LEMMA FillStep ==
  ASSUME MomentumInv, NEW o \in orders, FillArrives(o) \/ FillDispatched(o)
  PROVE  MomentumInv'
<1> USE MomentumAssumption DEF MomentumInv, StrategyTypes
<1>0. PICK n \in 1 .. o.left :
        /\ Filled(o, n)
        /\ OnOrderFill(o, n) \/ UNCHANGED <<state, opened>>
        /\ UNCHANGED <<alive, callVars, now, sent, exits>>
  BY DEF FillArrives, FillDispatched, ghostVars
<1>1. /\ o \in Orders /\ o.at \in Instruments /\ o.left \in Nat /\ o.ts \in Nat
      /\ n \in Nat
  BY DEF Orders
<1>2. UNCHANGED <<alive, call, deciding, now, sent, exits>>
  BY <1>0 DEF callVars
<1> DEFINE rest == [o EXCEPT !.left = @ - n]
<1>3. /\ n < o.left => rest \in Orders
      /\ rest.at = o.at /\ rest.ts = o.ts /\ rest.entry = o.entry
  BY <1>1 DEF Orders
<1>4. \A p \in orders' : p \in orders \ {o} \/ (p = rest /\ n < o.left)
  BY <1>0 DEF Filled
<1> HIDE DEF rest
<1>5. orders' \subseteq Orders
  BY <1>3, <1>4
<1>6. /\ state' \in [Instruments -> Positions] /\ opened' \in [Instruments -> Nat]
      /\ \A i \in Instruments : state'[i].last_signal_ts = state[i].last_signal_ts
      /\ ExitInv'
  <2>1. CASE OnOrderFill(o, n)
    BY <1>0, <1>2, <2>1, ToldStep
  <2>2. CASE UNCHANGED <<state, opened>>
    BY <1>2, <2>2, ExitElsewhere
  <2> QED
    BY <1>0, <2>1, <2>2
<1>7. StrategyTypes' /\ CallTypes'
  BY <1>2, <1>5, <1>6 DEF CallTypes
<1>8. EntryInv'
  <2>1. \A p \in orders' : \E q \in orders :
          /\ q.at = p.at /\ q.ts = p.ts /\ q.entry = p.entry
          /\ p = rest => q = o
          /\ p # rest => q = p /\ p # o
    BY <1>3, <1>4
  <2>2. EntriesSpaced'
    <3> SUFFICES ASSUME NEW p \in orders', NEW q \in orders',
                        p # q, p.entry, q.entry, p.at = q.at
                 PROVE  p.ts - q.ts >= COOLDOWN \/ q.ts - p.ts >= COOLDOWN
      BY DEF EntriesSpaced
    <3>1. PICK u \in orders : /\ u.at = p.at /\ u.ts = p.ts /\ u.entry = p.entry
                              /\ p = rest => u = o
                              /\ p # rest => u = p /\ p # o
      BY <2>1
    <3>2. PICK v \in orders : /\ v.at = q.at /\ v.ts = q.ts /\ v.entry = q.entry
                              /\ q = rest => v = o
                              /\ q # rest => v = q /\ q # o
      BY <2>1
    <3>3. u # v
      BY <3>1, <3>2
    <3> QED
      BY <3>1, <3>2, <3>3 DEF EntryInv, EntriesSpaced
  <2>3. \A p \in orders' : p.entry => p.ts <= state'[p.at].last_signal_ts
    BY <1>5, <1>6, <2>1 DEF EntryInv, Orders
  <2> QED
    BY <1>2, <1>6, <2>2, <2>3 DEF EntryInv
<1> QED
  BY <1>6, <1>7, <1>8

LEMMA RejectStep ==
  ASSUME MomentumInv, NEW o \in orders, OnOrderReject(o)
  PROVE  MomentumInv'
<1> USE DEF MomentumInv, StrategyTypes
<1>1. /\ orders' = orders \ {o}
      /\ UNCHANGED <<state, alive, call, deciding, now, sent, opened, exits>>
  BY DEF OnOrderReject, callVars, ghostVars
<1>2. StrategyTypes' /\ CallTypes'
  BY <1>1 DEF CallTypes
<1>3. ExitInv'
  BY <1>1, ExitElsewhere
<1>4. EntryInv'
  BY <1>1, EntryElsewhere
<1> QED
  BY <1>2, <1>3, <1>4

-----------------------------------------------------------------------------
LEMMA InvInductive == MomentumInv /\ [MomentumNext]_momentumVars => MomentumInv'
<1> SUFFICES ASSUME MomentumInv, [MomentumNext]_momentumVars PROVE MomentumInv'
  OBVIOUS
<1>1. CASE ClockTicks
  BY <1>1, ClockStep
<1>2. CASE NoEntry \/ \E i \in Instruments : EvaluateSignal(i)
  BY <1>2, CandleStep
<1>3. CASE TryEntry
  BY <1>3, EntryStep
<1>4. ASSUME NEW i \in Instruments, StopOrTargetHit(i) PROVE MomentumInv'
  BY <1>4, TakeUpStep DEF Exiters
<1>5. CASE OnKillSignal
  BY <1>5, FlatteningStep DEF OnKillSignal, Exiters
<1>6. ASSUME NEW t \in Exiters, OnStop(t) \/ Returns(t) PROVE MomentumInv'
  BY <1>6, FlatteningStep DEF OnStop
<1>7. ASSUME NEW t \in Exiters, FlattenNext(t) PROVE MomentumInv'
  BY <1>7, TakeUpStep
<1>8. ASSUME NEW t \in Exiters, PlaceExit(t) PROVE MomentumInv'
  BY <1>8, ExitStep
<1>9. ASSUME NEW t \in Exiters, ClearPosition(t) PROVE MomentumInv'
  BY <1>9, ClearStep
<1>10. ASSUME NEW o \in orders, FillArrives(o) \/ FillDispatched(o) PROVE MomentumInv'
  BY <1>10, FillStep
<1>11. ASSUME NEW o \in orders, OnOrderReject(o) PROVE MomentumInv'
  BY <1>11, RejectStep
<1>12. CASE UNCHANGED momentumVars
  <2>1. UNCHANGED <<state, alive, call, deciding, now, orders, sent, opened, exits>>
    BY <1>12 DEF momentumVars, callVars, ghostVars
  <2>2. StrategyTypes' /\ CallTypes'
    BY <2>1 DEF MomentumInv, StrategyTypes, CallTypes
  <2>3. ExitInv'
    BY <2>1, ExitElsewhere
  <2>4. EntryInv'
    BY <2>1, EntryElsewhere DEF MomentumInv, StrategyTypes
  <2> QED
    BY <2>2, <2>3, <2>4 DEF MomentumInv
<1> QED
  BY <1>1, <1>2, <1>3, <1>4, <1>5, <1>6, <1>7, <1>8, <1>9, <1>10, <1>11, <1>12
  DEF MomentumNext

LEMMA MomentumInvariance == MomentumSpec => []MomentumInv
<1>1. MomentumInit => MomentumInv
  BY InvInit
<1>2. MomentumInv /\ [MomentumNext]_momentumVars => MomentumInv'
  BY InvInductive
<1> QED
  BY <1>1, <1>2, PTL DEF MomentumSpec

\* For every cooldown and any number of instruments, whatever the broker answers and
\* whether or not fills are dispatched, two entries under way for one instrument are a
\* cooldown apart.
THEOREM EntriesAreSpaced == MomentumSpec => []EntriesSpaced
<1>1. MomentumInv => EntriesSpaced
  BY InvImplies
<1> QED
  BY <1>1, MomentumInvariance, PTL

\* A position is closed by one exit while the strategy runs; after on_stop or
\* on_kill_signal by one exit of each of the two threads at most.
THEOREM ExitsBounded == MomentumSpec => []OneExitPerThread
<1>1. MomentumInv => OneExitPerThread
  BY InvImplies
<1> QED
  BY <1>1, MomentumInvariance, PTL
=============================================================================
