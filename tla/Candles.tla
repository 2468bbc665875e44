------------------------------ MODULE Candles ------------------------------
(***************************************************************************)
(* market_data/candle_builder.hpp: one open bar per instrument and         *)
(* interval, closed by the first tick of another bar, or by flush_all.     *)
(*                                                                         *)
(* A tick is [token, exchange_ts, recv_ts, ltp, volume, is_stale, open],   *)
(* an exchange_ts of 0 being absent.  Times and intervals are minutes.     *)
(* Open interest is carried along like the closing price and left out.     *)
(***************************************************************************)
EXTENDS Integers, Sequences, FiniteSetsExt

CONSTANTS
  Instruments,
  INTERVALS,
  None          \* no bar, no candle

ASSUME IntervalsAssumption == INTERVALS \subseteq Nat \ {0}

VARIABLES
  open_bars,    \* open_bars_, by <<instrument, interval>>
  candle,       \* the last candle given to the callbacks, by the same key
  candled,      \* ghost: how many ticks went into the candles of a key
  late          \* ghost: keys that got a tick of an earlier bar than the open one

candleVars == <<open_bars, candle, candled, late>>

Keys == Instruments \X INTERVALS

CandlesInit ==
  /\ open_bars = [k \in Keys |-> None]
  /\ candle = [k \in Keys |-> None]
  /\ candled = [k \in Keys |-> 0]
  /\ late = {}

\* The time stamp of update_bar, rounded down to the boundary of a bar
BarStart(tick, interval) ==
  ((IF tick.exchange_ts > 0 THEN tick.exchange_ts ELSE tick.recv_ts) \div interval)
    * interval

\* A bar that a tick opens
NewBar(tick, interval) ==
  [start |-> BarStart(tick, interval), open |-> tick.ltp, high |-> tick.ltp,
   low |-> tick.ltp, close |-> tick.ltp, volume |-> tick.volume,
   seen |-> <<tick>>]

\* mutant: a bar keeps the low of its first tick
UpdatedBarNoLow(bar, tick) ==
  [bar EXCEPT !.high = Max({@, tick.ltp}),
              !.close = tick.ltp,
              !.volume = Max({@, tick.volume}),
              !.seen = Append(@, tick)]

\* seen is a ghost.
UpdatedBar(bar, tick) ==
  [bar EXCEPT !.high = Max({@, tick.ltp}),
              !.low = Min({@, tick.ltp}),
              !.close = tick.ltp,
              !.volume = Max({@, tick.volume}),
              !.seen = Append(@, tick)]

\* The tick belongs to another bar than the open one.
Closes(k, tick) ==
  /\ open_bars[k] # None
  /\ open_bars[k].start # BarStart(tick, k[2])

\* mutant: the tick that closes a bar is not put into the next one
update_barDropsOpening(k, tick) ==
  IF open_bars[k] = None THEN NewBar(tick, k[2])
  ELSE IF Closes(k, tick) THEN None
  ELSE UpdatedBar(open_bars[k], tick)

update_bar(k, tick) ==
  IF open_bars[k] = None \/ Closes(k, tick) THEN NewBar(tick, k[2])
  ELSE UpdatedBar(open_bars[k], tick)

\* emit_candle; the callback is strategy_mgr.dispatch_candle
Candle(k, close_ts) == [bar |-> open_bars[k], close_ts |-> close_ts]

\* mutant: the next bar's first moment counts as the last of this one
CloseTsShared(k) == open_bars[k].start + k[2]

CloseTs(k) == open_bars[k].start + k[2] - 1

on_tick(tick) ==
  LET mine == {k \in Keys : k[1] = tick.token}
      done == {k \in mine : Closes(k, tick) /\ open_bars[k].open > 0}
  IN /\ open_bars' = [k \in Keys |-> IF k \in mine THEN update_bar(k, tick)
                                     ELSE open_bars[k]]
     /\ candle' = [k \in Keys |-> IF k \in done
                                    THEN Candle(k, CloseTs(k))
                                    ELSE candle[k]]
     /\ candled' = [k \in Keys |-> IF k \in done
                                     THEN candled[k] + Len(open_bars[k].seen)
                                     ELSE candled[k]]
     /\ late' = late \cup {k \in done : BarStart(tick, k[2]) < open_bars[k].start}

\* Bars closed at the end of the day, at time now
flush_all(now) ==
  LET done == {k \in Keys : open_bars[k] # None /\ open_bars[k].open > 0}
  IN /\ open_bars' = [k \in Keys |-> None]
     /\ candle' = [k \in Keys |-> IF k \in done THEN Candle(k, now) ELSE candle[k]]
     /\ candled' = [k \in Keys |-> IF k \in done
                                     THEN candled[k] + Len(open_bars[k].seen)
                                     ELSE candled[k]]
     /\ UNCHANGED late

-----------------------------------------------------------------------------
Summarises(bar) ==
  LET prices == {bar.seen[i].ltp : i \in DOMAIN bar.seen}
  IN /\ bar.open = bar.seen[1].ltp
     /\ bar.close = bar.seen[Len(bar.seen)].ltp
     /\ bar.high = Max(prices) /\ bar.low = Min(prices)
     /\ bar.volume = Max({bar.seen[i].volume : i \in DOMAIN bar.seen})

\* Whatever the order of ticks and bars, a bar and a candle show the first, the
\* highest, the lowest and the last price of the ticks in them, and only of ticks
\* of their own stretch of time.
BarsSummarise ==
  \A k \in Keys :
    \A bar \in {open_bars[k]} \cup (IF candle[k] = None THEN {} ELSE {candle[k].bar}) :
      bar # None =>
        /\ Summarises(bar)
        /\ \A i \in DOMAIN bar.seen : BarStart(bar.seen[i], k[2]) = bar.start

\* While no tick is late, the candles of an instrument and interval follow one
\* another without overlap, also across flush_all.
CandlesOrdered ==
  [][ \A k \in Keys :
        /\ k \notin late'
        /\ candle[k] # None
        /\ candle'[k] # candle[k]
        => candle'[k].bar.start > candle[k].close_ts
    ]_candleVars
=============================================================================
