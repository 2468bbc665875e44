---------------------------- MODULE MCMarketData ----------------------------
(* One instrument, messages with a time, without one, and without a price. *)
EXTENDS MarketData

Message(kind, ltp, age) ==
  [token |-> CHOOSE i \in Instruments : TRUE, kind |-> kind, ltp |-> ltp, age |-> age]

SomeMessages ==
  {Message("ltpc", 2, 0), Message("ltpc", 1, 1), Message("full", 1, 0),
   Message("greeks", 0, 0)}

AllTicks ==
  [token : Instruments, ltp : 0 .. 2, open : {0},
   exchange_ts : {0} \cup (EpochStart - 1 .. EpochStart + MaxTime),
   recv_ts : 0 .. MaxTime, volume : 0 .. MaxMessages, is_stale : BOOLEAN]
=============================================================================
