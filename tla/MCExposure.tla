----------------------------- MODULE MCExposure -----------------------------
(* Strategies that trade one instrument; which is which does not matter, nor *)
(* does it matter on which of two threads a strategy is called.              *)
EXTENDS Exposure, TLC

Symmetry == Permutations(StrategyIds) \cup Permutations(CallThreads)
OneLongPosition ==
  {[quantity |-> 1, avg_price |-> 1, current_price |-> 1, realized_pnl |-> 1,
    unrealized_pnl |-> 1]}
=============================================================================
