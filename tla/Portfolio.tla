----------------------------- MODULE Portfolio -----------------------------
(***************************************************************************)
(* The books of portfolio/portfolio_engine.cpp: one position per           *)
(* instrument, the cash, the realised and the unrealised result.  Every    *)
(* operation is one critical section of snapshot_mtx_; emit_update, which  *)
(* follows process_fill, only copies the books for Kafka and Redis.        *)
(*                                                                         *)
(* Prices are naturals.  An average price is a ratio of two integers, kept *)
(* exact; the doubles of the code are taken for the reals they stand for.  *)
(***************************************************************************)
EXTENDS Integers, FiniteSetsExt

CONSTANTS
  Instruments,
  StrategyIds,
  NoStrategy,       \* no entry for the instrument: instrument_token is 0
  StartingCapital   \* starting_capital_

ASSUME BooksAssumption == IsFiniteSet(Instruments) /\ StartingCapital \in Int

VARIABLES
  positions,             \* snapshot_.positions
  total_realized_pnl,
  total_unrealized_pnl,
  available_capital,
  carried,               \* ghost: cost of the positions load_positions brought ...
  brought,               \* ghost: ... and the results they had
  misstated              \* ghost: by what fills through zero misstate the cost

books == <<positions, total_realized_pnl, total_unrealized_pnl,
           available_capital, carried, brought, misstated>>

-----------------------------------------------------------------------------
(* Ratios in lowest terms: <<n, d>> with d > 0 *)

Abs(k) == IF k < 0 THEN -k ELSE k
Least(a, b) == IF a < b THEN a ELSE b

\* n / d with the least denominator that will do
Ratio(n, d) ==
  LET c == Min({k \in 1 .. d : (n * k) % d = 0})
  IN <<(n * c) \div d, c>>

Whole(k) == <<k, 1>>
Plus(x, y) == Ratio(x[1] * y[2] + y[1] * x[2], x[2] * y[2])
Times(k, x) == Ratio(k * x[1], x[2])
Minus(x, y) == Plus(x, Times(-1, y))
Over(x, k) == Ratio(x[1], x[2] * k)
Less(x, y) == x[1] * y[2] < y[1] * x[2]
Total(f) == FoldFunction(Plus, Whole(0), f)

-----------------------------------------------------------------------------
Flat == [strategy_id |-> NoStrategy, quantity |-> 0, avg_price |-> Whole(0),
         current_price |-> 0, realized_pnl |-> Whole(0),
         unrealized_pnl |-> Whole(0)]

PortfolioInit ==
  /\ positions = [i \in Instruments |-> Flat]
  /\ total_realized_pnl = Whole(0)
  /\ total_unrealized_pnl = Whole(0)
  /\ available_capital = StartingCapital
  /\ carried = Whole(0)
  /\ brought = Whole(0)
  /\ misstated = Whole(0)

\* A fill: [token, strategy, side, quantity, price]
QtyDelta(fill) == IF fill.side = "BUY" THEN fill.quantity ELSE -fill.quantity

SameSide(k, l) == (k > 0 /\ l > 0) \/ (k < 0 /\ l < 0)

\* What a fill that reduces or closes position p earns
Realized(p, fill) ==
  LET close_qty == Least(fill.quantity, Abs(p.quantity))
  IN Times(close_qty, IF fill.side = "SELL"
                        THEN Minus(Whole(fill.price), p.avg_price)
                        ELSE Minus(p.avg_price, Whole(fill.price)))

Reduces(p, fill) == p.quantity # 0 /\ ~ SameSide(QtyDelta(fill), p.quantity)

\* A fill that takes the position through zero leaves the old average price on the
\* new side; this is by how much it misstates the cost of what is held there.
Misstated(p, fill) ==
  LET q == p.quantity + QtyDelta(fill)
  IN IF Reduces(p, fill) /\ SameSide(q, QtyDelta(fill))
     THEN Times(q, Minus(p.avg_price, Whole(fill.price)))
     ELSE Whole(0)

\* mutant: an added lot does not change the average price
AvgPriceKept(p, fill) ==
  LET q == p.quantity + QtyDelta(fill)
  IN IF p.quantity = 0 THEN Whole(fill.price)
     ELSE IF Reduces(p, fill) /\ q = 0 THEN Whole(0) ELSE p.avg_price

\* avg_price after a fill: of the opening fill, or weighted by volume; what
\* reduces a position leaves it alone, also when the position changes sides.
AvgPrice(p, fill) ==
  LET q == p.quantity + QtyDelta(fill)
  IN CASE p.quantity = 0 -> Whole(fill.price)
       [] Reduces(p, fill) -> IF q = 0 THEN Whole(0) ELSE p.avg_price
       [] OTHER -> Over(Plus(Times(Abs(p.quantity), p.avg_price),
                             Whole(fill.quantity * fill.price)), Abs(q))

\* The position after the fill; the first fill of an instrument names its owner.
Booked(p, fill, realized) ==
  [p EXCEPT !.strategy_id = IF p.strategy_id = NoStrategy
                            THEN fill.strategy ELSE p.strategy_id,
            !.quantity = p.quantity + QtyDelta(fill),
            !.avg_price = AvgPrice(p, fill),
            !.realized_pnl = Plus(p.realized_pnl, realized)]

process_fill(fill) ==
  LET i        == fill.token
      p        == positions[i]
      realized == IF Reduces(p, fill) THEN Realized(p, fill) ELSE Whole(0)
  IN /\ positions' = [positions EXCEPT ![i] = Booked(p, fill, realized)]
     /\ total_realized_pnl' = Plus(total_realized_pnl, realized)
     /\ available_capital' =
          available_capital - QtyDelta(fill) * fill.price
     /\ misstated' = Plus(misstated, Misstated(p, fill))
     /\ UNCHANGED <<total_unrealized_pnl, carried, brought>>

\* Of an instrument without a position nothing is known; a flat position keeps
\* the unrealised result it had.
update_price(i, price) ==
  LET p == positions[i]
      q == [p EXCEPT !.current_price = price,
                     !.unrealized_pnl =
                        IF p.quantity # 0 /\ Less(Whole(0), p.avg_price)
                          THEN Times(p.quantity, Minus(Whole(price), p.avg_price))
                          ELSE @]
  IN /\ p.strategy_id # NoStrategy
     /\ positions' = [positions EXCEPT ![i] = q]
     /\ total_unrealized_pnl' = Total([j \in Instruments |-> positions'[j].unrealized_pnl])
     /\ UNCHANGED <<total_realized_pnl, available_capital, carried, brought,
                    misstated>>

\* The cost of what is held of position p
Cost(p) == Times(p.quantity, p.avg_price)

\* Position p, as the broker reports it, takes the place of what the books have of
\* the instrument.  The totals and the cash are left as they are.
load_positions(i, p) ==
  /\ positions' = [positions EXCEPT ![i] = p]
  /\ carried' = Plus(carried, Minus(Cost(p), Cost(positions[i])))
  /\ brought' = Plus(brought, Minus(p.realized_pnl, positions[i].realized_pnl))
  /\ UNCHANGED <<total_realized_pnl, total_unrealized_pnl, available_capital,
                 misstated>>

-----------------------------------------------------------------------------
(* What PortfolioSnapshot tells the risk engine about a strategy *)

OwnedBy(sid) == {i \in Instruments : positions[i].strategy_id = sid}

strategy_used_capital(sid) ==
  SumFunctionOnSet([i \in Instruments |->
                      Abs(positions[i].quantity) * positions[i].current_price],
                   OwnedBy(sid))

strategy_daily_pnl(sid) ==
  FoldFunctionOnSet(Plus, Whole(0),
                    [i \in Instruments |-> Plus(positions[i].realized_pnl,
                                                positions[i].unrealized_pnl)],
                    OwnedBy(sid))

-----------------------------------------------------------------------------
\* Cash plus the cost of what is held is what was there at the start plus what was
\* carried over, earned, and misstated by fills through zero, which do not move the
\* average price.
CashBalances ==
  Plus(Whole(available_capital), Total([i \in Instruments |-> Cost(positions[i])]))
    = Plus(Plus(Whole(StartingCapital), carried),
           Plus(total_realized_pnl, misstated))

\* The realised total, which process_fill adds to, and the results the loaded
\* positions came with, of which no total is told, are the sum of what the positions
\* say.
RealizedAgrees ==
  Plus(total_realized_pnl, brought)
    = Total([i \in Instruments |-> positions[i].realized_pnl])

\* The books balance after any sequence of fills, marks and loads: realised results
\* are never made up or lost, and when everything is closed they are the change in
\* cash, up to what fills through zero misstate.  What the engine reports as realised
\* for the whole portfolio differs from the positions, of which check 10 adds up a
\* strategy's share, only by the results that were loaded.
BooksBalance == CashBalances /\ RealizedAgrees
=============================================================================
