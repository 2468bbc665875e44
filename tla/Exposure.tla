------------------------------ MODULE Exposure ------------------------------
(***************************************************************************)
(* The limits of the risk gate and the books they look at: checks 5 to 10  *)
(* of PreTradeRiskEngine::check, composed with Portfolio.  A strategy's    *)
(* submit_order copies the portfolio, checks the order against the copy    *)
(* and the price cache, and submits it (StrategyManager::build_context);   *)
(* no lock holds these steps together, orders that work or fills that wait *)
(* in FillQueue are in no copy, and a strategy may be in submit_order on   *)
(* several threads at once.                                                *)
(*                                                                         *)
(* Order management is reduced to the orders that work and to the fills on *)
(* their way to the portfolio, of which OMS and FillPath have the details; *)
(* the checks of module Admission may stop an order at any time.           *)
(***************************************************************************)
EXTENDS Portfolio, Sequences, FiniteSets

CONSTANTS
  CallThreads,           \* threads that call into a strategy
  Unowned,               \* the strategy_id of a position the broker reports
  Prices,                \* prices of ticks and fills
  Quantities,            \* quantities of orders
  max_single_order_value, max_position_value, max_capital_allocation,
  max_daily_loss,        \* RiskLimits, the same for every strategy
  Carried,               \* positions the broker may report
  MaxOrders              \* bound: orders submitted or in the gate

ASSUME TradeAssumption ==
  /\ Prices \subseteq Nat /\ Quantities \subseteq Nat \ {0}
  /\ Carried \subseteq [quantity : Int, avg_price : Nat, current_price : Nat,
                        realized_pnl : Int, unrealized_pnl : Int]
ASSUME LimitAssumption == max_position_value \in Nat

VARIABLES
  price_cache,       \* price_cache_: 0 if absent
  call,              \* per slot: the locals of a submit_order in progress
  working,           \* orders submitted and not finished
  submitted,         \* how many orders were submitted
  fills,             \* fills on their way to the portfolio
  overlap            \* ghost: two orders of one instrument were under way at once

orderVars == <<working, submitted, fills>>
exposureVars == <<books, price_cache, call, orderVars, overlap>>

Requests == [token : Instruments, side : {"BUY", "SELL"}, quantity : Quantities]

\* c = <<strategy, thread>>: a thread is in at most one submit_order of a strategy.
Slots == StrategyIds \X CallThreads

NoCall == [pc |-> "out"]
Req(c) == call[c].req

ExposureInit ==
  /\ PortfolioInit
  /\ price_cache = [i \in Instruments |-> 0]
  /\ call = [c \in Slots |-> NoCall]
  /\ working = {}
  /\ submitted = 0
  /\ fills = << >>
  /\ overlap = FALSE

\* Instrument i has an order between its snapshot and its last booking.
UnderWay(i) ==
  \/ \E c \in Slots : call[c] # NoCall /\ Req(c).token = i
  \/ \E o \in working : o.token = i
  \/ \E k \in DOMAIN fills : fills[k].token = i

-----------------------------------------------------------------------------
(* submit_order(req), call c *)

\* portfolio_.get_snapshot(); of the copy, what check reads
GetSnapshot(c, req) ==
  /\ call[c] = NoCall
  /\ submitted + Cardinality({u \in Slots : call[u] # NoCall}) < MaxOrders
  /\ call' = [call EXCEPT ![c] =
                [pc |-> "check", req |-> req,
                 quantity |-> positions[req.token].quantity,
                 used |-> strategy_used_capital(c[1]),
                 pnl |-> strategy_daily_pnl(c[1])]]
  /\ overlap' = (overlap \/ UnderWay(req.token))
  /\ UNCHANGED <<books, price_cache, orderVars>>

\* mutant: the order is left out of the position it leads to
WithinLimitsBefore(g, ltp) ==
  ltp > 0 =>
    /\ g.req.quantity * ltp <= max_single_order_value
    /\ Abs(g.quantity) * ltp <= max_position_value
    /\ g.used + g.req.quantity * ltp <= max_capital_allocation

\* Checks 5, 6 and 7; an instrument without a price passes all three.
WithinLimits(g, ltp) ==
  ltp > 0 =>
    /\ g.req.quantity * ltp <= max_single_order_value
    /\ Abs(g.quantity + QtyDelta(g.req)) * ltp <= max_position_value
    /\ g.used + g.req.quantity * ltp <= max_capital_allocation

\* Check 10
WithinLoss(g) == ~ Less(g.pnl, Whole(-max_daily_loss))

\* current_price under pc_mtx_, then the limits, on copies.  Check 8 compares the
\* limit price, on which nothing else depends: it may reject any order, as may
\* the checks of Admission.  Check 9 is commented out.
CheckPasses(c) ==
  LET ltp == price_cache[Req(c).token]
  IN /\ call[c].pc = "check"
     /\ WithinLimits(call[c], ltp)
     /\ WithinLoss(call[c])
     /\ call' = [call EXCEPT ![c] = [pc |-> "submit", req |-> Req(c), ltp |-> ltp]]
     /\ UNCHANGED <<books, price_cache, orderVars, overlap>>

CheckRejects(c) ==
  /\ call[c].pc = "check"
  /\ call' = [call EXCEPT ![c] = NoCall]
  /\ UNCHANGED <<books, price_cache, orderVars, overlap>>

\* oms_.submit(req)
OmsSubmit(c) ==
  /\ call[c].pc = "submit"
  /\ submitted' = submitted + 1
  /\ working' = working \cup
       {[id |-> submitted + 1, token |-> Req(c).token, strategy |-> c[1],
         side |-> Req(c).side, left |-> Req(c).quantity, ltp |-> call[c].ltp]}
  /\ call' = [call EXCEPT ![c] = NoCall]
  /\ UNCHANGED <<books, price_cache, fills, overlap>>

SubmitCall(c) ==
  \/ \E req \in Requests : GetSnapshot(c, req)
  \/ CheckPasses(c) \/ CheckRejects(c) \/ OmsSubmit(c)

-----------------------------------------------------------------------------
(* The exchange, the IO thread and the portfolio's thread *)

\* on_fill: the fill is queued for the portfolio, then fill_cb_ tells the risk
\* engine its price.
OrderFilled(o, qty, price) ==
  /\ qty \in 1 .. o.left
  /\ working' = (working \ {o}) \cup
       (IF qty = o.left THEN {} ELSE {[o EXCEPT !.left = @ - qty]})
  /\ fills' = Append(fills, [token |-> o.token, strategy |-> o.strategy,
                             side |-> o.side, quantity |-> qty, price |-> price,
                             ltp |-> o.ltp])
  /\ price_cache' = [price_cache EXCEPT ![o.token] = price]
  /\ UNCHANGED <<books, call, submitted, overlap>>

\* Rejected or cancelled at the exchange
OrderGone(o) ==
  /\ working' = working \ {o}
  /\ UNCHANGED <<books, price_cache, call, submitted, fills, overlap>>

\* fill_loop: try_pop, process_fill
ProcessFill ==
  /\ fills # << >>
  /\ fills' = Tail(fills)
  /\ process_fill(Head(fills))
  /\ UNCHANGED <<price_cache, call, working, submitted, overlap>>

\* The normalizer's callback updates the risk engine's price cache.
RiskUpdatePrice(i, price) ==
  /\ price_cache' = [price_cache EXCEPT ![i] = price]
  /\ UNCHANGED <<books, call, orderVars, overlap>>

\* The two operations of the portfolio that have no caller yet, at the times
\* their comments give: from the tick stream, and at the start of the day.
MarkToMarket(i, price) ==
  /\ update_price(i, price)
  /\ UNCHANGED <<price_cache, call, orderVars, overlap>>

\* A reported position, of which no strategy is the owner
Reported(p) ==
  [strategy_id |-> Unowned, quantity |-> p.quantity,
   avg_price |-> Whole(p.avg_price), current_price |-> p.current_price,
   realized_pnl |-> Whole(p.realized_pnl),
   unrealized_pnl |-> Whole(p.unrealized_pnl)]

StartOfDay(i, p) ==
  /\ submitted = 0
  /\ \A c \in Slots : call[c] = NoCall
  /\ load_positions(i, Reported(p))
  /\ UNCHANGED <<price_cache, call, orderVars, overlap>>

Market ==
  \/ \E o \in working :
       OrderGone(o) \/ \E qty \in Quantities, price \in Prices : OrderFilled(o, qty, price)
  \/ \E i \in Instruments, price \in Prices :
       \/ RiskUpdatePrice(i, price)
       \/ MarkToMarket(i, price)
  \/ \E i \in Instruments, p \in Carried : StartOfDay(i, p)

ExposureNext == Market \/ ProcessFill \/ \E c \in Slots : SubmitCall(c)

ExposureSpec == ExposureInit /\ [][ExposureNext]_exposureVars

-----------------------------------------------------------------------------
\* If no two orders of an instrument are under way at once, a position grows only
\* to what the limit allowed at the price its order was checked at, also when the
\* order is filled in parts and at other prices, and whatever was carried over
\* from the day before.  That the copy of the portfolio leaves out orders that
\* work and fills that wait is the only thing check 6 can be wrong about.
ExposureBounded ==
  [][ \A i \in Instruments :
        /\ ~ overlap
        /\ Abs(positions'[i].quantity) > Abs(positions[i].quantity)
        /\ fills # << >>
        => Abs(positions'[i].quantity) * Head(fills).ltp <= max_position_value
    ]_exposureVars
=============================================================================
