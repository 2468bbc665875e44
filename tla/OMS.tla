-------------------------------- MODULE OMS --------------------------------
(***************************************************************************)
(* The order management system of oms/oms.cpp with its order pool, order   *)
(* state machine and fill deduplicator, and the thin execution layer       *)
(* (ems/ems.cpp, transport/upstox_rest_client.cpp) between it and the      *)
(* exchange.                                                               *)
(*                                                                         *)
(* Threads: strategy threads call submit and cancel; IO threads (one, in   *)
(* main.cpp) run the REST and order-feed callbacks; the main thread calls  *)
(* cancel_all_open.  One action is one critical section of orders_mtx_,    *)
(* the pool's mutex or the deduplicator's, or one unlocked piece of code   *)
(* between two of them.  In paper mode submit runs on_order_ack and        *)
(* on_fill itself, on the strategy's thread.                               *)
(*                                                                         *)
(* The queue that on_fill pushes into is left open here (push may answer   *)
(* either way); FillPath composes this module with SPSCQueue.              *)
(***************************************************************************)
EXTENDS Naturals, Sequences, FiniteSets

CONSTANTS
  Strategies,    \* strategy threads
  IOThreads,     \* threads that run broker callbacks
  Main,          \* the main thread
  None,          \* no thread
  PoolSize,      \* OrderPool<PoolSize>
  MaxOrders,     \* bound: orders submitted
  MaxQty,        \* bound: quantity of an order
  MaxTrades,     \* bound: trades per exchange order
  MaxSlices,     \* exchange orders one request may be sliced into
  Paper,         \* cfg.paper_trading
  Anonymous,     \* trades the feed reports with an empty trade id
  FeedAfterAck,  \* the feed reports an order only after its REST answer
  RestFaults     \* subset of {"late", "unparsable"}: see RestError, RestUnparsable

ASSUME SizesAssumption ==
  /\ PoolSize \in Nat /\ MaxOrders \in Nat
  /\ MaxQty \in Nat /\ MaxTrades \in Nat \ {0} /\ MaxSlices \in Nat \ {0}
ASSUME ThreadsAssumption ==
  /\ Strategies \cap IOThreads = {}
  /\ Main \notin Strategies \cup IOThreads
  /\ None \notin Strategies \cup IOThreads \cup {Main}
ASSUME ModeAssumption ==
  Paper \in BOOLEAN /\ FeedAfterAck \in BOOLEAN
  /\ RestFaults \subseteq {"late", "unparsable"}

VARIABLES
  free_list,             \* OrderPool::free_list_, the top of the stack last
  slot,                  \* OrderPool::pool_: the PooledOrder records
  orders,                \* orders_: order id -> PooledOrder*, Null if absent
  exchange_to_internal,  \* exchange_to_internal_: Null if absent
  processed,             \* FillDeduplicator::processed_
  forgotten,             \* history: see ResetForEod
  seq,                   \* seq_: order ids handed out
  ctx,                   \* per thread: the locals of the call in progress
  sweep,                 \* oids that cancel_all_open has still to cancel
  published,             \* how often fill_cb_ got the fill of a trade
  request,               \* the OrderRequest behind an order id
  rest,                  \* progress of the REST call that places the order
  exch,                  \* the exchange's own record of its orders
  trades,                \* quantity of each trade made at the exchange
  cancels                \* exchange ids a cancel was sent for

omsState == <<free_list, slot, orders, exchange_to_internal, processed, forgotten, seq>>
world == <<rest, exch, trades, cancels>>
vars == <<omsState, ctx, sweep, published, request, world>>

Null == 0
Slots == 1 .. PoolSize
Oids == 1 .. MaxOrders
Threads == Strategies \cup IOThreads \cup {Main}

\* An exchange order id: <<o, k>> is the k-th slice the exchange made of the
\* order sent with tag o; <<o, 0>> is the "PAPER-" + o of paper mode.
ExIds == Oids \X (0 .. MaxSlices)
PaperId(o) == <<o, 0>>
LiveIds == Oids \X (1 .. MaxSlices)
NoEx == <<Null, 0>>

\* A trade id: the n-th trade of an exchange order ("PAPER-TRD-" + o is the
\* first of PaperId(o)).
TradeIds == ExIds \X (1 .. MaxTrades)
NoTrade == <<NoEx, 0>>

Statuses == {"PENDING", "OPEN", "COMPLETE", "CANCELLED", "REJECTED", "PARTIAL",
             "TRIGGER_PENDING"}
Terminal == {"COMPLETE", "CANCELLED", "REJECTED"}

Idle == [pc |-> "idle", oid |-> Null, po |-> Null, ex |-> NoEx,
         trade |-> NoTrade, qty |-> 0, owner |-> None]

BlankOrder == [oid |-> Null, owner |-> None, qty |-> 0, filled |-> 0,
               sm |-> "PENDING", status |-> "PENDING"]

Init ==
  /\ free_list = [i \in Slots |-> i]
  /\ slot = [s \in Slots |-> BlankOrder]
  /\ orders = [o \in Oids |-> Null]
  /\ exchange_to_internal = [x \in ExIds |-> Null]
  /\ processed = {}
  /\ forgotten = {}
  /\ seq = 0
  /\ ctx = [t \in Threads |-> Idle]
  /\ sweep = {}
  /\ published = [e \in TradeIds |-> 0]
  /\ request = [o \in Oids |-> [owner |-> None, qty |-> 0]]
  /\ rest = [o \in Oids |-> "idle"]
  /\ exch = [x \in ExIds |-> [st |-> "none", left |-> 0, n |-> 0]]
  /\ trades = [e \in TradeIds |-> 0]
  /\ cancels = {}

-----------------------------------------------------------------------------
(* OrderStateMachine *)

\* mutant: no way from OPEN to COMPLETE
is_legalNoComplete(from, to) ==
  \/ from = "PENDING" /\ to \in {"OPEN", "REJECTED", "CANCELLED", "TRIGGER_PENDING"}
  \/ from = "OPEN" /\ to \in {"PARTIAL", "CANCELLED"}
  \/ from = "PARTIAL" /\ to \in {"COMPLETE", "CANCELLED"}

is_legal(from, to) ==
  \/ from = "PENDING" /\ to \in {"OPEN", "REJECTED", "CANCELLED", "TRIGGER_PENDING"}
  \/ from = "TRIGGER_PENDING" /\ to \in {"OPEN", "CANCELLED"}
  \/ from = "OPEN" /\ to \in {"COMPLETE", "PARTIAL", "CANCELLED"}
  \/ from = "PARTIAL" /\ to \in {"COMPLETE", "CANCELLED"}

\* Every caller of transition holds orders_mtx_, so its load and its CAS are
\* one step; an illegal transition leaves the state as it is.
transition(from, to) == IF is_legal(from, to) THEN to ELSE from

-----------------------------------------------------------------------------
(* submit(req), on a strategy's thread *)

\* mutant: the record taken is not the one that is popped
SubmitAcquireBottom(t, q) ==
  LET po == free_list[1]
      o  == seq + 1
  IN /\ ctx[t].pc = "idle"
     /\ free_list # << >>
     /\ seq < MaxOrders
     /\ free_list' = SubSeq(free_list, 1, Len(free_list) - 1)
     /\ seq' = o
     /\ slot' = [slot EXCEPT ![po] = [BlankOrder EXCEPT !.oid = o, !.owner = t,
                                                        !.qty = q]]
     /\ request' = [request EXCEPT ![o] = [owner |-> t, qty |-> q]]
     /\ ctx' = [ctx EXCEPT ![t] = [Idle EXCEPT !.pc = "insert", !.oid = o,
                                               !.po = po, !.qty = q]]
     /\ UNCHANGED <<orders, exchange_to_internal, processed, forgotten, sweep, published,
                    world>>

\* pool_.acquire(), generate_order_id() and the writes to the record, which
\* no other thread can reach yet.  An empty pool makes submit return false
\* with nothing changed.
SubmitAcquire(t, q) ==
  LET po == free_list[Len(free_list)]
      o  == seq + 1
  IN /\ ctx[t].pc = "idle"
     /\ free_list # << >>
     /\ seq < MaxOrders
     /\ free_list' = SubSeq(free_list, 1, Len(free_list) - 1)
     /\ seq' = o
     /\ slot' = [slot EXCEPT ![po] = [BlankOrder EXCEPT !.oid = o, !.owner = t,
                                                        !.qty = q]]
     /\ request' = [request EXCEPT ![o] = [owner |-> t, qty |-> q]]
     /\ ctx' = [ctx EXCEPT ![t] = [Idle EXCEPT !.pc = "insert", !.oid = o,
                                               !.po = po, !.qty = q]]
     /\ UNCHANGED <<orders, exchange_to_internal, processed, forgotten, sweep, published,
                    world>>

\* orders_[oid] = po
SubmitInsert(t) ==
  /\ ctx[t].pc = "insert"
  /\ orders' = [orders EXCEPT ![ctx[t].oid] = ctx[t].po]
  /\ ctx' = [ctx EXCEPT ![t].pc = IF Paper THEN "ack" ELSE "place",
                        ![t].po = Null]
  /\ UNCHANGED <<free_list, slot, exchange_to_internal, processed, forgotten, seq, sweep,
                 published, request, world>>

\* Live mode: ems_.place_order starts an asynchronous REST call, submit returns.
SubmitPlace(t) ==
  /\ ctx[t].pc = "place"
  /\ rest' = [rest EXCEPT ![ctx[t].oid] = "sent"]
  /\ ctx' = [ctx EXCEPT ![t] = Idle]
  /\ UNCHANGED <<omsState, sweep, published, request, exch, trades, cancels>>

-----------------------------------------------------------------------------
(* on_order_ack(exchange_oid, internal_oid): one critical section *)

on_order_ack(x, o) ==
  IF orders[o] = Null
    THEN UNCHANGED <<exchange_to_internal, slot>>
    ELSE /\ exchange_to_internal' = [exchange_to_internal EXCEPT ![x] = o]
         /\ slot' = [slot EXCEPT ![orders[o]].sm = transition(@, "OPEN"),
                                 ![orders[o]].status = "OPEN"]

\* Paper mode: on_order_ack("PAPER-" + oid, oid) from inside submit
PaperAck(t) ==
  /\ ctx[t].pc = "ack"
  /\ on_order_ack(PaperId(ctx[t].oid), ctx[t].oid)
  /\ ctx' = [ctx EXCEPT ![t].pc = "mark", ![t].ex = PaperId(ctx[t].oid)]
  /\ UNCHANGED <<free_list, orders, processed, forgotten, seq, sweep, published, request,
                 world>>

-----------------------------------------------------------------------------
(* on_fill(exchange_oid, fill_price, fill_qty, trade_id), on thread t *)

\* mutant: the answer of try_mark is ignored
FillMarkAlways(t, x, e, q) ==
  /\ processed' = processed \cup {e}
  /\ ctx' = [ctx EXCEPT ![t] = [Idle EXCEPT !.pc = "lookup", !.ex = x,
                                            !.trade = e, !.qty = q]]
  /\ UNCHANGED <<free_list, slot, orders, exchange_to_internal, forgotten, seq, sweep,
                 published, request, world>>

\* dedup_.try_mark(trade_id): the first thread to insert the id goes on, a
\* later one returns.  An empty trade id is not checked.
FillMark(t, x, e, q) ==
  LET fresh == e \in Anonymous \/ e \notin processed
  IN /\ processed' = IF e \in Anonymous THEN processed ELSE processed \cup {e}
     /\ ctx' = [ctx EXCEPT ![t] =
                  IF fresh THEN [Idle EXCEPT !.pc = "lookup", !.ex = x,
                                             !.trade = e, !.qty = q]
                           ELSE Idle]
     /\ UNCHANGED <<free_list, slot, orders, exchange_to_internal, forgotten, seq, sweep,
                    published, request, world>>

\* mutant: the paper trade id does not contain the order id
PaperFillOneTradeId(t) ==
  /\ ctx[t].pc = "mark"
  /\ FillMark(t, ctx[t].ex, <<PaperId(1), 1>>, ctx[t].qty)

PaperFill(t) ==
  /\ ctx[t].pc = "mark"
  /\ FillMark(t, ctx[t].ex, <<ctx[t].ex, 1>>, ctx[t].qty)

\* The internal id of an exchange id: the map, else exchange_oid.substr(6),
\* which strips "PAPER-" and turns an exchange's own id into no order at all.
InternalOid(x) ==
  IF exchange_to_internal[x] # Null THEN exchange_to_internal[x]
  ELSE IF x = PaperId(x[1]) THEN x[1] ELSE Null

\* First critical section: find the record, or return.
FillLookup(t) ==
  LET o == InternalOid(ctx[t].ex)
  IN /\ ctx[t].pc = "lookup"
     /\ ctx' = [ctx EXCEPT ![t] =
                  IF o # Null /\ orders[o] # Null
                    THEN [ctx[t] EXCEPT !.pc = "build", !.oid = o,
                                        !.po = orders[o]]
                    ELSE Idle]
     /\ UNCHANGED <<omsState, sweep, published, request, world>>

\* Build the Fill: po->order is read with no lock held.
FillBuild(t) ==
  /\ ctx[t].pc = "build"
  /\ ctx' = [ctx EXCEPT ![t].pc = "update", ![t].owner = slot[ctx[t].po].owner]
  /\ UNCHANGED <<omsState, sweep, published, request, world>>

\* mutant: an order is released by its first fill, complete or not
FillUpdateReleasesAll(t) ==
  LET po     == ctx[t].po
      filled == slot[po].filled + ctx[t].qty
      to     == IF filled >= slot[po].qty THEN "COMPLETE" ELSE "PARTIAL"
  IN /\ ctx[t].pc = "update"
     /\ slot' = [slot EXCEPT ![po].filled = filled,
                             ![po].sm = transition(@, to), ![po].status = to]
     /\ free_list' = Append(free_list, po)
     /\ orders' = [orders EXCEPT ![ctx[t].oid] = Null]
     /\ exchange_to_internal' = [exchange_to_internal EXCEPT ![ctx[t].ex] = Null]
     /\ ctx' = [ctx EXCEPT ![t].pc = "push"]
     /\ UNCHANGED <<processed, forgotten, seq, sweep, published, request, world>>

\* mutant: a complete order is released but stays in both maps
FillUpdateKeepsMaps(t) ==
  LET po     == ctx[t].po
      filled == slot[po].filled + ctx[t].qty
      to     == IF filled >= slot[po].qty THEN "COMPLETE" ELSE "PARTIAL"
      sm     == transition(slot[po].sm, to)
  IN /\ ctx[t].pc = "update"
     /\ slot' = [slot EXCEPT ![po].filled = filled, ![po].sm = sm,
                             ![po].status = to]
     /\ free_list' = IF sm \in Terminal THEN Append(free_list, po) ELSE free_list
     /\ ctx' = [ctx EXCEPT ![t].pc = "push"]
     /\ UNCHANGED <<orders, exchange_to_internal, processed, forgotten, seq, sweep,
                    published, request, world>>

\* Second critical section: update the record through the pointer found by the
\* first one; in a terminal state release it and forget the order.
FillUpdate(t) ==
  LET po     == ctx[t].po
      filled == slot[po].filled + ctx[t].qty
      to     == IF filled >= slot[po].qty THEN "COMPLETE" ELSE "PARTIAL"
      sm     == transition(slot[po].sm, to)
  IN /\ ctx[t].pc = "update"
     /\ slot' = [slot EXCEPT ![po].filled = filled, ![po].sm = sm,
                             ![po].status = to]
     /\ IF sm \in Terminal
          THEN /\ free_list' = Append(free_list, po)
               /\ orders' = [orders EXCEPT ![ctx[t].oid] = Null]
               /\ exchange_to_internal' =
                    [exchange_to_internal EXCEPT ![ctx[t].ex] = Null]
          ELSE UNCHANGED <<free_list, orders, exchange_to_internal>>
     /\ ctx' = [ctx EXCEPT ![t].pc = "push"]
     /\ UNCHANGED <<processed, forgotten, seq, sweep, published, request, world>>

\* fill_queue_.push(fill), whose answer is only logged, then fill_cb_(fill)
FillPublish(t) ==
  /\ ctx[t].pc = "push"
  /\ published' = [published EXCEPT ![ctx[t].trade] = @ + 1]
  /\ ctx' = [ctx EXCEPT ![t] = Idle]
  /\ UNCHANGED <<omsState, sweep, request, world>>

-----------------------------------------------------------------------------
(* cancel(order_id) and cancel_all_open() *)

Cancellable(o) ==
  orders[o] # Null /\ slot[orders[o]].sm \in {"OPEN", "PARTIAL"}

ExchangeOids(o) == {x \in ExIds : exchange_to_internal[x] = o}

\* The critical section of cancel: it picks one of the exchange ids of the
\* order, or returns false with nothing changed.
CancelFind(t, o) ==
  /\ ctx[t].pc = "idle"
  /\ Cancellable(o)
  /\ \E x \in ExchangeOids(o) :
       ctx' = [ctx EXCEPT ![t] = [Idle EXCEPT !.pc = "cancel", !.ex = x]]
  /\ UNCHANGED <<omsState, published, request, world>>

StrategyCancel(t, o) == CancelFind(t, o) /\ UNCHANGED sweep

\* mutant: cancel releases the order without waiting for the exchange
CancelSendForgets(t) ==
  LET o == ctx[t].ex[1]
  IN /\ ctx[t].pc = "cancel"
     /\ cancels' = cancels \cup {ctx[t].ex}
     /\ ctx' = [ctx EXCEPT ![t] = Idle]
     /\ IF orders[o] # Null
          THEN /\ free_list' = Append(free_list, orders[o])
               /\ orders' = [orders EXCEPT ![o] = Null]
               /\ exchange_to_internal' =
                    [exchange_to_internal EXCEPT ![ctx[t].ex] = Null]
          ELSE UNCHANGED <<free_list, orders, exchange_to_internal>>
     /\ UNCHANGED <<slot, processed, forgotten, seq, sweep, published, request, rest, exch,
                    trades>>

\* ems_.cancel_order(exchange_oid): its callbacks only log the answer.
CancelSend(t) ==
  /\ ctx[t].pc = "cancel"
  /\ cancels' = cancels \cup {ctx[t].ex}
  /\ ctx' = [ctx EXCEPT ![t] = Idle]
  /\ UNCHANGED <<omsState, sweep, published, request, rest, exch, trades>>

\* cancel_all_open: the order ids are collected under the lock ...
CancelAllOpen ==
  /\ ctx[Main].pc = "idle"
  /\ sweep = {}
  /\ sweep' = {o \in Oids : Cancellable(o)}
  /\ UNCHANGED <<omsState, ctx, published, request, world>>

\* ... and cancelled one by one, in any order, each if still cancellable.
SweepCancel(o) ==
  /\ o \in sweep
  /\ sweep' = sweep \ {o}
  /\ \/ CancelFind(Main, o)
     \/ /\ ctx[Main].pc = "idle"
        /\ ~ Cancellable(o) \/ ExchangeOids(o) = {}
        /\ UNCHANGED <<omsState, ctx, published, request, world>>

-----------------------------------------------------------------------------
(* Broker callbacks, on an IO thread with no callback in progress *)

\* The rejection branch of on_reject and of the error callback of place_order:
\* the record goes back to the pool and the order is forgotten.
Forget(o) ==
  /\ free_list' = Append(free_list, orders[o])
  /\ orders' = [orders EXCEPT ![o] = Null]

\* The REST answer of an accepted order: EMS acknowledges the first exchange id
\* of data.order_ids.
RestAck(t, o) ==
  /\ ctx[t].pc = "idle"
  /\ rest[o] = "accepted"
  /\ rest' = [rest EXCEPT ![o] = "acked"]
  /\ on_order_ack(<<o, 1>>, o)
  /\ UNCHANGED <<free_list, orders, processed, forgotten, seq, ctx, sweep, published,
                 request, exch, trades, cancels>>

\* The answer is not the JSON EMS expects: logged, and no callback is called.
RestUnparsable(t, o) ==
  /\ "unparsable" \in RestFaults
  /\ ctx[t].pc = "idle"
  /\ rest[o] = "accepted"
  /\ rest' = [rest EXCEPT ![o] = "unparsed"]
  /\ UNCHANGED <<omsState, ctx, sweep, published, request, exch, trades, cancels>>

\* do_request fails at any stage, or the answer is not 2xx.  A failure of the
\* last stage (the read) may hit a request the exchange has accepted.  The
\* error callback calls on_reject(""), which finds no order, and releases the
\* record itself.
RestError(t, o) ==
  /\ ctx[t].pc = "idle"
  /\ \/ rest[o] = "sent"
     \/ rest[o] = "accepted" /\ "late" \in RestFaults
  /\ rest' = [rest EXCEPT ![o] = "failed"]
  /\ IF orders[o] # Null THEN Forget(o) ELSE UNCHANGED <<free_list, orders>>
  /\ UNCHANGED <<slot, exchange_to_internal, processed, forgotten, seq, ctx, sweep,
                 published, request, exch, trades, cancels>>

\* What the order feed may report now about exchange id x
Reported(x) == FeedAfterAck => rest[x[1]] \notin {"sent", "accepted"}

\* The feed reports trade e, perhaps not for the first time.
FeedFill(t, e) ==
  /\ ctx[t].pc = "idle"
  /\ trades[e] # 0
  /\ Reported(e[1])
  /\ FillMark(t, e[1], e, trades[e])

\* mutant: the exchange id stays in exchange_to_internal_
FeedRejectKeepsId(t, x) ==
  LET o == exchange_to_internal[x]
  IN /\ ctx[t].pc = "idle"
     /\ exch[x].st = "rejected"
     /\ Reported(x)
     /\ IF o # Null /\ orders[o] # Null
          THEN /\ slot' = [slot EXCEPT ![orders[o]].sm = transition(@, "REJECTED")]
               /\ Forget(o)
          ELSE UNCHANGED <<slot, free_list, orders>>
     /\ UNCHANGED <<exchange_to_internal, processed, forgotten, seq, ctx, sweep, published,
                    request, world>>

\* on_reject(exchange_oid): the feed reports that the exchange rejected x.
FeedReject(t, x) ==
  LET o == exchange_to_internal[x]
  IN /\ ctx[t].pc = "idle"
     /\ exch[x].st = "rejected"
     /\ Reported(x)
     /\ IF o # Null /\ orders[o] # Null
          THEN /\ slot' = [slot EXCEPT ![orders[o]].sm = transition(@, "REJECTED")]
               /\ Forget(o)
               /\ exchange_to_internal' = [exchange_to_internal EXCEPT ![x] = Null]
          ELSE UNCHANGED <<slot, free_list, orders, exchange_to_internal>>
     /\ UNCHANGED <<processed, forgotten, seq, ctx, sweep, published, request, world>>

\* reset_for_eod() -> FillDeduplicator::reset() clears the set whatever the state
\* of the orders: no caller exists yet, and its comment allows the end of the day
\* and a reconnect.  forgotten keeps, for the properties only, the trades whose
\* order was still in orders_ when their ids were cleared.
ResetForEod ==
  /\ processed' = {}
  /\ forgotten' = forgotten \cup {e \in processed : orders[e[1][1]] # Null}
  /\ UNCHANGED <<free_list, slot, orders, exchange_to_internal, seq, ctx, sweep,
                 published, request, world>>

-----------------------------------------------------------------------------
(* The exchange (external) *)

\* It accepts the order sent as o, whole (a is its quantity) or as two slices.
ExchangeAccept(o, a) ==
  LET q == request[o].qty
  IN /\ rest[o] = "sent"
     /\ a \in 1 .. q
     /\ a < q => MaxSlices > 1
     /\ rest' = [rest EXCEPT ![o] = "accepted"]
     /\ exch' = [x \in ExIds |->
                   IF x = <<o, 1>> THEN [st |-> "live", left |-> a, n |-> 0]
                   ELSE IF x = <<o, 2>> /\ a < q
                     THEN [st |-> "live", left |-> q - a, n |-> 0]
                   ELSE exch[x]]
     /\ UNCHANGED <<omsState, ctx, sweep, published, request, trades, cancels>>

\* Exchange order x trades q; the last trade the bound allows fills it.
ExchangeTrade(x, q) ==
  /\ exch[x].st = "live"
  /\ q \in 1 .. exch[x].left
  /\ exch[x].n + 1 = MaxTrades => q = exch[x].left
  /\ trades' = [trades EXCEPT ![<<x, exch[x].n + 1>>] = q]
  /\ exch' = [exch EXCEPT ![x] =
                [st |-> IF q = @.left THEN "filled" ELSE "live",
                 left |-> @.left - q, n |-> @.n + 1]]
  /\ UNCHANGED <<omsState, ctx, sweep, published, request, rest, cancels>>

ExchangeReject(x) ==
  /\ exch[x].st = "live"
  /\ exch[x].n = 0
  /\ exch' = [exch EXCEPT ![x].st = "rejected"]
  /\ UNCHANGED <<omsState, ctx, sweep, published, request, rest, trades, cancels>>

ExchangeCancel(x) ==
  /\ x \in cancels
  /\ exch[x].st = "live"
  /\ exch' = [exch EXCEPT ![x].st = "cancelled"]
  /\ UNCHANGED <<omsState, ctx, sweep, published, request, rest, trades, cancels>>

-----------------------------------------------------------------------------
\* The steps a call in progress takes without further input
SubmitRoute(t) == IF Paper THEN PaperAck(t) \/ PaperFill(t) ELSE SubmitPlace(t)
Submit(t) == SubmitInsert(t) \/ SubmitRoute(t)
FillStep(t) == FillLookup(t) \/ FillBuild(t) \/ FillUpdate(t)
Continue(t) == Submit(t) \/ FillStep(t) \/ CancelSend(t)

StrategyCall(t) ==
  \/ \E q \in 1 .. MaxQty : SubmitAcquire(t, q)
  \/ \E o \in Oids : StrategyCancel(t, o)

RestAnswer(t) == \E o \in Oids : RestAck(t, o) \/ RestUnparsable(t, o) \/ RestError(t, o)
Feed(t) ==
  \/ \E e \in TradeIds : FeedFill(t, e)
  \/ \E x \in LiveIds : FeedReject(t, x)

Exchange ==
  \/ \E o \in Oids, a \in 1 .. MaxQty : ExchangeAccept(o, a)
  \/ \E x \in LiveIds, q \in 1 .. MaxQty : ExchangeTrade(x, q)
  \/ \E x \in LiveIds : ExchangeReject(x) \/ ExchangeCancel(x)

\* Everything but the end of on_fill, which FillPath refines
NextButPublish ==
  \/ \E t \in Threads : Continue(t)
  \/ \E t \in Strategies : StrategyCall(t)
  \/ \E t \in IOThreads : RestAnswer(t) \/ Feed(t)
  \/ CancelAllOpen \/ \E o \in Oids : SweepCancel(o)
  \/ ResetForEod
  \/ Exchange

Next == NextButPublish \/ \E t \in Threads : FillPublish(t)

Spec == Init /\ [][Next]_vars

\* Fairness: a call in progress is finished by its thread; the IO thread runs
\* every handler that is ready (io_context::run); the broker answers a request
\* it has accepted and its feed reports each trade at least once.  Nothing
\* forces a strategy to trade or the exchange to accept or execute an order.
Fairness ==
  /\ \A t \in Threads : WF_vars(Continue(t) \/ FillPublish(t))
  /\ \A t \in IOThreads :
       /\ WF_vars(RestAnswer(t))
       /\ \A e \in TradeIds : WF_vars(FeedFill(t, e))
  /\ \A x \in LiveIds : WF_vars(ExchangeCancel(x))

FairSpec == Spec /\ Fairness

-----------------------------------------------------------------------------
(* Properties *)

Pcs == {"idle", "insert", "ack", "mark", "place", "lookup", "build", "update",
        "push", "cancel"}
OrderRecord == [oid : Oids \cup {Null}, owner : Threads \cup {None}, qty : Nat,
                filled : Nat, sm : Statuses, status : Statuses]
CallRecord == [pc : Pcs, oid : Oids \cup {Null}, po : Slots \cup {Null},
               ex : ExIds \cup {NoEx}, trade : TradeIds \cup {NoTrade}, qty : Nat,
               owner : Threads \cup {None}]
RequestRecord == [owner : Threads \cup {None}, qty : Nat]
ExchangeRecord == [st : {"none", "live", "filled", "rejected", "cancelled"},
                   left : Nat, n : 0 .. MaxTrades]
RestStates == {"idle", "sent", "accepted", "acked", "failed", "unparsed"}

\* Every variable has the type of the member or local it stands for.
TypeOK ==
  /\ free_list \in Seq(Slots)
  /\ slot \in [Slots -> OrderRecord]
  /\ orders \in [Oids -> Slots \cup {Null}]
  /\ exchange_to_internal \in [ExIds -> Oids \cup {Null}]
  /\ processed \subseteq TradeIds /\ forgotten \subseteq TradeIds
  /\ seq \in 0 .. MaxOrders
  /\ ctx \in [Threads -> CallRecord]
  /\ sweep \subseteq Oids
  /\ published \in [TradeIds -> Nat]
  /\ request \in [Oids -> RequestRecord]
  /\ rest \in [Oids -> RestStates]
  /\ exch \in [ExIds -> ExchangeRecord]
  /\ trades \in [TradeIds -> Nat]
  /\ cancels \subseteq ExIds

FreeSlots == {free_list[i] : i \in DOMAIN free_list}
TableSlots == {orders[o] : o \in Oids} \ {Null}
Submitting == {t \in Threads : ctx[t].pc = "insert"}
SubmitSlots == {ctx[t].po : t \in Submitting}

\* acquire and release are called by different threads at different times; still
\* every PooledOrder is in exactly one place: the free list (once), orders_
\* (under one id), or a submit that has not inserted it yet.  A slot is never
\* released twice, never handed out while in use, never lost.
PoolPartition ==
  /\ Slots = FreeSlots \cup TableSlots \cup SubmitSlots
  /\ FreeSlots \cap TableSlots = {}
  /\ FreeSlots \cap SubmitSlots = {}
  /\ TableSlots \cap SubmitSlots = {}
  /\ \A i, j \in DOMAIN free_list : free_list[i] = free_list[j] => i = j
  /\ \A o, p \in Oids : orders[o] = orders[p] /\ orders[o] # Null => o = p
  /\ \A t, u \in Submitting : ctx[t].po = ctx[u].po => t = u

\* on_fill drops orders_mtx_ between its lookup and its update: the pointer it
\* kept is still the record of that order when it is dereferenced.
HeldPointerValid ==
  \A t \in Threads :
    ctx[t].pc \in {"build", "update"} =>
      /\ ctx[t].po # Null
      /\ orders[ctx[t].oid] = ctx[t].po

\* A record in orders_ is the record of the order it is filed under, and a fill
\* carries the strategy (instrument, side) of the order that was traded, although
\* the record is read with no lock held.
RecordIntegrity ==
  /\ \A o \in Oids :
       orders[o] # Null =>
         /\ slot[orders[o]].oid = o
         /\ slot[orders[o]].owner = request[o].owner
         /\ slot[orders[o]].qty = request[o].qty
  /\ \A t \in Threads :
       ctx[t].pc \in {"update", "push"} =>
         /\ ctx[t].oid = ctx[t].ex[1]
         /\ ctx[t].owner = request[ctx[t].oid].owner

\* The status that is logged and the state machine, two copies of one fact
\* written by separate statements, agree for every order in orders_, and none
\* of these orders is finished: open_order_count counts them all.
StatusAgrees ==
  \A o \in Oids :
    orders[o] # Null =>
      /\ slot[orders[o]].sm = slot[orders[o]].status
      /\ slot[orders[o]].sm \notin Terminal

\* exchange_to_internal_ and orders_ are updated by different handlers: an entry
\* of the former always leads to a working order, and every order that cancel
\* accepts has an entry, so that its exchange id is found.
ExchangeMapSound ==
  /\ \A x \in ExIds :
       exchange_to_internal[x] # Null =>
         x[1] = exchange_to_internal[x] /\ Cancellable(x[1])
  /\ \A o \in Oids : Cancellable(o) => ExchangeOids(o) # {}

\* A trade, however often the feed repeats it, is applied and published at most
\* once, also across a reset of the deduplicator, unless its order was still in
\* orders_ (working, or cancelled and never removed) at the reset.
AppliedOnce == \A e \in TradeIds \ (Anonymous \cup forgotten) : published[e] <= 1

\* Every trade of order o comes with a trade id, and none was forgotten.
Identified(o) == \A e \in Anonymous \cup forgotten : e[1][1] # o

\* An acknowledged order that still works at the exchange is in both maps: it is
\* counted, it can be cancelled, and its next fill will be found.
LiveOrderTracked ==
  \A o \in Oids :
    Identified(o) /\ rest[o] = "acked" /\ exch[<<o, 1>>].st = "live" =>
      orders[o] # Null /\ exchange_to_internal[<<o, 1>>] = o

\* Every trade of an order the engine placed is eventually applied, unless a trade
\* of the order was forgotten: its repetition may then be applied in the place of a
\* later trade.
TradeApplied ==
  \A e \in TradeIds : trades[e] # 0 ~> published[e] > 0 \/ ~ Identified(e[1][1])

\* An order the exchange has filled leaves orders_ and frees its record.
FilledOrderReleased ==
  \A o \in Oids : exch[<<o, 1>>].st = "filled" ~> orders[o] = Null
=============================================================================
