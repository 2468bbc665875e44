------------------------------ MODULE FillPath ------------------------------
(***************************************************************************)
(* The way of a fill from the broker's callback to the portfolio: OMS and  *)
(* SPSCQueue composed.  The last part of on_fill pushes the fill into      *)
(* FillQueue, step by step as the queue does it, and then calls fill_cb_;  *)
(* PortfolioEngine::fill_loop pops and applies it.  The thread that runs   *)
(* on_fill is the queue's producer: the IO thread in live mode, the        *)
(* strategy's own thread in paper mode.                                    *)
(***************************************************************************)
EXTENDS OMS

CONSTANTS
  Capacity,  \* slots of FillQueue
  Nil        \* Fill{}: a slot that was never written

VARIABLES
  write_pos, read_pos, data, prod, cons, answer, got,  \* of SPSCQueue
  booked     \* how often process_fill applied the fill of a trade

Fills == [oid : Oids, trade : TradeIds, qty : Nat, owner : Threads \cup {None}]

ASSUME QueueAssumption == Capacity \in Nat /\ Capacity > 0 /\ Nil \notin Fills

FillQueue == INSTANCE SPSCQueue WITH Items <- Fills, Producers <- Threads

queueVars == <<write_pos, read_pos, data, prod, cons, answer, got>>
allVars == <<vars, queueVars, booked>>

PathInit ==
  /\ Init
  /\ FillQueue!QueueInit
  /\ booked = [e \in TradeIds |-> 0]

FillOf(t) == [oid |-> ctx[t].oid, trade |-> ctx[t].trade, qty |-> ctx[t].qty,
              owner |-> ctx[t].owner]

-----------------------------------------------------------------------------
(* on_fill from fill_queue_.push(fill) on *)

PushBegin(t) ==
  /\ ctx[t].pc = "push"
  /\ FillQueue!PushLoad(t, FillOf(t))
  /\ UNCHANGED <<vars, booked>>

PushGoesOn(t) ==
  /\ FillQueue!PushRoom(t) \/ FillQueue!PushWrite(t)
  /\ UNCHANGED <<vars, booked>>

\* push returned true; fill_cb_(fill)
PushTaken(t) ==
  /\ FillQueue!PushStore(t)
  /\ FillPublish(t)
  /\ UNCHANGED booked

\* push returned false: a warning is logged, nothing else is done for the
\* portfolio; fill_cb_(fill)
PushRefused(t) ==
  /\ FillQueue!PushFull(t)
  /\ FillPublish(t)
  /\ UNCHANGED booked

Push(t) == PushBegin(t) \/ PushGoesOn(t) \/ PushTaken(t) \/ PushRefused(t)

-----------------------------------------------------------------------------
(* PortfolioEngine::fill_loop, its only consumer *)

PortfolioPoll ==
  /\ FillQueue!PopEmpty \/ FillQueue!PopCheck \/ FillQueue!PopRead
  /\ UNCHANGED <<vars, booked>>

\* mutant: the fill is applied twice
ProcessFillTwice ==
  /\ FillQueue!PopStore
  /\ booked' = [e \in TradeIds |->
                  booked[e] + IF cons.item # Nil /\ cons.item.trade = e THEN 2 ELSE 0]
  /\ UNCHANGED vars

\* try_pop returned true; process_fill(fill)
ProcessFill ==
  /\ FillQueue!PopStore
  /\ booked' = [e \in TradeIds |->
                  booked[e] + IF cons.item # Nil /\ cons.item.trade = e THEN 1 ELSE 0]
  /\ UNCHANGED vars

FillLoop == PortfolioPoll \/ ProcessFill

-----------------------------------------------------------------------------
\* A step of OMS that does not concern the queue
Beside(A) == A /\ UNCHANGED <<queueVars, booked>>

PathNext ==
  \/ Beside(NextButPublish)
  \/ \E t \in Threads : Push(t)
  \/ FillLoop

PathSpec == PathInit /\ [][PathNext]_allVars

\* As in OMS, and the portfolio's thread polls for as long as the engine runs.
PathFairness ==
  /\ \A t \in Threads : WF_allVars(Beside(Continue(t)) \/ Push(t))
  /\ \A t \in IOThreads :
       /\ WF_allVars(Beside(RestAnswer(t)))
       /\ \A e \in TradeIds : WF_allVars(Beside(FeedFill(t, e)))
  /\ WF_allVars(FillLoop)

FairPathSpec == PathSpec /\ PathFairness

-----------------------------------------------------------------------------
Queued(e) ==
  Cardinality({i \in 1 .. FillQueue!size :
                 /\ FillQueue!Contents[i] # Nil
                 /\ FillQueue!Contents[i].trade = e})

\* What fill_cb_ told the outside world (Kafka, the risk engine) and what the
\* portfolio applies is the same: a published fill is booked or waits in the
\* queue, once.
PublishedIsBooked == \A e \in TradeIds : published[e] = booked[e] + Queued(e)

\* The portfolio applies no trade twice, whatever the feed repeats (except a trade
\* the deduplicator was made to forget), and a fill that it applies is the fill of
\* the order that was traded: its owner, its quantity and its order id survived the
\* unlocked record read and the unlocked ring buffer, while records are reused.
BookedAsTraded ==
  /\ \A e \in TradeIds \ forgotten : booked[e] <= 1
  /\ cons.pc = "store" =>
       /\ cons.item # Nil
       /\ cons.item.oid = cons.item.trade[1][1]
       /\ cons.item.owner = request[cons.item.oid].owner
       /\ Paper \/ cons.item.qty = trades[cons.item.trade]

\* Every paper order that submit accepted reaches the portfolio.
PaperOrderBooked ==
  \A o \in Oids : Paper /\ orders[o] # Null ~> booked[<<PaperId(o), 1>>] = 1
=============================================================================
