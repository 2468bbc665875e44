--------------------------- MODULE FillPathProofs ---------------------------
(***************************************************************************)
(* OMS composed with the fill queue and the portfolio's thread is still    *)
(* OMS, so that what OMSProofs shows of the order management holds of the  *)
(* whole fill path, whatever the queue does.  And with one thread that     *)
(* pushes, a trade reaches the books once, as it was made; only a full     *)
(* queue can lose it.  PathInv is the inductive invariant of the latter;   *)
(* it speaks of the ring's positions, each side's next access included.    *)
(* Last, the composition uses the queue as SPSCQueueProofs asks, so that   *)
(* it is a bounded queue here too; and a fill is refused only when the     *)
(* portfolio is a whole queue behind.                                      *)
(***************************************************************************)
EXTENDS FillPath, OMSProofs, FiniteSetTheorems

\* Every step of the composition is a step of OMS, or invisible to it.
LEMMA PathStep == [PathNext]_allVars => [Next]_vars
<1> SUFFICES ASSUME [PathNext]_allVars
             PROVE  [Next]_vars
  OBVIOUS
<1>1. CASE Beside(NextButPublish)
  BY <1>1 DEF Beside, Next
<1>2. ASSUME NEW t \in Threads, Push(t)
      PROVE  [Next]_vars
  <2>1. CASE PushBegin(t) \/ PushGoesOn(t)
    BY <2>1 DEF PushBegin, PushGoesOn
  <2>2. CASE PushTaken(t) \/ PushRefused(t)
    BY <2>2 DEF PushTaken, PushRefused, Next
  <2> QED
    BY <1>2, <2>1, <2>2 DEF Push
<1>3. CASE FillLoop
  BY <1>3 DEF FillLoop, PortfolioPoll, ProcessFill
<1>4. CASE UNCHANGED allVars
  BY <1>4 DEF allVars
<1> QED
  BY <1>1, <1>2, <1>3, <1>4 DEF PathNext

\* on_fill with the lock-free queue spelled out implements on_fill with an
\* atomic end: what is shown of OMS holds of the composition.
LEMMA PathImplementsOMS == PathSpec => Spec
<1>1. PathInit => Init
  BY DEF PathInit
<1> QED
  BY <1>1, PathStep, PTL DEF PathSpec, Spec

\* The pool, the held pointers and the records are intact on the whole fill path,
\* also when two strategies push into the queue at once or the queue is full.
THEOREM PathKeepsOrders ==
  ASSUME SingleIOThread
  PROVE  PathSpec => [](PoolPartition /\ HeldPointerValid /\ RecordIntegrity)
  BY PathImplementsOMS, PoolNeverCorrupted, NoStalePointer, RecordsIntact, PTL
-----------------------------------------------------------------------------
(* From the exchange to the books: the invariant *)

\* The threads that run on_fill: main.cpp starts one for the order feed, and in
\* paper mode each strategy runs it itself.
OnePusher == \A t, u \in (IF Paper THEN Strategies ELSE IOThreads) : t = u

\* Position i holds a fill that waits for the portfolio.
Waits(i) == FillQueue!Distance(i, read_pos) < FillQueue!size

PathTypes == FillQueue!QueueTypeOK /\ booked \in [TradeIds -> Nat]

\* A push in progress is that of an on_fill at its end, and it is the only one.
PushInv ==
  \A t \in Threads :
    prod[t].pc # "idle" =>
      /\ ctx[t].pc = "push"
      /\ prod[t].w = write_pos
      /\ prod[t].item = FillOf(t)
      /\ prod[t].pc \in {"write", "store"} => FillQueue!NextPos(write_pos) # read_pos
      /\ prod[t].pc = "store" => data[write_pos] = prod[t].item

\* A pop in progress has the oldest fill.
PopInv ==
  /\ cons.pc # "idle" => cons.r = read_pos /\ read_pos # write_pos
  /\ cons.pc = "store" => cons.item = data[read_pos]

\* Fill f is what the exchange traded, of the order that was sent.
Genuine(f) ==
  /\ f.oid \in 1 .. seq
  /\ f.oid = f.trade[1][1]
  /\ f.owner = request[f.oid].owner
  /\ ~ Paper => f.qty = trades[f.trade] /\ f.qty # 0

\* The positions whose fill, of trade e, waits
Waiting(e) == {i \in FillQueue!Positions : Waits(i) /\ data[i].trade = e}

\* A fill that waits is genuine, and a trade was booked and waits together no more
\* often than it was published.
WaitInv ==
  /\ \A i \in FillQueue!Positions : Waits(i) => data[i] \in Fills /\ Genuine(data[i])
  /\ \A e \in TradeIds : booked[e] + Cardinality(Waiting(e)) <= published[e]

PathInv == PathTypes /\ PushInv /\ PopInv /\ WaitInv

\* A published fill is booked or waits: true as long as no push was refused.
NoneLost == \A e \in TradeIds : published[e] = booked[e] + Cardinality(Waiting(e))

NoRefusal == \A t \in Threads : ~ PushRefused(t)

\* In paper mode the fills wait in the order of their order ids, each behind no more
\* fills than there are smaller ids, and before any order in progress.
PaperQueueInv ==
  \A i \in FillQueue!Positions :
    Waits(i) =>
      /\ data[i].oid > FillQueue!Distance(i, read_pos)
      /\ \A t \in Threads :
           ctx[t].pc \in SubmitPcs \cup OnFillPcs => data[i].oid < Current(t)

-----------------------------------------------------------------------------
(* Positions of the ring *)

LEMMA Ring ==
  ASSUME NEW w \in FillQueue!Positions, NEW r \in FillQueue!Positions
  PROVE  /\ FillQueue!NextPos(w) \in FillQueue!Positions
         /\ FillQueue!Distance(w, r) \in 0 .. Capacity - 1
         /\ FillQueue!Distance(r, r) = 0
         /\ w # r => FillQueue!Distance(w, r) > 0
         /\ FillQueue!NextPos(w) = r => FillQueue!Distance(w, r) = Capacity - 1
         /\ FillQueue!NextPos(w) = FillQueue!NextPos(r) => w = r
  BY QueueAssumption DEF FillQueue!Positions, FillQueue!NextPos, FillQueue!Distance

\* Storing write_pos_ lets one more position wait, storing read_pos_ one less.
LEMMA RingPush ==
  ASSUME NEW w \in FillQueue!Positions, NEW r \in FillQueue!Positions,
         NEW i \in FillQueue!Positions, FillQueue!NextPos(w) # r
  PROVE  FillQueue!Distance(i, r) < FillQueue!Distance(FillQueue!NextPos(w), r)
         <=> FillQueue!Distance(i, r) < FillQueue!Distance(w, r) \/ i = w
  BY QueueAssumption DEF FillQueue!Positions, FillQueue!NextPos, FillQueue!Distance

LEMMA RingPop ==
  ASSUME NEW w \in FillQueue!Positions, NEW r \in FillQueue!Positions,
         NEW i \in FillQueue!Positions, w # r
  PROVE  /\ FillQueue!Distance(i, FillQueue!NextPos(r))
              < FillQueue!Distance(w, FillQueue!NextPos(r))
            <=> FillQueue!Distance(i, r) < FillQueue!Distance(w, r) /\ i # r
         /\ i # r => FillQueue!Distance(i, FillQueue!NextPos(r))
                       = FillQueue!Distance(i, r) - 1
  BY QueueAssumption DEF FillQueue!Positions, FillQueue!NextPos, FillQueue!Distance

\* Behind every nonempty queue there is a newest element.
LEMMA RingLast ==
  ASSUME NEW w \in FillQueue!Positions, NEW r \in FillQueue!Positions, w # r
  PROVE  \E i \in FillQueue!Positions :
           FillQueue!Distance(i, r) = FillQueue!Distance(w, r) - 1
<1> DEFINE i == IF w = 0 THEN Capacity - 1 ELSE w - 1
<1>1. i \in FillQueue!Positions
  BY QueueAssumption DEF FillQueue!Positions
<1>2. FillQueue!Distance(i, r) = FillQueue!Distance(w, r) - 1
  BY QueueAssumption DEF FillQueue!Positions, FillQueue!Distance
<1> QED
  BY <1>1, <1>2

LEMMA WaitingFinite ==
  \A e \in TradeIds : IsFiniteSet(Waiting(e)) /\ Cardinality(Waiting(e)) \in Nat
<1>1. IsFiniteSet(FillQueue!Positions)
  BY FS_Interval, QueueAssumption DEF FillQueue!Positions
<1>2. \A e \in TradeIds : IsFiniteSet(Waiting(e))
  BY <1>1, FS_Subset DEF Waiting
<1> QED
  BY <1>2, FS_CardinalityType

-----------------------------------------------------------------------------
(* What the steps of OMS leave alone *)

\* A thread at the end of on_fill does nothing else, an order keeps its request, and
\* a trade its quantity.
LEMMA BesideKeeps ==
  ASSUME IInv, FillInv, NextButPublish
  PROVE  /\ UNCHANGED published
         /\ \A t \in Threads : ctx[t].pc = "push" => ctx'[t] = ctx[t]
         /\ \A o \in 1 .. seq : o \in 1 .. seq' /\ request'[o] = request[o]
         /\ \A e \in TradeIds : trades[e] # 0 => trades'[e] = trades[e]
<1>0. seq \in Nat
  BY SizesAssumption DEF IInv, TypeOK
<1>1. ASSUME NEW t \in Threads, Continue(t)
      PROVE  /\ UNCHANGED <<published, seq, request, trades>>
             /\ \A u \in Threads : ctx[u].pc = "push" => ctx'[u] = ctx[u]
  BY <1>1 DEF Continue, Submit, SubmitInsert, SubmitRoute, PaperAck, PaperFill, FillMark,
              SubmitPlace, FillStep, FillLookup, FillBuild, FillUpdate, CancelSend,
              omsState, world, IInv, TypeOK
<1>2. ASSUME NEW t \in Strategies, NEW q \in 1 .. MaxQty, SubmitAcquire(t, q)
      PROVE  /\ UNCHANGED <<published, trades>>
             /\ \A u \in Threads : ctx[u].pc = "push" => ctx'[u] = ctx[u]
             /\ \A o \in 1 .. seq : o \in 1 .. seq' /\ request'[o] = request[o]
  <2>1. /\ UNCHANGED <<published, trades>> /\ seq' = seq + 1
        /\ \A u \in Threads : ctx[u].pc = "push" => ctx'[u] = ctx[u]
    BY <1>2 DEF SubmitAcquire, world, IInv, TypeOK
  <2>2. \A o \in 1 .. seq : o # seq + 1 /\ o \in Oids /\ o \in 1 .. seq + 1
    BY <1>0, SizesAssumption DEF Oids, IInv, TypeOK
  <2>3. \A o \in Oids : o # seq + 1 => request'[o] = request[o]
    BY <1>2 DEF SubmitAcquire, IInv, TypeOK
  <2> QED
    BY <2>1, <2>2, <2>3
<1>3. ASSUME NEW t \in Threads, NEW o \in Oids, CancelFind(t, o)
      PROVE  /\ UNCHANGED <<published, seq, request, trades>>
             /\ \A u \in Threads : ctx[u].pc = "push" => ctx'[u] = ctx[u]
  BY <1>3 DEF CancelFind, omsState, world, IInv, TypeOK
<1>4. ASSUME NEW t \in IOThreads, RestAnswer(t)
      PROVE  /\ UNCHANGED <<published, seq, request, trades, ctx>>
  BY <1>4 DEF RestAnswer, RestAck, RestUnparsable, RestError, omsState
<1>5. ASSUME NEW t \in IOThreads, Feed(t)
      PROVE  /\ UNCHANGED <<published, seq, request, trades>>
             /\ \A u \in Threads : ctx[u].pc = "push" => ctx'[u] = ctx[u]
  BY <1>5 DEF Feed, FeedFill, FeedReject, FillMark, world, IInv, TypeOK
<1>6. CASE CancelAllOpen \/ ResetForEod
  BY <1>6 DEF CancelAllOpen, ResetForEod, omsState, world
<1>7. ASSUME NEW o \in Oids, SweepCancel(o)
      PROVE  /\ UNCHANGED <<published, seq, request, trades>>
             /\ \A u \in Threads : ctx[u].pc = "push" => ctx'[u] = ctx[u]
  BY <1>3, <1>7, Sets DEF SweepCancel, omsState, world
<1>8. ASSUME Exchange
      PROVE  /\ UNCHANGED <<published, seq, request, ctx>>
             /\ \A e \in TradeIds : trades[e] # 0 => trades'[e] = trades[e]
  <2>1. ASSUME NEW x \in LiveIds, NEW q \in 1 .. MaxQty, ExchangeTrade(x, q)
        PROVE  \A e \in TradeIds : trades[e] # 0 => trades'[e] = trades[e]
    <3>1. exch[x].n \in Nat /\ x \in ExIds
      BY Ids, SizesAssumption DEF IInv, TypeOK, ExchangeRecord
    <3>2. \A e \in TradeIds : trades[e] # 0 => e # <<x, exch[x].n + 1>>
      <4> SUFFICES ASSUME NEW e \in TradeIds, trades[e] # 0, e = <<x, exch[x].n + 1>>
                   PROVE  FALSE
        OBVIOUS
      <4>1. e[1] = x /\ e[2] = exch[x].n + 1
        OBVIOUS
      <4>2. e[2] <= exch[e[1]].n
        BY DEF FillInv, TradeInv
      <4> QED
        BY <3>1, <4>1, <4>2
    <3> QED
      BY <2>1, <3>2 DEF ExchangeTrade, IInv, TypeOK
  <2> QED
    BY <1>8, <2>1
    DEF Exchange, ExchangeAccept, ExchangeTrade, ExchangeReject, ExchangeCancel, omsState
<1> QED
  BY <1>0, <1>1, <1>2, <1>3, <1>4, <1>5, <1>6, <1>7, <1>8, Sets
  DEF NextButPublish, StrategyCall, StrategyCancel

-----------------------------------------------------------------------------
(* The invariant is inductive *)

LEMMA OnePush ==
  ASSUME IInv, OnePusher, NEW t \in Threads, NEW u \in Threads,
         ctx[t].pc = "push", ctx[u].pc = "push"
  PROVE  t = u
  BY DEF OnePusher, IInv, Ownership, RoleInv

\* What on_fill is about to push
LEMMA PushedFill ==
  ASSUME IInv, FillInv, NEW t \in Threads, ctx[t].pc = "push"
  PROVE  /\ ctx[t].trade \in TradeIds
         /\ FillOf(t) \in Fills /\ FillOf(t) # Nil
         /\ FillOf(t).trade = ctx[t].trade
         /\ FillOf(t).oid = ctx[t].oid
         /\ Genuine(FillOf(t))
<1>1. ctx[t].pc \in OnFillPcs /\ ctx[t].pc \in ApplyPcs
  BY DEF OnFillPcs, ApplyPcs
<1>2. /\ ctx[t].trade \in TradeIds /\ ctx[t].oid \in Oids
      /\ ctx[t].oid = ctx[t].trade[1][1]
      /\ ~ Paper => ctx[t].qty = trades[ctx[t].trade]
  BY <1>1, HeldTrade
<1>3. ctx[t].qty \in Nat /\ ctx[t].owner \in Threads \cup {None}
  BY DEF IInv, TypeOK, CallRecord
<1>4. FillOf(t) \in Fills /\ FillOf(t) # Nil
  BY <1>2, <1>3, QueueAssumption DEF FillOf, Fills
<1>5. /\ FillOf(t).trade = ctx[t].trade /\ FillOf(t).oid = ctx[t].oid
      /\ FillOf(t).qty = ctx[t].qty /\ FillOf(t).owner = ctx[t].owner
  BY DEF FillOf
<1>6. ctx[t].oid \in 1 .. seq /\ ctx[t].owner = request[ctx[t].oid].owner
  BY DEF IInv, Ownership, RoleInv, HeldInv
<1>7. ~ Paper => ctx[t].qty # 0
  BY <1>1 DEF FillInv, TradeInv
<1>8. Genuine(FillOf(t))
  BY <1>2, <1>5, <1>6, <1>7 DEF Genuine
<1> QED
  BY <1>2, <1>4, <1>5, <1>8

LEMMA PathInitInv == PathInit => PathInv /\ NoneLost /\ PaperQueueInv
<1> SUFFICES ASSUME PathInit PROVE PathInv /\ NoneLost /\ PaperQueueInv
  OBVIOUS
<1>1. PathTypes /\ PushInv /\ PopInv
  BY QueueAssumption
  DEF PathInit, PathTypes, PushInv, PopInv, FillQueue!QueueInit, FillQueue!QueueTypeOK,
      FillQueue!Positions, FillQueue!IdleProducer, FillQueue!IdleConsumer
<1>2. FillQueue!size = 0
  BY DEF PathInit, FillQueue!QueueInit, FillQueue!size, FillQueue!Distance
<1>3. read_pos \in FillQueue!Positions
  BY <1>1 DEF PathTypes, FillQueue!QueueTypeOK
<1>4. \A i \in FillQueue!Positions : ~ Waits(i)
  BY <1>2, <1>3, Ring, QueueAssumption DEF Waits
<1>5. \A e \in TradeIds : booked[e] = 0 /\ published[e] = 0
  BY DEF PathInit, Init
<1>6. \A e \in TradeIds : Cardinality(Waiting(e)) = 0
  <2>1. \A e \in TradeIds : Waiting(e) = {}
    BY <1>4 DEF Waiting
  <2> QED
    BY <2>1, FS_EmptySet
<1>7. WaitInv
  BY <1>4, <1>5, <1>6 DEF WaitInv
<1>8. NoneLost /\ PaperQueueInv
  BY <1>4, <1>5, <1>6 DEF NoneLost, PaperQueueInv
<1> QED
  BY <1>1, <1>7, <1>8 DEF PathInv

\* The fills that wait stay genuine under the steps of OMS.
LEMMA GenuineKept ==
  ASSUME NEW f \in Fills, Genuine(f),
         \A o \in 1 .. seq : o \in 1 .. seq' /\ request'[o] = request[o],
         \A e \in TradeIds : trades[e] # 0 => trades'[e] = trades[e]
  PROVE  Genuine(f)'
<1>1. f.trade \in TradeIds
  BY DEF Fills
<1> QED
  BY <1>1 DEF Genuine

LEMMA BesideStep ==
  ASSUME IInv, FillInv, PathInv, Beside(NextButPublish)
  PROVE  PathInv' /\ (NoneLost => NoneLost')
<1>1. UNCHANGED <<write_pos, read_pos, data, prod, cons, answer, got, booked, published>>
  BY BesideKeeps DEF Beside, queueVars
<1>2. /\ \A t \in Threads : ctx[t].pc = "push" => ctx'[t] = ctx[t]
      /\ \A o \in 1 .. seq : o \in 1 .. seq' /\ request'[o] = request[o]
      /\ \A e \in TradeIds : trades[e] # 0 => trades'[e] = trades[e]
  BY BesideKeeps DEF Beside
<1>3. PathTypes' /\ PopInv'
  BY <1>1 DEF PathInv, PathTypes, PopInv, FillQueue!QueueTypeOK
<1>4. PushInv'
  BY <1>1, <1>2 DEF PathInv, PushInv, FillOf
<1>5. \A i \in FillQueue!Positions : Waits(i)' <=> Waits(i)
  BY <1>1 DEF Waits, FillQueue!size
<1>6. \A i \in FillQueue!Positions : Waits(i) => data[i] \in Fills /\ Genuine(data[i])'
  <2> SUFFICES ASSUME NEW i \in FillQueue!Positions, Waits(i)
               PROVE  data[i] \in Fills /\ Genuine(data[i])'
    OBVIOUS
  <2>1. PICK f : f = data[i]
    OBVIOUS
  <2>2. f \in Fills /\ Genuine(f)
    BY <2>1 DEF PathInv, WaitInv
  <2>3. Genuine(f)'
    BY <1>2, <2>2, GenuineKept
  <2>4. f = data'[i]
    BY <1>1, <2>1
  <2> QED
    BY <2>1, <2>2, <2>3, <2>4
<1>7. \A e \in TradeIds : Waiting(e)' = Waiting(e)
  BY <1>1, <1>5 DEF Waiting
<1>8. WaitInv'
  BY <1>1, <1>5, <1>6, <1>7 DEF PathInv, WaitInv
<1>9. NoneLost => NoneLost'
  BY <1>1, <1>7 DEF NoneLost
<1> QED
  BY <1>3, <1>4, <1>8, <1>9 DEF PathInv

\* The steps of the queue that publish and book nothing
LEMMA QuietQueueStep ==
  ASSUME IInv, FillInv, PathInv, OnePusher,
         (\E t \in Threads : PushBegin(t) \/ PushGoesOn(t)) \/ PortfolioPoll
  PROVE  PathInv' /\ (NoneLost => NoneLost')
<1>0. /\ write_pos \in FillQueue!Positions /\ read_pos \in FillQueue!Positions
      /\ data \in [FillQueue!Positions -> Fills \cup {Nil}]
      /\ prod \in [Threads -> [pc : {"idle", "check", "write", "store"},
                               w : FillQueue!Positions, item : Fills \cup {Nil}]]
      /\ cons \in [pc : {"idle", "read", "store"}, r : FillQueue!Positions,
                   item : Fills \cup {Nil}]
      /\ answer \in {"none", "ok", "full"} /\ got \in Fills \cup {Nil}
      /\ booked \in [TradeIds -> Nat]
  BY DEF PathInv, PathTypes, FillQueue!QueueTypeOK
<1>1. UNCHANGED <<write_pos, read_pos, booked, published, ctx, seq, request, trades, answer>>
  BY DEF PushBegin, PushGoesOn, PortfolioPoll, vars, omsState, world, FillQueue!PushLoad,
         FillQueue!PushRoom, FillQueue!PushWrite, FillQueue!PopEmpty, FillQueue!PopCheck,
         FillQueue!PopRead
<1> DEFINE Kept ==
      /\ PathTypes' /\ PushInv' /\ PopInv'
      /\ \A i \in FillQueue!Positions : i # write_pos => data'[i] = data[i]
<1>2. Kept
  <2>1. ASSUME NEW t \in Threads, PushBegin(t)
        PROVE  Kept
    <3>1. /\ prod' = [prod EXCEPT ![t] = [pc |-> "check", w |-> write_pos,
                                           item |-> FillOf(t)]]
          /\ UNCHANGED <<data, cons, got>> /\ ctx[t].pc = "push" /\ FillOf(t) \in Fills
      BY <2>1, PushedFill DEF PushBegin, FillQueue!PushLoad
    <3>2. PathTypes'
      BY <1>0, <1>1, <3>1 DEF PathTypes, FillQueue!QueueTypeOK
    <3>3. PushInv'
      BY <1>0, <1>1, <3>1 DEF PathInv, PushInv, FillOf
    <3>4. PopInv'
      BY <1>1, <3>1 DEF PathInv, PopInv
    <3> QED
      BY <3>1, <3>2, <3>3, <3>4
  <2>2. ASSUME NEW t \in Threads, PushGoesOn(t)
        PROVE  Kept
    <3>1. CASE FillQueue!PushRoom(t)
      <4>1. /\ prod' = [prod EXCEPT ![t].pc = "write"] /\ UNCHANGED <<data, cons, got>>
            /\ prod[t].pc = "check" /\ FillQueue!NextPos(prod[t].w) # read_pos
        BY <3>1 DEF FillQueue!PushRoom
      <4>2. PathTypes' /\ PopInv'
        BY <1>0, <1>1, <4>1 DEF PathTypes, FillQueue!QueueTypeOK, PathInv, PopInv
      <4>3. PushInv'
        BY <1>0, <1>1, <4>1 DEF PathInv, PushInv, FillOf
      <4> QED
        BY <4>1, <4>2, <4>3
    <3>2. CASE FillQueue!PushWrite(t)
      <4>1. /\ prod' = [prod EXCEPT ![t].pc = "store"] /\ UNCHANGED <<cons, got>>
            /\ prod[t].pc = "write" /\ data' = [data EXCEPT ![prod[t].w] = prod[t].item]
        BY <3>2 DEF FillQueue!PushWrite
      <4>2. /\ prod[t].w = write_pos /\ ctx[t].pc = "push"
            /\ FillQueue!NextPos(write_pos) # read_pos
        BY <4>1 DEF PathInv, PushInv
      <4>3. /\ \A i \in FillQueue!Positions : i # write_pos => data'[i] = data[i]
            /\ data'[write_pos] = prod[t].item
        BY <1>0, <4>1, <4>2
      <4>4. PathTypes'
        BY <1>0, <1>1, <4>1, <4>2 DEF PathTypes, FillQueue!QueueTypeOK
      <4>5. \A u \in Threads : prod[u].pc # "idle" => u = t
        BY <4>2, OnePush DEF PathInv, PushInv
      <4>6. PushInv'
        BY <1>0, <1>1, <4>1, <4>2, <4>3, <4>5 DEF PathInv, PushInv, FillOf
      <4>7. PopInv'
        BY <1>0, <1>1, <4>1, <4>3 DEF PathInv, PopInv
      <4> QED
        BY <4>3, <4>4, <4>6, <4>7
    <3> QED
      BY <2>2, <3>1, <3>2 DEF PushGoesOn
  <2>3. ASSUME PortfolioPoll
        PROVE  Kept
    <3>1. UNCHANGED <<prod, data>>
      BY <2>3 DEF PortfolioPoll, FillQueue!PopEmpty, FillQueue!PopCheck, FillQueue!PopRead
    <3>2. PushInv'
      BY <1>1, <3>1 DEF PathInv, PushInv, FillOf
    <3>3. PathTypes' /\ PopInv'
      <4>1. CASE FillQueue!PopEmpty
        BY <1>0, <1>1, <3>1, <4>1
        DEF FillQueue!PopEmpty, PathTypes, FillQueue!QueueTypeOK, PathInv, PopInv
      <4>2. CASE FillQueue!PopCheck
        BY <1>0, <1>1, <3>1, <4>2
        DEF FillQueue!PopCheck, PathTypes, FillQueue!QueueTypeOK, PathInv, PopInv
      <4>3. CASE FillQueue!PopRead
        BY <1>0, <1>1, <3>1, <4>3
        DEF FillQueue!PopRead, PathTypes, FillQueue!QueueTypeOK, PathInv, PopInv
      <4> QED
        BY <2>3, <4>1, <4>2, <4>3 DEF PortfolioPoll
    <3> QED
      BY <3>1, <3>2, <3>3
  <2> QED
    BY <2>1, <2>2, <2>3
<1>3. \A i \in FillQueue!Positions : Waits(i)' <=> Waits(i)
  BY <1>1 DEF Waits, FillQueue!size
<1>4. \A i \in FillQueue!Positions : Waits(i) => data'[i] = data[i]
  <2>1. ~ Waits(write_pos)
    BY <1>0, Ring, QueueAssumption DEF Waits, FillQueue!size
  <2> QED
    BY <1>2, <2>1
<1>5. \A e \in TradeIds : Waiting(e)' = Waiting(e)
  BY <1>3, <1>4 DEF Waiting
<1>6. WaitInv'
  BY <1>1, <1>3, <1>4, <1>5 DEF PathInv, WaitInv, Genuine
<1>7. NoneLost => NoneLost'
  BY <1>1, <1>5 DEF NoneLost
<1> QED
  BY <1>2, <1>6, <1>7 DEF PathInv

\* write_pos_ is stored: the fill waits, and is published.
LEMMA TakenStep ==
  ASSUME IInv, FillInv, PathInv, OnePusher,
         NEW t \in Threads, PushTaken(t)
  PROVE  PathInv' /\ (NoneLost => NoneLost')
<1> DEFINE e == ctx[t].trade
<1>0. /\ write_pos \in FillQueue!Positions /\ read_pos \in FillQueue!Positions
      /\ data \in [FillQueue!Positions -> Fills \cup {Nil}]
      /\ prod \in [Threads -> [pc : {"idle", "check", "write", "store"},
                               w : FillQueue!Positions, item : Fills \cup {Nil}]]
      /\ cons \in [pc : {"idle", "read", "store"}, r : FillQueue!Positions,
                   item : Fills \cup {Nil}]
      /\ answer \in {"none", "ok", "full"} /\ got \in Fills \cup {Nil}
      /\ booked \in [TradeIds -> Nat] /\ published \in [TradeIds -> Nat]
  BY DEF PathInv, PathTypes, FillQueue!QueueTypeOK, IInv, TypeOK
<1>1. /\ prod[t].pc = "store" /\ prod' = [prod EXCEPT ![t] = FillQueue!IdleProducer]
      /\ write_pos' = FillQueue!NextPos(prod[t].w) /\ answer' = "ok"
      /\ UNCHANGED <<read_pos, data, cons, got, booked>>
  BY DEF PushTaken, FillQueue!PushStore
<1>2. /\ ctx[t].pc = "push" /\ published' = [published EXCEPT ![e] = @ + 1]
      /\ ctx' = [ctx EXCEPT ![t] = Idle] /\ UNCHANGED <<seq, request, trades>>
  BY DEF PushTaken, FillPublish, omsState, world
<1>3. /\ prod[t].w = write_pos /\ prod[t].item = FillOf(t)
      /\ data[write_pos] = FillOf(t) /\ FillQueue!NextPos(write_pos) # read_pos
  BY <1>1 DEF PathInv, PushInv
<1>4. /\ e \in TradeIds /\ FillOf(t) \in Fills /\ FillOf(t).trade = e
      /\ Genuine(FillOf(t))
  BY <1>2, PushedFill
<1>5. \A f \in TradeIds : published'[f] = published[f] + IF f = e THEN 1 ELSE 0
  BY <1>0, <1>2, <1>4
<1>7. write_pos' = FillQueue!NextPos(write_pos) /\ write_pos' \in FillQueue!Positions
  BY <1>0, <1>1, <1>3, Ring
<1>8. PathTypes'
  <2>1. FillQueue!IdleProducer \in [pc : {"idle", "check", "write", "store"},
                                    w : FillQueue!Positions, item : Fills \cup {Nil}]
    BY QueueAssumption DEF FillQueue!IdleProducer, FillQueue!Positions
  <2> QED
    BY <1>0, <1>1, <1>7, <2>1 DEF PathTypes, FillQueue!QueueTypeOK
<1>9. PushInv'
  <2>1. \A u \in Threads : prod[u].pc # "idle" => u = t
    BY <1>2, OnePush DEF PathInv, PushInv
  <2>2. \A u \in Threads : prod'[u].pc = "idle"
    BY <1>0, <1>1, <2>1 DEF FillQueue!IdleProducer
  <2> QED
    BY <2>2 DEF PushInv
<1>10. PopInv'
  BY <1>1, <1>3, <1>7 DEF PathInv, PopInv
<1>11. \A i \in FillQueue!Positions : Waits(i)' <=> Waits(i) \/ i = write_pos
  BY <1>0, <1>1, <1>3, <1>7, RingPush DEF Waits, FillQueue!size
<1>12. \A f \in TradeIds :
         Cardinality(Waiting(f)') = Cardinality(Waiting(f)) + IF f = e THEN 1 ELSE 0
  <2> SUFFICES ASSUME NEW f \in TradeIds
               PROVE  Cardinality(Waiting(f)')
                        = Cardinality(Waiting(f)) + IF f = e THEN 1 ELSE 0
    OBVIOUS
  <2>1. IsFiniteSet(Waiting(f)) /\ Cardinality(Waiting(f)) \in Nat
    BY WaitingFinite
  <2>2. CASE f = e
    <3>1. ~ Waits(write_pos)
      BY <1>0, Ring, QueueAssumption DEF Waits, FillQueue!size
    <3>2. Waiting(f)' = Waiting(f) \cup {write_pos} /\ write_pos \notin Waiting(f)
      BY <1>0, <1>1, <1>3, <1>4, <1>11, <2>2, <3>1 DEF Waiting
    <3> QED
      BY <2>1, <2>2, <3>2, FS_AddElement
  <2>3. CASE f # e
    <3>1. Waiting(f)' = Waiting(f)
      BY <1>1, <1>3, <1>4, <1>11, <2>3 DEF Waiting
    <3> QED
      BY <2>1, <2>3, <3>1
  <2> QED
    BY <2>2, <2>3
<1>13. WaitInv'
  <2>1. ASSUME NEW i \in FillQueue!Positions, Waits(i)'
        PROVE  data'[i] \in Fills /\ Genuine(data[i])'
    <3>1. CASE i = write_pos
      BY <1>1, <1>2, <1>3, <1>4, <3>1 DEF Genuine
    <3>2. CASE Waits(i)
      BY <1>1, <1>2, <3>2 DEF PathInv, WaitInv, Genuine
    <3> QED
      BY <2>1, <1>11, <3>1, <3>2
  <2>2. ASSUME NEW f \in TradeIds
        PROVE  booked'[f] + Cardinality(Waiting(f)') <= published'[f]
    <3>1. booked[f] + Cardinality(Waiting(f)) <= published[f]
      BY DEF PathInv, WaitInv
    <3> QED
      BY <1>0, <1>1, <1>5, <1>12, <3>1, WaitingFinite
  <2> QED
    BY <2>1, <2>2 DEF WaitInv
<1>14. ASSUME NoneLost PROVE NoneLost'
  BY <1>0, <1>1, <1>5, <1>12, <1>14, WaitingFinite DEF NoneLost
<1> QED
  BY <1>8, <1>9, <1>10, <1>13, <1>14 DEF PathInv

\* The queue is full: the fill is published and never booked.
LEMMA RefusedStep ==
  ASSUME IInv, FillInv, PathInv, OnePusher,
         NEW t \in Threads, PushRefused(t)
  PROVE  PathInv'
<1> DEFINE e == ctx[t].trade
<1>0. /\ read_pos \in FillQueue!Positions
      /\ prod \in [Threads -> [pc : {"idle", "check", "write", "store"},
                               w : FillQueue!Positions, item : Fills \cup {Nil}]]
      /\ booked \in [TradeIds -> Nat] /\ published \in [TradeIds -> Nat]
  BY DEF PathInv, PathTypes, FillQueue!QueueTypeOK, IInv, TypeOK
<1>1. /\ prod' = [prod EXCEPT ![t] = FillQueue!IdleProducer] /\ answer' = "full"
      /\ UNCHANGED <<write_pos, read_pos, data, cons, got, booked>>
  BY DEF PushRefused, FillQueue!PushFull
<1>2. /\ ctx[t].pc = "push" /\ published' = [published EXCEPT ![e] = @ + 1]
      /\ UNCHANGED <<seq, request, trades>>
  BY DEF PushRefused, FillPublish, omsState, world
<1>4. e \in TradeIds
  BY <1>2, PushedFill
<1>5. \A f \in TradeIds : published'[f] = published[f] + IF f = e THEN 1 ELSE 0
  BY <1>0, <1>2, <1>4
<1>8. PathTypes'
  <2>1. FillQueue!IdleProducer \in [pc : {"idle", "check", "write", "store"},
                                    w : FillQueue!Positions, item : Fills \cup {Nil}]
    BY QueueAssumption DEF FillQueue!IdleProducer, FillQueue!Positions
  <2> QED
    BY <1>0, <1>1, <2>1 DEF PathInv, PathTypes, FillQueue!QueueTypeOK
<1>9. PushInv'
  <2>1. \A u \in Threads : prod[u].pc # "idle" => u = t
    BY <1>2, OnePush DEF PathInv, PushInv
  <2>2. \A u \in Threads : prod'[u].pc = "idle"
    BY <1>0, <1>1, <2>1 DEF FillQueue!IdleProducer
  <2> QED
    BY <2>2 DEF PushInv
<1>10. PopInv'
  BY <1>1 DEF PathInv, PopInv
<1>11. \A i \in FillQueue!Positions : Waits(i)' <=> Waits(i)
  BY <1>1 DEF Waits, FillQueue!size
<1>12. \A f \in TradeIds : Waiting(f)' = Waiting(f)
  BY <1>1, <1>11 DEF Waiting
<1>13. WaitInv'
  <2>1. ASSUME NEW i \in FillQueue!Positions, Waits(i)'
        PROVE  data'[i] \in Fills /\ Genuine(data[i])'
    BY <1>1, <1>2, <1>11, <2>1 DEF PathInv, WaitInv, Genuine
  <2>2. ASSUME NEW f \in TradeIds
        PROVE  booked'[f] + Cardinality(Waiting(f)') <= published'[f]
    <3>1. booked[f] + Cardinality(Waiting(f)) <= published[f]
      BY DEF PathInv, WaitInv
    <3> QED
      BY <1>0, <1>1, <1>5, <1>12, <3>1, WaitingFinite
  <2> QED
    BY <2>1, <2>2 DEF WaitInv
<1> QED
  BY <1>8, <1>9, <1>10, <1>13 DEF PathInv

\* read_pos_ is stored and process_fill books the oldest fill.
LEMMA BookStep ==
  ASSUME IInv, FillInv, PathInv, ProcessFill
  PROVE  PathInv' /\ (NoneLost => NoneLost')
<1>0. /\ write_pos \in FillQueue!Positions /\ read_pos \in FillQueue!Positions
      /\ data \in [FillQueue!Positions -> Fills \cup {Nil}]
      /\ prod \in [Threads -> [pc : {"idle", "check", "write", "store"},
                               w : FillQueue!Positions, item : Fills \cup {Nil}]]
      /\ cons \in [pc : {"idle", "read", "store"}, r : FillQueue!Positions,
                   item : Fills \cup {Nil}]
      /\ answer \in {"none", "ok", "full"} /\ got \in Fills \cup {Nil}
      /\ booked \in [TradeIds -> Nat] /\ published \in [TradeIds -> Nat]
  BY DEF PathInv, PathTypes, FillQueue!QueueTypeOK, IInv, TypeOK
<1>1. /\ cons.pc = "store" /\ read_pos' = FillQueue!NextPos(cons.r)
      /\ got' = cons.item /\ cons' = FillQueue!IdleConsumer
      /\ UNCHANGED <<write_pos, data, prod, answer, ctx, published, seq, request, trades>>
      /\ booked' = [e \in TradeIds |->
                      booked[e] + IF cons.item # Nil /\ cons.item.trade = e THEN 1 ELSE 0]
  BY DEF ProcessFill, FillQueue!PopStore, vars, omsState, world
<1>2. cons.r = read_pos /\ read_pos # write_pos /\ cons.item = data[read_pos]
  BY <1>1 DEF PathInv, PopInv
<1>3. Waits(read_pos)
  <2>1. FillQueue!Distance(read_pos, read_pos) = 0
        /\ FillQueue!Distance(write_pos, read_pos) > 0
    BY <1>0, <1>2, Ring
  <2> QED
    BY <2>1 DEF Waits, FillQueue!size
<1>4. PICK f \in Fills : f = data[read_pos]
  BY <1>0, <1>3 DEF PathInv, WaitInv
<1>5. f # Nil /\ f.trade \in TradeIds
  BY <1>4, QueueAssumption DEF Fills
<1>6. \A e \in TradeIds : booked'[e] = booked[e] + IF e = f.trade THEN 1 ELSE 0
  BY <1>0, <1>1, <1>2, <1>4, <1>5
<1>7. read_pos' = FillQueue!NextPos(read_pos) /\ read_pos' \in FillQueue!Positions
  BY <1>0, <1>1, <1>2, Ring
<1>8. PathTypes'
  <2>1. booked' \in [TradeIds -> Nat]
    BY <1>0, <1>1
  <2>2. cons' \in [pc : {"idle", "read", "store"}, r : FillQueue!Positions,
                   item : Fills \cup {Nil}]
    BY <1>1, QueueAssumption DEF FillQueue!IdleConsumer, FillQueue!Positions
  <2>3. got' \in Fills \cup {Nil}
    BY <1>0, <1>1
  <2> QED
    BY <1>0, <1>1, <1>7, <2>1, <2>2, <2>3 DEF PathTypes, FillQueue!QueueTypeOK
<1>9. PushInv'
  <2>1. FillQueue!NextPos(write_pos) # read_pos'
    BY <1>0, <1>2, <1>7, Ring
  <2> QED
    BY <1>1, <2>1 DEF PathInv, PushInv, FillOf
<1>10. PopInv'
  BY <1>1 DEF PopInv, FillQueue!IdleConsumer
<1>11. \A i \in FillQueue!Positions : Waits(i)' <=> Waits(i) /\ i # read_pos
  BY <1>0, <1>1, <1>2, <1>7, RingPop DEF Waits, FillQueue!size
<1>12. \A e \in TradeIds :
         Cardinality(Waiting(e)') = Cardinality(Waiting(e)) - IF e = f.trade THEN 1 ELSE 0
  <2> SUFFICES ASSUME NEW e \in TradeIds
               PROVE  Cardinality(Waiting(e)')
                        = Cardinality(Waiting(e)) - IF e = f.trade THEN 1 ELSE 0
    OBVIOUS
  <2>1. IsFiniteSet(Waiting(e)) /\ Cardinality(Waiting(e)) \in Nat
    BY WaitingFinite
  <2>2. Waiting(e)' = Waiting(e) \ {read_pos}
    BY <1>1, <1>11 DEF Waiting
  <2>3. read_pos \in Waiting(e) <=> e = f.trade
    BY <1>0, <1>3, <1>4 DEF Waiting
  <2>4. Cardinality(Waiting(e) \ {read_pos})
          = IF read_pos \in Waiting(e) THEN Cardinality(Waiting(e)) - 1
                                       ELSE Cardinality(Waiting(e))
    BY <2>1, FS_RemoveElement, Zenon
  <2>5. Cardinality(Waiting(e)') = Cardinality(Waiting(e) \ {read_pos})
    BY <2>2
  <2> QED
    BY <2>1, <2>3, <2>4, <2>5
<1>13. WaitInv'
  <2>1. ASSUME NEW i \in FillQueue!Positions, Waits(i)'
        PROVE  data'[i] \in Fills /\ Genuine(data[i])'
    BY <1>1, <1>11, <2>1 DEF PathInv, WaitInv, Genuine
  <2>2. ASSUME NEW e \in TradeIds
        PROVE  booked'[e] + Cardinality(Waiting(e)') <= published'[e]
    <3>1. booked[e] + Cardinality(Waiting(e)) <= published[e]
      BY DEF PathInv, WaitInv
    <3> QED
      BY <1>0, <1>1, <1>6, <1>12, <3>1, WaitingFinite
  <2> QED
    BY <2>1, <2>2 DEF WaitInv
<1>14. ASSUME NoneLost PROVE NoneLost'
  BY <1>0, <1>1, <1>6, <1>12, <1>14, WaitingFinite DEF NoneLost
<1> QED
  BY <1>8, <1>9, <1>10, <1>13, <1>14 DEF PathInv

LEMMA PathInductive ==
  ASSUME OnePusher, IInv, FillInv, PathInv, [PathNext]_allVars
  PROVE  /\ PathInv'
         /\ NoneLost /\ [NoRefusal]_allVars => NoneLost'
<1>1. CASE Beside(NextButPublish)
  BY <1>1, BesideStep
<1>2. ASSUME NEW t \in Threads, Push(t)
      PROVE  PathInv' /\ (NoneLost /\ NoRefusal => NoneLost')
  BY <1>2, QuietQueueStep, TakenStep, RefusedStep DEF Push, NoRefusal
<1>3. CASE FillLoop
  BY <1>3, QuietQueueStep, BookStep DEF FillLoop
<1>4. CASE UNCHANGED allVars
  <2>1. UNCHANGED <<write_pos, read_pos, data, prod, cons, answer, got, booked,
                    ctx, published, seq, request, trades>>
    BY <1>4 DEF allVars, queueVars, vars, omsState, world
  <2>2. PathTypes' /\ PopInv' /\ PushInv'
    BY <2>1 DEF PathInv, PathTypes, PopInv, PushInv, FillQueue!QueueTypeOK, FillOf
  <2>3. WaitInv' /\ (NoneLost => NoneLost')
    BY <2>1 DEF PathInv, WaitInv, NoneLost, Waiting, Waits, Genuine, FillQueue!size
  <2> QED
    BY <2>2, <2>3 DEF PathInv
<1> QED
  BY <1>1, <1>2, <1>3, <1>4 DEF PathNext

-----------------------------------------------------------------------------
(* Theorems about the books *)

LEMMA PathInvariance ==
  ASSUME SingleIOThread, OnePusher
  PROVE  PathSpec => [](IInv /\ FillInv /\ PathInv)
<1>1. PathSpec => [](IInv /\ FillInv)
  BY PathImplementsOMS, FillInvariance
<1>2. IInv /\ FillInv /\ PathInv /\ [PathNext]_allVars => PathInv'
  BY PathInductive
<1>3. PathInit => PathInv
  BY PathInitInv
<1> QED
  BY <1>1, <1>2, <1>3, PTL DEF PathSpec

\* With one thread that runs on_fill and trade ids in the feed: the portfolio books
\* no trade twice, whatever the feed repeats, unless a reset forgot the trade while its
\* order was in orders_; and every fill it books is the trade the exchange made, for
\* every capacity of the queue and also when it overflows.
THEOREM BooksAreTrades ==
  ASSUME SingleIOThread, OnePusher, Anonymous = {}
  PROVE  PathSpec => []BookedAsTraded
<1>1. IInv /\ FillInv /\ PathInv => BookedAsTraded
  <2> SUFFICES ASSUME IInv, FillInv, PathInv PROVE BookedAsTraded
    OBVIOUS
  <2>1. \A e \in TradeIds \ forgotten : booked[e] <= 1
    <3> SUFFICES ASSUME NEW e \in TradeIds \ forgotten PROVE booked[e] <= 1
      OBVIOUS
    <3>1. booked[e] \in Nat /\ published[e] \in Nat /\ Cardinality(Waiting(e)) \in Nat
      BY WaitingFinite DEF PathInv, PathTypes, IInv, TypeOK
    <3>2. published[e] <= 1 /\ booked[e] + Cardinality(Waiting(e)) <= published[e]
      BY DEF FillInv, DedupInv, PathInv, WaitInv
    <3> QED
      BY <3>1, <3>2
  <2>2. ASSUME cons.pc = "store"
        PROVE  cons.item \in Fills /\ Genuine(cons.item)
    <3>1. write_pos \in FillQueue!Positions /\ read_pos \in FillQueue!Positions
      BY DEF PathInv, PathTypes, FillQueue!QueueTypeOK
    <3>2. cons.item = data[read_pos] /\ read_pos # write_pos
      BY <2>2 DEF PathInv, PopInv
    <3>3. FillQueue!Distance(read_pos, read_pos) = 0
          /\ FillQueue!Distance(write_pos, read_pos) > 0
      BY <3>1, <3>2, Ring
    <3>4. Waits(read_pos)
      BY <3>3 DEF Waits, FillQueue!size
    <3> QED
      BY <3>1, <3>2, <3>4 DEF PathInv, WaitInv
  <2> QED
    BY <2>1, <2>2, QueueAssumption DEF BookedAsTraded, Genuine
<1> QED
  BY <1>1, PathInvariance, PTL

\* The elements of the queue, counted by trade
LEMMA QueuedCount ==
  ASSUME PathInv, NEW e \in TradeIds
  PROVE  Queued(e) = Cardinality(Waiting(e))
<1> DEFINE At(i) == FillQueue!SlotOf(read_pos, i)
           I == {i \in 1 .. FillQueue!size : /\ FillQueue!Contents[i] # Nil
                                             /\ FillQueue!Contents[i].trade = e}
<1>0. /\ write_pos \in FillQueue!Positions /\ read_pos \in FillQueue!Positions
      /\ FillQueue!size \in 0 .. Capacity - 1
  BY Ring DEF PathInv, PathTypes, FillQueue!QueueTypeOK, FillQueue!size
<1>1. ASSUME NEW i \in 1 .. FillQueue!size
      PROVE  /\ At(i) \in FillQueue!Positions
             /\ FillQueue!Distance(At(i), read_pos) = i - 1
             /\ FillQueue!Contents[i] = data[At(i)]
  <2>1. At(i) \in FillQueue!Positions /\ FillQueue!Distance(At(i), read_pos) = i - 1
    BY <1>0, QueueAssumption DEF FillQueue!SlotOf, FillQueue!Positions, FillQueue!Distance
  <2>2. FillQueue!Contents[i] = data[At(i)]
    BY DEF FillQueue!Contents, FillQueue!Between, FillQueue!size
  <2> QED
    BY <2>1, <2>2
<1>2. \A i \in 1 .. FillQueue!size : Waits(At(i))
  BY <1>0, <1>1 DEF Waits
<1>3. \A i, j \in 1 .. FillQueue!size : At(i) = At(j) => i = j
  BY <1>1
<1>4. I = {i \in 1 .. FillQueue!size : data[At(i)].trade = e}
  <2>1. \A i \in 1 .. FillQueue!size : data[At(i)] # Nil
    BY <1>1, <1>2, QueueAssumption DEF PathInv, WaitInv
  <2> QED
    BY <1>1, <2>1
<1>5. Queued(e) = Cardinality(I)
  BY DEF Queued
<1>6. ASSUME NEW p \in Waiting(e)
      PROVE  \E k \in I : At(k) = p
  <2>1. p \in FillQueue!Positions /\ Waits(p) /\ data[p].trade = e
    BY DEF Waiting
  <2>2. PICK k \in 1 .. FillQueue!size : At(k) = p
    <3>1. FillQueue!Distance(p, read_pos) \in Nat
          /\ FillQueue!Distance(p, read_pos) < FillQueue!size
      BY <1>0, <2>1, Ring DEF Waits
    <3>2. At(FillQueue!Distance(p, read_pos) + 1) = p
      BY <1>0, <2>1, QueueAssumption
      DEF FillQueue!SlotOf, FillQueue!Positions, FillQueue!Distance
    <3> QED
      BY <1>0, <3>1, <3>2
  <2> QED
    BY <1>4, <2>1, <2>2
<1>7. \A i \in I : At(i) \in Waiting(e)
  BY <1>1, <1>2, <1>4 DEF Waiting
<1>8. I \subseteq 1 .. FillQueue!size
  OBVIOUS
<1>9. IsFiniteSet(I)
  BY <1>0, <1>8, FS_Interval, FS_Subset
<1> HIDE DEF I, At
<1> DEFINE f == [i \in I |-> At(i)]
<1>10. f \in Bijection(I, Waiting(e))
  BY <1>3, <1>6, <1>7, <1>8 DEF Bijection, Injection, Surjection, IsInjective
<1>11. ExistsBijection(I, Waiting(e))
  BY <1>10 DEF ExistsBijection
<1> QED
  BY <1>5, <1>9, <1>11, FS_Bijection

LEMMA BooksComplete == PathInv /\ NoneLost => PublishedIsBooked
  BY QueuedCount DEF NoneLost, PublishedIsBooked

\* In every behaviour in which the queue takes each fill, what fill_cb_ told Kafka and
\* the risk engine is what the portfolio booked or will book: a full queue is the only
\* way to lose a fill.
THEOREM BooksLoseOnlyRefused ==
  ASSUME SingleIOThread, OnePusher
  PROVE  PathSpec /\ [][NoRefusal]_allVars => []PublishedIsBooked
<1>1. IInv /\ FillInv /\ PathInv /\ NoneLost /\ [PathNext]_allVars /\ [NoRefusal]_allVars
        => NoneLost'
  BY PathInductive
<1>2. PathInit => NoneLost
  BY PathInitInv
<1> QED
  BY <1>1, <1>2, BooksComplete, PathInvariance, PTL DEF PathSpec

-----------------------------------------------------------------------------
(* Paper mode: a queue with more slots than orders never refuses *)

CallPcs == SubmitPcs \cup OnFillPcs

\* A call in progress stays with its order, or is about a new one.
LEMMA PaperCalls ==
  ASSUME IInv, FillInv, Paper, NextButPublish, NEW t \in Threads, ctx'[t].pc \in CallPcs
  PROVE  \/ Current(t)' = seq + 1
         \/ ctx[t].pc \in CallPcs /\ Current(t)' = Current(t)
<1> USE DEF CallPcs, SubmitPcs, OnFillPcs, FillPcs
<1>0. ctx \in [Threads -> CallRecord]
  BY DEF IInv, TypeOK
<1>1. ASSUME NEW u \in Threads, Continue(u)
      PROVE  ctx[t].pc \in CallPcs /\ Current(t)' = Current(t)
  <2>1. CASE t # u
    <3>1. ctx'[t] = ctx[t]
      BY <1>0, <1>1, <2>1
      DEF Continue, Submit, SubmitInsert, SubmitRoute, PaperAck, PaperFill, FillMark,
          FillStep, FillLookup, FillBuild, FillUpdate, CancelSend
    <3> QED
      BY <3>1 DEF Current
  <2>2. CASE t = u
    <3>1. CASE SubmitInsert(t)
      BY <1>0, <3>1 DEF SubmitInsert, Current
    <3>2. CASE PaperAck(t)
      BY <1>0, <3>2 DEF PaperAck, Current
    <3>3. CASE PaperFill(t)
      <4>1. ctx[t].pc = "mark" /\ ctx[t].ex = PaperId(ctx[t].oid) /\ ctx[t].oid \in Oids
        BY <3>3, CallIds DEF PaperFill, IInv, Ownership, RoleInv
      <4>2. ctx'[t].pc = "lookup" => ctx'[t].ex = ctx[t].ex
        BY <1>0, <3>3 DEF PaperFill, FillMark, Idle
      <4>3. ctx'[t].pc = "lookup"
        BY <1>0, <3>3 DEF PaperFill, FillMark, Idle
      <4> QED
        BY <4>1, <4>2, <4>3, Ids DEF Current
    <3>4. CASE FillLookup(t)
      <4>1. ctx[t].pc = "lookup" /\ ctx'[t].pc \in {"build", "idle"}
        BY <1>0, <3>4 DEF FillLookup, Idle
      <4>2. ctx'[t].pc = "build" => ctx'[t].ex = ctx[t].ex
        BY <1>0, <3>4 DEF FillLookup, Idle
      <4> QED
        BY <4>1, <4>2 DEF Current
    <3>5. CASE FillBuild(t)
      BY <1>0, <3>5 DEF FillBuild, Current
    <3>6. CASE FillUpdate(t)
      <4>1. ctx[t].pc = "update" /\ ctx'[t].pc = "push" /\ ctx'[t].oid = ctx[t].oid
        BY <1>0, <3>6 DEF FillUpdate
      <4>2. ctx[t].ex[1] = ctx[t].oid
        BY <4>1, CallIds, OwnIds DEF IInv, Ownership, HeldInv
      <4> QED
        BY <4>1, <4>2 DEF Current
    <3>7. CASE CancelSend(t)
      BY <1>0, <3>7 DEF CancelSend, Idle
    <3> QED
      BY <1>1, <2>2, <3>1, <3>2, <3>3, <3>4, <3>5, <3>6, <3>7
      DEF Continue, Submit, SubmitRoute, FillStep
  <2> QED
    BY <2>1, <2>2
<1>2. ASSUME NEW u \in Strategies, NEW q \in 1 .. MaxQty, SubmitAcquire(u, q)
      PROVE  \/ Current(t)' = seq + 1
             \/ ctx[t].pc \in CallPcs /\ Current(t)' = Current(t)
  <2>1. CASE t = u
    BY <1>0, <1>2, <2>1 DEF SubmitAcquire, Current, Idle
  <2>2. CASE t # u
    BY <1>0, <1>2, <2>2 DEF SubmitAcquire, Current
  <2> QED
    BY <2>1, <2>2
<1>3. ASSUME NEW u \in Threads, NEW o \in Oids, CancelFind(u, o)
      PROVE  ctx[t].pc \in CallPcs /\ Current(t)' = Current(t)
  BY <1>0, <1>3 DEF CancelFind, Idle, Current
<1>4. CASE UNCHANGED ctx
  BY <1>4 DEF Current
<1>5. ASSUME NEW u \in IOThreads, NEW e \in TradeIds, FeedFill(u, e)
      PROVE  FALSE
  BY <1>5 DEF FeedFill, IInv, WorldInv
<1>6. ASSUME NEW u \in IOThreads, RestAnswer(u)
      PROVE  UNCHANGED ctx
  BY <1>6 DEF RestAnswer, RestAck, RestUnparsable, RestError
<1>7. ASSUME NEW u \in IOThreads, NEW x \in LiveIds, FeedReject(u, x)
      PROVE  UNCHANGED ctx
  BY <1>7 DEF FeedReject
<1>8. ASSUME CancelAllOpen \/ ResetForEod \/ Exchange
      PROVE  UNCHANGED ctx
  BY <1>8 DEF CancelAllOpen, ResetForEod, Exchange, ExchangeAccept, ExchangeTrade,
              ExchangeReject, ExchangeCancel
<1>9. ASSUME NEW o \in Oids, SweepCancel(o)
      PROVE  UNCHANGED ctx \/ CancelFind(Main, o)
  BY <1>9 DEF SweepCancel
<1> HIDE DEF CallPcs, SubmitPcs, OnFillPcs, FillPcs
<1> QED
  BY <1>1, <1>2, <1>3, <1>4, <1>5, <1>6, <1>7, <1>8, <1>9, Sets
  DEF NextButPublish, StrategyCall, StrategyCancel, Feed

\* The fill about to be pushed has more order ids below it than fills before it.
LEMMA PaperRoom ==
  ASSUME IInv, FillInv, PathInv, PaperQueueInv, NEW t \in Threads, ctx[t].pc = "push"
  PROVE  ctx[t].oid \in Oids /\ ctx[t].oid > FillQueue!size
<1>0. write_pos \in FillQueue!Positions /\ read_pos \in FillQueue!Positions
  BY DEF PathInv, PathTypes, FillQueue!QueueTypeOK
<1>1. ctx[t].oid \in Oids
  BY CallIds DEF IInv
<1>2. Current(t) = ctx[t].oid
  BY DEF Current, FillPcs
<1>3. FillQueue!size \in Nat /\ ctx[t].oid \in Nat /\ ctx[t].oid > 0
  BY <1>0, <1>1, Ring, QueueAssumption, SizesAssumption DEF FillQueue!size, Oids
<1>4. CASE FillQueue!size = 0
  BY <1>1, <1>3, <1>4
<1>5. CASE FillQueue!size > 0
  <2>1. write_pos # read_pos
    BY <1>0, <1>5, Ring DEF FillQueue!size
  <2>2. PICK i \in FillQueue!Positions :
          FillQueue!Distance(i, read_pos) = FillQueue!size - 1
    BY <1>0, <2>1, RingLast DEF FillQueue!size
  <2>3. Waits(i)
    BY <1>3, <2>2 DEF Waits
  <2>4. data[i].oid \in Nat
    BY <2>3, Sets DEF PathInv, WaitInv, Fills
  <2>5. data[i].oid > FillQueue!size - 1 /\ data[i].oid < ctx[t].oid
    BY <1>2, <2>2, <2>3 DEF PaperQueueInv, OnFillPcs
  <2> QED
    BY <1>1, <1>3, <2>4, <2>5
<1> QED
  BY <1>3, <1>4, <1>5

LEMMA PaperNeverRefused ==
  ASSUME IInv, FillInv, PathInv, PaperQueueInv, MaxOrders < Capacity
  PROVE  NoRefusal
<1> SUFFICES ASSUME NEW t \in Threads, PushRefused(t) PROVE FALSE
  BY DEF NoRefusal
<1>0. write_pos \in FillQueue!Positions /\ read_pos \in FillQueue!Positions
  BY DEF PathInv, PathTypes, FillQueue!QueueTypeOK
<1>1. ctx[t].pc = "push" /\ prod[t].pc = "check" /\ FillQueue!NextPos(prod[t].w) = read_pos
  BY DEF PushRefused, FillQueue!PushFull, FillPublish
<1>2. FillQueue!NextPos(write_pos) = read_pos
  BY <1>1 DEF PathInv, PushInv
<1>3. FillQueue!size = Capacity - 1
  BY <1>0, <1>2, Ring DEF FillQueue!size
<1>4. ctx[t].oid \in Oids /\ ctx[t].oid > FillQueue!size
  BY <1>1, PaperRoom
<1> QED
  BY <1>3, <1>4, QueueAssumption, SizesAssumption DEF Oids

LEMMA PaperQueueInductive ==
  ASSUME Paper, OnePusher, MaxOrders < Capacity,
         IInv, IInv', FillInv, PathInv, PaperQueueInv, [PathNext]_allVars
  PROVE  PaperQueueInv'
<1>0. /\ write_pos \in FillQueue!Positions /\ read_pos \in FillQueue!Positions
      /\ \A i \in FillQueue!Positions : Waits(i) => data[i] \in Fills /\ data[i].oid \in 1 .. seq
      /\ seq \in Nat
  BY SizesAssumption
  DEF PathInv, PathTypes, FillQueue!QueueTypeOK, WaitInv, Genuine, IInv, TypeOK
<1>1. CASE Beside(NextButPublish)
  <2>1. UNCHANGED <<write_pos, read_pos, data>>
    BY <1>1 DEF Beside, queueVars
  <2>2. \A i \in FillQueue!Positions : Waits(i)' <=> Waits(i)
    BY <2>1 DEF Waits, FillQueue!size
  <2>3. ASSUME NEW i \in FillQueue!Positions, Waits(i), NEW t \in Threads,
               ctx'[t].pc \in CallPcs
        PROVE  data[i].oid < Current(t)'
    <3>1. data[i].oid < seq + 1
      BY <1>0, <2>3
    <3>2. ctx[t].pc \in CallPcs => data[i].oid < Current(t)
      BY <2>3 DEF PaperQueueInv, CallPcs
    <3> QED
      BY <1>1, <2>3, <3>1, <3>2, PaperCalls DEF Beside
  <2> QED
    BY <2>1, <2>2, <2>3 DEF PaperQueueInv, CallPcs
<1>2. ASSUME (\E t \in Threads : PushBegin(t) \/ PushGoesOn(t)) \/ PortfolioPoll
             \/ UNCHANGED allVars
      PROVE  PaperQueueInv'
  <2>1. UNCHANGED <<write_pos, read_pos, ctx>>
    BY <1>2 DEF PushBegin, PushGoesOn, PortfolioPoll, vars, FillQueue!PushLoad,
         FillQueue!PushRoom, FillQueue!PushWrite, FillQueue!PopEmpty, FillQueue!PopCheck,
         FillQueue!PopRead, allVars, queueVars
  <2>2. \A i \in FillQueue!Positions : i # write_pos => data'[i] = data[i]
    <3>1. ASSUME NEW t \in Threads, FillQueue!PushWrite(t)
          PROVE  \A i \in FillQueue!Positions : i # write_pos => data'[i] = data[i]
      <4>1. prod[t].w = write_pos
        BY <3>1 DEF FillQueue!PushWrite, PathInv, PushInv
      <4> QED
        BY <3>1, <4>1 DEF FillQueue!PushWrite, PathInv, PathTypes, FillQueue!QueueTypeOK
    <3>2. (\E t \in Threads : FillQueue!PushWrite(t)) \/ UNCHANGED data
      BY <1>2 DEF PushBegin, PushGoesOn, PortfolioPoll, FillQueue!PushLoad,
           FillQueue!PushRoom, FillQueue!PopEmpty, FillQueue!PopCheck,
           FillQueue!PopRead, allVars, queueVars
    <3> QED
      BY <3>1, <3>2
  <2>3. \A i \in FillQueue!Positions : Waits(i)' <=> Waits(i)
    BY <2>1 DEF Waits, FillQueue!size
  <2>4. ~ Waits(write_pos)
    BY <1>0, Ring, QueueAssumption DEF Waits, FillQueue!size
  <2> QED
    BY <2>1, <2>2, <2>3, <2>4 DEF PaperQueueInv, Current
<1>3. ASSUME NEW t \in Threads, PushTaken(t)
      PROVE  PaperQueueInv'
  <2>1. /\ prod[t].pc = "store" /\ write_pos' = FillQueue!NextPos(prod[t].w)
        /\ UNCHANGED <<read_pos, data>>
        /\ ctx[t].pc = "push" /\ ctx' = [ctx EXCEPT ![t] = Idle]
    BY <1>3 DEF PushTaken, FillQueue!PushStore, FillPublish
  <2>2. /\ prod[t].w = write_pos /\ data[write_pos] = FillOf(t)
        /\ FillQueue!NextPos(write_pos) # read_pos
    BY <2>1 DEF PathInv, PushInv
  <2>3. \A i \in FillQueue!Positions : Waits(i)' <=> Waits(i) \/ i = write_pos
    BY <1>0, <2>1, <2>2, RingPush DEF Waits, FillQueue!size
  <2>4. data[write_pos].oid > FillQueue!Distance(write_pos, read_pos)
    BY <2>1, <2>2, PaperRoom, PushedFill DEF FillQueue!size
  <2>5. \A u \in Threads : ctx'[u].pc \notin CallPcs
    <3> SUFFICES ASSUME NEW u \in Threads, ctx'[u].pc \in CallPcs PROVE FALSE
      OBVIOUS
    <3>1. u # t
      BY <2>1 DEF Idle, CallPcs, SubmitPcs, OnFillPcs, FillPcs, IInv, TypeOK
    <3>2. ctx'[u] = ctx[u]
      BY <2>1, <3>1 DEF IInv, TypeOK
    <3>3. u \in Strategies /\ t \in Strategies
      BY <2>1, <3>2 DEF CallPcs, OnFillPcs, IInv, Ownership, RoleInv
    <3> QED
      BY <3>1, <3>3 DEF OnePusher
  <2> QED
    BY <2>1, <2>3, <2>4, <2>5 DEF PaperQueueInv, CallPcs
<1>4. ASSUME NEW t \in Threads, PushRefused(t)
      PROVE  PaperQueueInv'
  BY <1>4, PaperNeverRefused DEF NoRefusal
<1>5. CASE ProcessFill
  <2>1. /\ cons.pc = "store" /\ read_pos' = FillQueue!NextPos(cons.r)
        /\ UNCHANGED <<write_pos, data, ctx>>
    BY <1>5 DEF ProcessFill, FillQueue!PopStore, vars
  <2>2. cons.r = read_pos /\ read_pos # write_pos
    BY <2>1 DEF PathInv, PopInv
  <2>3. \A i \in FillQueue!Positions :
          /\ Waits(i)' <=> Waits(i) /\ i # read_pos
          /\ i # read_pos => FillQueue!Distance(i, read_pos') =
                               FillQueue!Distance(i, read_pos) - 1
    BY <1>0, <2>1, <2>2, RingPop DEF Waits, FillQueue!size
  <2>4. \A i \in FillQueue!Positions : FillQueue!Distance(i, read_pos) \in Nat
    BY <1>0, Ring
  <2>5. ASSUME NEW i \in FillQueue!Positions, Waits(i)'
        PROVE  data'[i].oid > FillQueue!Distance(i, read_pos')
    <3>1. /\ data[i].oid \in Nat /\ data[i].oid > FillQueue!Distance(i, read_pos)
          /\ FillQueue!Distance(i, read_pos') = FillQueue!Distance(i, read_pos) - 1
      BY <1>0, <2>3, <2>5 DEF PaperQueueInv
    <3> QED
      BY <2>1, <2>4, <3>1
  <2> QED
    BY <2>1, <2>3, <2>5 DEF PaperQueueInv, Current
<1> QED
  BY <1>1, <1>2, <1>3, <1>4, <1>5 DEF PathNext, Push, FillLoop

\* Paper mode with one strategy and no more orders than the queue has room for: every
\* fill that is published is booked or waits to be booked.
THEOREM PaperBooksComplete ==
  ASSUME SingleIOThread, OnePusher, Paper, MaxOrders < Capacity
  PROVE  PathSpec => []PublishedIsBooked
<1>1. IInv /\ IInv' /\ FillInv /\ PathInv /\ PaperQueueInv /\ [PathNext]_allVars
        => PaperQueueInv'
  BY PaperQueueInductive
<1>2. PathInit => PaperQueueInv /\ NoneLost
  BY PathInitInv
<1>3. IInv /\ FillInv /\ PathInv /\ PaperQueueInv /\ NoneLost /\ [PathNext]_allVars
        => NoneLost'
  BY PaperNeverRefused, PathInductive
<1> QED
  BY <1>1, <1>2, <1>3, BooksComplete, PathInvariance, PTL DEF PathSpec

-----------------------------------------------------------------------------
(* The fill queue itself, for its callers on both sides *)

FillRing == INSTANCE SPSCQueueProofs WITH Items <- Fills, Producers <- Threads

\* What SPSCQueueProofs shows of every queue, of this one
LEMMA RingCalled ==
  /\ FillRing!QueueInit => FillRing!QueueInv /\ FillRing!Abstract!FIFOInit
  /\ FillRing!PushesApart /\ FillRing!QueueInv /\ [FillRing!QueueNext]_FillRing!queueVars
       => FillRing!QueueInv' /\ [FillRing!Abstract!FIFONext]_FillRing!Abstract!fifoVars
  /\ FillRing!PushesApart /\ FillRing!QueueInv => FillRing!NoDataRace
  BY QueueAssumption, FillRing!CalledQueue

\* FillRing is FillQueue, with the theorems.
LEMMA SameRing ==
  /\ FillQueue!QueueInit <=> FillRing!QueueInit
  /\ FillQueue!NoDataRace <=> FillRing!NoDataRace
  /\ FillQueue!Contents = FillRing!Contents
<1>1. FillQueue!QueueInit <=> FillRing!QueueInit
  BY DEF FillQueue!QueueInit, FillRing!QueueInit, FillQueue!Positions, FillRing!Positions,
         FillQueue!IdleProducer, FillRing!IdleProducer, FillQueue!IdleConsumer,
         FillRing!IdleConsumer
<1>2. FillQueue!NoDataRace <=> FillRing!NoDataRace
  BY DEF FillQueue!NoDataRace, FillRing!NoDataRace
<1>3. FillQueue!Contents = FillRing!Contents
  BY DEF FillQueue!Contents, FillRing!Contents, FillQueue!Between, FillRing!Between,
         FillQueue!Distance, FillRing!Distance, FillQueue!SlotOf, FillRing!SlotOf
<1> QED
  BY <1>1, <1>2, <1>3

\* The threads that push are those at the end of on_fill.
PushCalls ==
  /\ DOMAIN prod = Threads
  /\ \A t \in Threads : prod[t].pc # "idle" => ctx[t].pc = "push"

\* What on_fill pushes is a fill, also when its trade id is missing or repeated.
LEMMA PushedIsFill ==
  ASSUME IInv, NEW t \in Threads, ctx[t].pc = "push"
  PROVE  FillOf(t) \in Fills
<1>1. ctx[t].trade \in TradeIds /\ ctx[t].oid \in 1 .. seq
  BY DEF IInv, Ownership, RoleInv
<1>2. ctx[t].oid \in Oids
  <2>1. seq \in 0 .. MaxOrders
    BY DEF IInv, TypeOK
  <2> QED
    BY <1>1, <2>1, SizesAssumption DEF Oids
<1>3. ctx[t].qty \in Nat /\ ctx[t].owner \in Threads \cup {None}
  BY DEF IInv, TypeOK, CallRecord
<1> QED
  BY <1>1, <1>2, <1>3 DEF FillOf, Fills

\* Every step of the composition is a step of the queue, or invisible to it.
LEMMA RingStep ==
  ASSUME IInv, [PathNext]_allVars
  PROVE  [FillRing!QueueNext]_FillRing!queueVars
<1>1. CASE Beside(NextButPublish) \/ UNCHANGED allVars
  BY <1>1 DEF Beside, allVars, queueVars, FillRing!queueVars
<1>2. ASSUME NEW t \in Threads, Push(t)
      PROVE  FillRing!QueueNext
  <2>1. CASE PushBegin(t)
    <3>1. FillOf(t) \in Fills
      BY <2>1, PushedIsFill DEF PushBegin
    <3>2. FillRing!PushLoad(t, FillOf(t))
      BY <2>1 DEF PushBegin, FillQueue!PushLoad, FillRing!PushLoad
    <3> QED
      BY <3>1, <3>2 DEF FillRing!QueueNext
  <2>2. CASE FillQueue!PushRoom(t)
    <3>1. FillRing!PushRoom(t)
      BY <2>2 DEF FillQueue!PushRoom, FillRing!PushRoom, FillQueue!NextPos, FillRing!NextPos
    <3> QED
      BY <3>1 DEF FillRing!QueueNext, FillRing!PushStep
  <2>3. CASE FillQueue!PushWrite(t)
    <3>1. FillRing!PushWrite(t)
      BY <2>3 DEF FillQueue!PushWrite, FillRing!PushWrite
    <3> QED
      BY <3>1 DEF FillRing!QueueNext, FillRing!PushStep
  <2>4. CASE FillQueue!PushStore(t)
    <3>1. FillRing!PushStore(t)
      BY <2>4 DEF FillQueue!PushStore, FillRing!PushStore, FillQueue!NextPos,
                  FillRing!NextPos, FillQueue!IdleProducer, FillRing!IdleProducer
    <3> QED
      BY <3>1 DEF FillRing!QueueNext, FillRing!PushStep
  <2>5. CASE FillQueue!PushFull(t)
    <3>1. FillRing!PushFull(t)
      BY <2>5 DEF FillQueue!PushFull, FillRing!PushFull, FillQueue!NextPos,
                  FillRing!NextPos, FillQueue!IdleProducer, FillRing!IdleProducer
    <3> QED
      BY <3>1 DEF FillRing!QueueNext, FillRing!PushStep
  <2> QED
    BY <1>2, <2>1, <2>2, <2>3, <2>4, <2>5 DEF Push, PushGoesOn, PushTaken, PushRefused
<1>3. CASE FillLoop
  <2>1. CASE FillQueue!PopEmpty
    BY <2>1 DEF FillQueue!PopEmpty, FillRing!PopEmpty, FillRing!QueueNext, FillRing!PopStep
  <2>2. CASE FillQueue!PopCheck
    BY <2>2 DEF FillQueue!PopCheck, FillRing!PopCheck, FillRing!QueueNext, FillRing!PopStep
  <2>3. CASE FillQueue!PopRead
    BY <2>3 DEF FillQueue!PopRead, FillRing!PopRead, FillRing!QueueNext, FillRing!PopStep
  <2>4. CASE FillQueue!PopStore
    <3>1. FillRing!PopStore
      BY <2>4 DEF FillQueue!PopStore, FillRing!PopStore, FillQueue!NextPos,
                  FillRing!NextPos, FillQueue!IdleConsumer, FillRing!IdleConsumer
    <3> QED
      BY <3>1 DEF FillRing!QueueNext, FillRing!PopStep
  <2> QED
    BY <1>3, <2>1, <2>2, <2>3, <2>4 DEF FillLoop, PortfolioPoll, ProcessFill
<1> QED
  BY <1>1, <1>2, <1>3 DEF PathNext

\* A thread at the end of on_fill does nothing else.
LEMMA PushKeeps ==
  ASSUME IInv, NextButPublish, NEW u \in Threads, ctx[u].pc = "push"
  PROVE  ctx'[u] = ctx[u]
<1>1. ASSUME NEW t \in Threads, Continue(t) PROVE ctx'[u] = ctx[u]
  BY <1>1 DEF Continue, Submit, SubmitInsert, SubmitRoute, PaperAck, PaperFill, FillMark,
              SubmitPlace, FillStep, FillLookup, FillBuild, FillUpdate, CancelSend,
              IInv, TypeOK
<1>2. ASSUME NEW t \in Strategies, NEW q \in 1 .. MaxQty, SubmitAcquire(t, q)
      PROVE  ctx'[u] = ctx[u]
  BY <1>2 DEF SubmitAcquire, IInv, TypeOK
<1>3. ASSUME NEW t \in Threads, NEW o \in Oids, CancelFind(t, o) PROVE ctx'[u] = ctx[u]
  BY <1>3 DEF CancelFind, IInv, TypeOK
<1>4. ASSUME NEW t \in IOThreads, RestAnswer(t) \/ Feed(t) PROVE ctx'[u] = ctx[u]
  BY <1>4 DEF RestAnswer, RestAck, RestUnparsable, RestError, Feed, FeedFill, FeedReject,
              FillMark, IInv, TypeOK
<1>5. CASE CancelAllOpen \/ ResetForEod \/ Exchange
  BY <1>5 DEF CancelAllOpen, ResetForEod, Exchange, ExchangeAccept, ExchangeTrade,
              ExchangeReject, ExchangeCancel
<1>6. ASSUME NEW o \in Oids, SweepCancel(o) PROVE ctx'[u] = ctx[u]
  BY <1>3, <1>6, Sets DEF SweepCancel
<1> QED
  BY <1>1, <1>2, <1>3, <1>4, <1>5, <1>6, Sets DEF NextButPublish, StrategyCall, StrategyCancel

LEMMA PushCallsKept ==
  ASSUME IInv, PushCalls, [PathNext]_allVars
  PROVE  PushCalls'
<1>1. CASE Beside(NextButPublish)
  <2>1. UNCHANGED prod /\ \A t \in Threads : ctx[t].pc = "push" => ctx'[t] = ctx[t]
    BY <1>1, PushKeeps DEF Beside, queueVars
  <2> QED
    BY <2>1 DEF PushCalls
<1>2. ASSUME NEW t \in Threads, Push(t)
      PROVE  PushCalls'
  <2>1. CASE PushBegin(t) \/ PushGoesOn(t)
    <3>1. UNCHANGED ctx /\ ctx[t].pc = "push"
      BY <2>1 DEF PushBegin, PushGoesOn, vars, PushCalls, FillQueue!PushRoom, FillQueue!PushWrite
    <3>2. /\ DOMAIN prod' = DOMAIN prod
          /\ \A u \in Threads : u # t => prod'[u] = prod[u]
      BY <2>1 DEF PushBegin, PushGoesOn, PushCalls, FillQueue!PushLoad,
                  FillQueue!PushRoom, FillQueue!PushWrite
    <3> QED
      BY <3>1, <3>2 DEF PushCalls
  <2>2. CASE PushTaken(t) \/ PushRefused(t)
    <3>1. /\ DOMAIN prod' = DOMAIN prod /\ prod'[t].pc = "idle"
          /\ \A u \in Threads : u # t => prod'[u] = prod[u]
      BY <2>2 DEF PushTaken, PushRefused, PushCalls, FillQueue!PushStore, FillQueue!PushFull,
                  FillQueue!IdleProducer
    <3>2. \A u \in Threads : u # t => ctx'[u] = ctx[u]
      BY <2>2 DEF PushTaken, PushRefused, FillPublish, IInv, TypeOK
    <3> QED
      BY <3>1, <3>2 DEF PushCalls
  <2> QED
    BY <1>2, <2>1, <2>2 DEF Push
<1>3. CASE FillLoop
  BY <1>3 DEF FillLoop, PortfolioPoll, ProcessFill, PushCalls, vars, FillQueue!PopEmpty,
              FillQueue!PopCheck, FillQueue!PopRead, FillQueue!PopStore
<1>4. CASE UNCHANGED allVars
  BY <1>4 DEF allVars, vars, queueVars, PushCalls
<1> QED
  BY <1>1, <1>2, <1>3, <1>4 DEF PathNext

\* The composition uses the queue as the class asks: its steps are those of push and
\* pop, and no two pushes overlap, although several threads may call on_fill in time.
LEMMA RingUsed ==
  ASSUME SingleIOThread, OnePusher
  PROVE  PathSpec => /\ FillRing!QueueInit /\ [][FillRing!QueueNext]_FillRing!queueVars
                     /\ [](FillRing!PushesApart /\ FillRing!QueueInv)
<1>1. PathSpec => []IInv
  BY PathImplementsOMS, Invariance
<1>2. IInv /\ PushCalls => FillRing!PushesApart
  BY OnePush DEF PushCalls, FillRing!PushesApart
<1>3. PathInit => PushCalls /\ FillRing!QueueInit
  <2>1. PathInit => FillRing!QueueInit
    BY SameRing DEF PathInit
  <2>2. PathInit => PushCalls
    BY DEF PathInit, PushCalls, FillQueue!QueueInit, FillQueue!IdleProducer
  <2> QED
    BY <2>1, <2>2
<1>4. IInv /\ PushCalls /\ [PathNext]_allVars => PushCalls'
  BY PushCallsKept
<1>5. IInv /\ [PathNext]_allVars => [FillRing!QueueNext]_FillRing!queueVars
  BY RingStep
<1>6. FillRing!QueueInit => FillRing!QueueInv
  BY RingCalled
<1>7. FillRing!PushesApart /\ FillRing!QueueInv /\ [FillRing!QueueNext]_FillRing!queueVars
        => FillRing!QueueInv'
  BY RingCalled
<1> QED
  BY <1>1, <1>2, <1>3, <1>4, <1>5, <1>6, <1>7, PTL DEF PathSpec

\* With one thread that runs on_fill: no slot of the fill queue is written while the
\* portfolio's thread reads it, whatever the feed and the strategies do.
THEOREM FillsNeverTorn ==
  ASSUME SingleIOThread, OnePusher
  PROVE  PathSpec => []FillQueue!NoDataRace
<1>1. FillRing!PushesApart /\ FillRing!QueueInv => FillQueue!NoDataRace
  BY RingCalled, SameRing
<1> QED
  BY <1>1, RingUsed, PTL

\* Between order management and the portfolio stands a bounded queue: fills arrive in
\* the order they were pushed, each once, and the push in on_fill is refused only if
\* Capacity - 1 fills wait.
THEOREM FillsQueueInOrder ==
  ASSUME SingleIOThread, OnePusher
  PROVE  PathSpec => FillQueue!ImplementsFIFO
<1>1. FillRing!QueueInit => FillQueue!Abstract!FIFOInit
  BY RingCalled, SameRing DEF FillQueue!Abstract!FIFOInit, FillRing!Abstract!FIFOInit
<1>2. FillRing!PushesApart /\ FillRing!QueueInv /\ [FillRing!QueueNext]_FillRing!queueVars
        => [FillQueue!Abstract!FIFONext]_FillQueue!Abstract!fifoVars
  <2>1. FillQueue!Contents = FillRing!Contents
    BY SameRing
  <2>2. FillQueue!Contents' = FillRing!Contents'
    BY DEF FillQueue!Contents, FillRing!Contents, FillQueue!Between, FillRing!Between,
           FillQueue!Distance, FillRing!Distance, FillQueue!SlotOf, FillRing!SlotOf
  <2>3. [FillRing!Abstract!FIFONext]_FillRing!Abstract!fifoVars
          => [FillQueue!Abstract!FIFONext]_FillQueue!Abstract!fifoVars
    BY <2>1, <2>2
    DEF FillQueue!Abstract!FIFONext, FillRing!Abstract!FIFONext,
        FillQueue!Abstract!fifoVars, FillRing!Abstract!fifoVars, FillQueue!Abstract!Put,
        FillRing!Abstract!Put, FillQueue!Abstract!PutRefused,
        FillRing!Abstract!PutRefused, FillQueue!Abstract!Get, FillRing!Abstract!Get,
        FillQueue!Abstract!GetNothing, FillRing!Abstract!GetNothing
  <2> QED
    BY <2>3, RingCalled
<1> QED
  BY <1>1, <1>2, RingUsed, PTL DEF FillQueue!ImplementsFIFO, FillQueue!Abstract!FIFOSpec

-----------------------------------------------------------------------------
(* How far behind the portfolio may fall *)

\* The trades fill_cb_ has told of and process_fill has not applied
Unbooked == {e \in TradeIds : booked[e] < published[e]}

LEMMA FiniteTrades == IsFiniteSet(TradeIds)
<1>1. IsFiniteSet(1 .. MaxOrders) /\ IsFiniteSet(0 .. MaxSlices) /\ IsFiniteSet(1 .. MaxTrades)
  BY FS_Interval, SizesAssumption
<1>2. IsFiniteSet((1 .. MaxOrders) \X (0 .. MaxSlices))
  BY <1>1, FS_Product
<1> QED
  BY <1>1, <1>2, FS_Product DEF TradeIds, ExIds, Oids

\* In a full ring every position waits but the one to be written next.
LEMMA RingFull ==
  ASSUME NEW w \in FillQueue!Positions, NEW r \in FillQueue!Positions,
         NEW i \in FillQueue!Positions, FillQueue!NextPos(w) = r, i # w
  PROVE  FillQueue!Distance(i, r) < FillQueue!Distance(w, r)
  BY QueueAssumption DEF FillQueue!Positions, FillQueue!NextPos, FillQueue!Distance

LEMMA RefusedWhenBehind ==
  ASSUME IInv, FillInv, PathInv, Anonymous \cup forgotten = {},
         NEW t \in Threads, PushRefused(t)
  PROVE  Cardinality(Unbooked) >= Capacity - 1
<1> DEFINE Full == FillQueue!Positions \ {write_pos}
<1>1. write_pos \in FillQueue!Positions /\ read_pos \in FillQueue!Positions
  BY DEF PathInv, PathTypes, FillQueue!QueueTypeOK
<1>2. FillQueue!NextPos(write_pos) = read_pos
  BY DEF PushRefused, FillQueue!PushFull, PathInv, PushInv
<1>3. \A i \in Full : Waits(i)
  BY <1>1, <1>2, RingFull DEF Waits, FillQueue!size
<1>4. \A i \in Full : data[i].trade \in Unbooked
  <2> SUFFICES ASSUME NEW i \in Full PROVE data[i].trade \in Unbooked
    OBVIOUS
  <2>1. data[i] \in Fills /\ i \in Waiting(data[i].trade)
    BY <1>3 DEF PathInv, WaitInv, Waiting
  <2>2. PICK e \in TradeIds : e = data[i].trade
    BY <2>1 DEF Fills
  <2>3. Cardinality(Waiting(e)) # 0 /\ Cardinality(Waiting(e)) \in Nat
    BY <2>1, <2>2, WaitingFinite, FS_EmptySet
  <2>4. booked[e] \in Nat /\ published[e] \in Nat
        /\ booked[e] + Cardinality(Waiting(e)) <= published[e]
    BY DEF PathInv, PathTypes, WaitInv, IInv, TypeOK
  <2> QED
    BY <2>2, <2>3, <2>4 DEF Unbooked
<1>5. \A i, j \in Full : data[i].trade = data[j].trade => i = j
  <2> SUFFICES ASSUME NEW i \in Full, NEW j \in Full, data[i].trade = data[j].trade
               PROVE  i = j
    OBVIOUS
  <2>1. PICK e \in TradeIds : e = data[i].trade
    BY <1>3 DEF PathInv, WaitInv, Fills
  <2>2. i \in Waiting(e) /\ j \in Waiting(e)
    BY <1>3, <2>1 DEF Waiting
  <2>3. /\ booked[e] \in Nat /\ published[e] \in Nat /\ published[e] <= 1
        /\ booked[e] + Cardinality(Waiting(e)) <= published[e]
    BY DEF PathInv, PathTypes, WaitInv, IInv, TypeOK, FillInv, DedupInv
  <2>4. IsFiniteSet(Waiting(e)) /\ Cardinality(Waiting(e)) \in Nat
    BY WaitingFinite
  <2>5. Cardinality({i, j}) <= 1
    <3>1. Cardinality({i, j}) <= Cardinality(Waiting(e)) /\ IsFiniteSet({i, j})
      BY <2>2, <2>4, FS_Subset
    <3>2. Cardinality({i, j}) \in Nat
      BY <3>1, FS_CardinalityType
    <3> QED
      BY <2>3, <2>4, <3>1, <3>2
  <2>6. i # j => Cardinality({i, j}) = 2
    <3>1. {i, j} = {i} \cup {j} /\ IsFiniteSet({i}) /\ Cardinality({i}) = 1
      BY FS_Singleton
    <3>2. Cardinality({i} \cup {j}) = IF j \in {i} THEN Cardinality({i})
                                                  ELSE Cardinality({i}) + 1
      BY <3>1, FS_AddElement, Zenon
    <3> QED
      BY <3>1, <3>2
  <2> QED
    BY <2>5, <2>6
<1> DEFINE f == [i \in Full |-> data[i].trade]
<1>6. f \in Injection(Full, Unbooked)
  BY <1>4, <1>5 DEF Injection, IsInjective
<1>7. IsFiniteSet(Unbooked)
  BY FiniteTrades, FS_Subset DEF Unbooked
<1>8. Cardinality(Full) <= Cardinality(Unbooked)
  BY <1>6, <1>7, FS_Injection
<1>9. IsFiniteSet(FillQueue!Positions) /\ Cardinality(FillQueue!Positions) = Capacity
  BY FS_Interval, QueueAssumption DEF FillQueue!Positions
<1>10. Cardinality(Full) = Capacity - 1
  BY <1>1, <1>9, FS_RemoveElement
<1>11. Cardinality(Unbooked) \in Nat
  BY <1>7, FS_CardinalityType
<1> QED
  BY <1>8, <1>10, <1>11, QueueAssumption

\* As long as every trade has an id that is not forgotten, the push of on_fill is
\* refused, and its fill lost, only when the portfolio is Capacity - 1 published trades
\* behind (4095 of FillQueue's 4096 slots).
THEOREM RefusedOnlyWhenBehind ==
  ASSUME SingleIOThread, OnePusher, Anonymous = {}
  PROVE  PathSpec =>
           [][(\E t \in Threads : PushRefused(t)) /\ forgotten = {}
                => Cardinality(Unbooked) >= Capacity - 1]_allVars
<1>1. IInv /\ FillInv /\ PathInv =>
        [(\E t \in Threads : PushRefused(t)) /\ forgotten = {}
           => Cardinality(Unbooked) >= Capacity - 1]_allVars
  BY RefusedWhenBehind
<1> QED
  BY <1>1, PathInvariance, PTL

\* As long as the portfolio is fewer than Capacity - 1 published trades behind, each of
\* them is booked or waits to be, in live and in paper mode.
THEOREM BooksCompleteWhenPrompt ==
  ASSUME SingleIOThread, OnePusher, Anonymous = {}
  PROVE  PathSpec /\ [](forgotten = {} /\ Cardinality(Unbooked) < Capacity - 1)
           => []PublishedIsBooked
<1>1. IInv /\ FillInv /\ PathInv /\ forgotten = {} /\ Cardinality(Unbooked) < Capacity - 1
        => NoRefusal
  <2> SUFFICES ASSUME IInv, FillInv, PathInv, forgotten = {},
                      Cardinality(Unbooked) < Capacity - 1,
                      NEW t \in Threads, PushRefused(t)
               PROVE  FALSE
    BY DEF NoRefusal
  <2>1. Cardinality(Unbooked) >= Capacity - 1
    BY RefusedWhenBehind
  <2>2. Cardinality(Unbooked) \in Nat
    BY FiniteTrades, FS_Subset, FS_CardinalityType DEF Unbooked
  <2> QED
    BY <2>1, <2>2, QueueAssumption
<1>2. IInv /\ FillInv /\ PathInv /\ (forgotten = {} /\ Cardinality(Unbooked) < Capacity - 1)
        => [NoRefusal]_allVars
  BY <1>1
<1> QED
  BY <1>2, BooksLoseOnlyRefused, PathInvariance, PTL
=============================================================================
