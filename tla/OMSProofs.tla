----------------------------- MODULE OMSProofs -----------------------------
(***************************************************************************)
(* With one thread for the broker's callbacks, as in main.cpp, and any     *)
(* number of strategies, pool slots and orders, in live and in paper mode: *)
(* the order pool is never corrupted, on_fill never follows a stale        *)
(* pointer, and the two maps and the two copies of an order's status       *)
(* agree.  IInv is the inductive invariant.  FillInv adds what the fills   *)
(* need: no trade is applied twice, and an order that still works at the   *)
(* exchange is still in the table.                                         *)
(***************************************************************************)
EXTENDS OMS, TLAPS

SingleIOThread == \A t, u \in IOThreads : t = u

SubmitPcs == {"insert", "ack", "mark", "place"}
FillPcs == {"lookup", "build", "update"}

\* The exchange id under which order o can be known.
OwnId(o) == IF Paper THEN PaperId(o) ELSE <<o, 1>>

\* The order a strategy's call is about: on_fill only has the exchange id at first.
Current(t) == IF ctx[t].pc \in FillPcs THEN ctx[t].ex[1] ELSE ctx[t].oid

\* Who runs what: strategies submit, and fills are applied by the strategy itself
\* in paper mode and by an IO thread in live mode.
RoleInv ==
  \A t \in Threads :
    /\ ctx[t].pc \in SubmitPcs =>
         /\ t \in Strategies
         /\ ctx[t].oid \in 1 .. seq
         /\ rest[ctx[t].oid] = "idle"
    /\ ctx[t].pc \in {"ack", "mark"} => Paper
    /\ ctx[t].pc = "place" => ~ Paper
    /\ ctx[t].pc = "mark" => ctx[t].ex = PaperId(ctx[t].oid)
    /\ ctx[t].pc \in FillPcs \cup {"push"} =>
         /\ ctx[t].ex \in ExIds
         /\ ctx[t].trade \in TradeIds
         /\ IF Paper THEN t \in Strategies /\ ctx[t].ex = PaperId(ctx[t].ex[1])
                     ELSE t \in IOThreads /\ ctx[t].ex \in LiveIds
    /\ ctx[t].pc \in {"build", "update", "push"} => ctx[t].oid \in 1 .. seq
    /\ Paper /\ ctx[t].pc \in FillPcs => ctx[t].ex[1] \in 1 .. seq
    /\ ctx[t].pc = "cancel" => ctx[t].ex \in ExIds

\* Two strategies never work on one order.
DistinctInv ==
  \A t, u \in Strategies :
    /\ t # u
    /\ ctx[t].pc \in SubmitPcs \cup FillPcs
    /\ ctx[u].pc \in SubmitPcs \cup FillPcs
    => Current(t) # Current(u)

RecordOf(o) == slot[orders[o]]

\* The orders in the table and their records.
TableInv ==
  \A o \in Oids :
    orders[o] # Null =>
      /\ o <= seq
      /\ RecordOf(o).oid = o
      /\ RecordOf(o).owner = request[o].owner
      /\ RecordOf(o).qty = request[o].qty
      /\ RecordOf(o).sm = RecordOf(o).status
      /\ RecordOf(o).sm \in {"PENDING", "OPEN", "PARTIAL"}
      /\ ~ Paper /\ rest[o] \in {"idle", "sent", "accepted"} =>
           RecordOf(o).sm = "PENDING"

\* A submit that has its record but has not inserted it.
SubmitInv ==
  \A t \in Threads :
    ctx[t].pc = "insert" =>
      /\ ctx[t].po \in Slots
      /\ orders[ctx[t].oid] = Null
      /\ slot[ctx[t].po].oid = ctx[t].oid
      /\ slot[ctx[t].po].owner = request[ctx[t].oid].owner
      /\ slot[ctx[t].po].qty = request[ctx[t].oid].qty
      /\ slot[ctx[t].po].sm = "PENDING"
      /\ slot[ctx[t].po].status = "PENDING"

\* The inserted order of a paper submit, until its fill is applied.
PaperInv ==
  \A t \in Threads :
    /\ ctx[t].pc = "ack" => orders[ctx[t].oid] # Null
                            /\ RecordOf(ctx[t].oid).sm = "PENDING"
    /\ ctx[t].pc = "mark" => Cancellable(ctx[t].oid)
    /\ Paper /\ ctx[t].pc = "lookup" => Cancellable(ctx[t].ex[1])

\* The exchange ids known are the own ids of the working orders.
MapInv ==
  /\ \A x \in ExIds :
       exchange_to_internal[x] # Null =>
         /\ x = OwnId(exchange_to_internal[x])
         /\ Cancellable(exchange_to_internal[x])
  /\ \A o \in Oids : Cancellable(o) => exchange_to_internal[OwnId(o)] = o

\* The pointer that on_fill holds.
HeldInv ==
  \A t \in Threads :
    /\ ctx[t].pc \in {"build", "update"} =>
         /\ ctx[t].po # Null
         /\ orders[ctx[t].oid] = ctx[t].po
         /\ Cancellable(ctx[t].oid)
    /\ ctx[t].pc \in {"build", "update", "push"} => ctx[t].ex = OwnId(ctx[t].oid)
    /\ ctx[t].pc \in {"update", "push"} =>
         ctx[t].owner = request[ctx[t].oid].owner

\* Where each slot is.
PoolInv ==
  /\ \A s \in Slots : \/ \E i \in 1 .. Len(free_list) : free_list[i] = s
                      \/ \E o \in Oids : orders[o] = s
                      \/ \E t \in Threads : ctx[t].pc = "insert" /\ ctx[t].po = s
  /\ \A i, j \in 1 .. Len(free_list) : free_list[i] = free_list[j] => i = j
  /\ \A i \in 1 .. Len(free_list), o \in Oids : free_list[i] # orders[o]
  /\ \A i \in 1 .. Len(free_list), t \in Threads :
       ctx[t].pc = "insert" => free_list[i] # ctx[t].po
  /\ \A o, p \in Oids : orders[o] = orders[p] /\ orders[o] # Null => o = p
  /\ \A o \in Oids, t \in Threads : ctx[t].pc = "insert" => orders[o] # ctx[t].po
  /\ \A t, u \in Threads :
       ctx[t].pc = "insert" /\ ctx[u].pc = "insert" /\ ctx[t].po = ctx[u].po
         => t = u

\* The broker knows nothing of paper orders and of orders not yet submitted; an
\* exchange order that still works has a trade left within the bound.
WorldInv ==
  /\ \A o \in Oids : rest[o] # "idle" => o <= seq /\ ~ Paper
  /\ \A x \in ExIds :
       /\ exch[x].st # "none" => x \in LiveIds /\ ~ Paper
       /\ exch[x].st = "live" => exch[x].n < MaxTrades
  /\ \A e \in TradeIds : trades[e] # 0 => e[1] \in LiveIds /\ ~ Paper

Ownership == /\ RoleInv /\ DistinctInv /\ TableInv /\ SubmitInv
             /\ PaperInv /\ MapInv /\ HeldInv /\ PoolInv

IInv == TypeOK /\ WorldInv /\ Ownership

-----------------------------------------------------------------------------
(* Identifiers *)

LEMMA Sets ==
  /\ Null \notin Slots /\ Null \notin Oids /\ Oids \subseteq Nat /\ Slots \subseteq Nat
  /\ Strategies \subseteq Threads /\ IOThreads \subseteq Threads /\ Main \in Threads
  /\ \A t \in IOThreads : t \notin Strategies
  /\ \A i \in 0 .. MaxOrders : 1 .. i \subseteq Oids
  BY SizesAssumption, ThreadsAssumption DEF Null, Slots, Oids, Threads

LEMMA Ids ==
  /\ LiveIds \subseteq ExIds
  /\ \A x \in ExIds : x[1] \in Oids /\ <<x, 1>> \in TradeIds
  /\ \A e \in TradeIds : e[1] \in ExIds
  /\ \A o \in Oids : PaperId(o) \in ExIds /\ PaperId(o)[1] = o
                     /\ <<o, 1>> \in LiveIds /\ <<o, 1>>[1] = o
                     /\ PaperId(o) \notin LiveIds
  BY SizesAssumption DEF ExIds, LiveIds, TradeIds, PaperId

LEMMA OwnIds ==
  /\ \A o \in Oids : OwnId(o) \in ExIds /\ OwnId(o)[1] = o
  /\ \A o, p \in Oids : OwnId(o) = OwnId(p) => o = p
<1>1. \A o \in Oids : OwnId(o) \in ExIds /\ OwnId(o)[1] = o
  BY Ids DEF OwnId
<1> QED
  BY <1>1

LEMMA Transitions ==
  /\ transition("PENDING", "OPEN") = "OPEN"
  /\ transition("OPEN", "COMPLETE") = "COMPLETE"
  /\ transition("PARTIAL", "COMPLETE") = "COMPLETE"
  /\ transition("OPEN", "PARTIAL") = "PARTIAL"
  /\ transition("PARTIAL", "PARTIAL") = "PARTIAL"
  /\ \A from, to \in Statuses : transition(from, to) \in Statuses
  BY DEF transition, is_legal, Statuses

\* The ids in the locals of a call name orders.
LEMMA CallIds ==
  ASSUME Ownership, TypeOK, NEW t \in Threads
  PROVE  /\ ctx[t].pc \in SubmitPcs \cup {"build", "update", "push"} =>
              ctx[t].oid \in Oids /\ ctx[t].oid <= seq
         /\ ctx[t].pc \in FillPcs \cup {"push"} =>
              ctx[t].ex \in ExIds /\ ctx[t].ex[1] \in Oids
<1>1. \A i \in 1 .. seq : i \in Oids /\ i <= seq
  BY SizesAssumption DEF TypeOK, Oids
<1> QED
  BY <1>1, Ids DEF Ownership, RoleInv

-----------------------------------------------------------------------------
(* Steps of the outside world *)

LEMMA WorldStep ==
  ASSUME Ownership,
         UNCHANGED <<free_list, slot, orders, exchange_to_internal, seq, ctx, request>>,
         \A o \in Oids : rest'[o] = rest[o] \/ rest[o] \in {"sent", "accepted"},
         TypeOK
  PROVE  Ownership'
<1>1. RoleInv'
  BY Sets DEF Ownership, RoleInv, TypeOK
<1>2. DistinctInv'
  BY DEF Ownership, DistinctInv, Current
<1>3. TableInv'
  BY DEF Ownership, TableInv, RecordOf
<1>4. SubmitInv'
  BY DEF Ownership, SubmitInv
<1>5. PaperInv'
  BY DEF Ownership, PaperInv, RecordOf, Cancellable
<1>6. MapInv'
  BY DEF Ownership, MapInv, Cancellable
<1>7. HeldInv'
  BY DEF Ownership, HeldInv, Cancellable
<1>8. PoolInv'
  BY DEF Ownership, PoolInv
<1> QED
  BY <1>1, <1>2, <1>3, <1>4, <1>5, <1>6, <1>7, <1>8 DEF Ownership

-----------------------------------------------------------------------------
(* A call that ends, or begins without touching anything *)

LEMMA QuietStep ==
  ASSUME Ownership, TypeOK, NEW t \in Threads, NEW c,
         ctx' = [ctx EXCEPT ![t] = c],
         ctx[t].pc # "insert",
         c.pc = "idle" \/ (c.pc = "cancel" /\ c.ex \in ExIds),
         UNCHANGED <<free_list, slot, orders, exchange_to_internal, seq, request, rest>>
  PROVE  Ownership'
<1>0. \A u \in Threads : ctx'[u] = IF u = t THEN c ELSE ctx[u]
  BY DEF TypeOK
<1>1. RoleInv'
  BY <1>0 DEF Ownership, RoleInv, SubmitPcs, FillPcs
<1>2. DistinctInv'
  BY <1>0, Sets DEF Ownership, DistinctInv, Current, SubmitPcs, FillPcs
<1>3. TableInv'
  BY DEF Ownership, TableInv, RecordOf
<1>4. SubmitInv'
  BY <1>0 DEF Ownership, SubmitInv
<1>5. PaperInv'
  BY <1>0 DEF Ownership, PaperInv, RecordOf, Cancellable
<1>6. MapInv'
  BY DEF Ownership, MapInv, Cancellable
<1>7. HeldInv'
  BY <1>0 DEF Ownership, HeldInv, Cancellable
<1>8. PoolInv'
  BY <1>0 DEF Ownership, PoolInv
<1> QED
  BY <1>1, <1>2, <1>3, <1>4, <1>5, <1>6, <1>7, <1>8 DEF Ownership

-----------------------------------------------------------------------------
(* An order leaves the table: it is complete, rejected, or was never placed *)

LEMMA RemoveStep ==
  ASSUME Ownership, TypeOK, NEW o \in Oids, orders[o] # Null,
         free_list' = Append(free_list, orders[o]),
         orders' = [orders EXCEPT ![o] = Null],
         \A s \in Slots : s # orders[o] => slot'[s] = slot[s],
         \A x \in ExIds : exchange_to_internal'[x] =
                            IF x = OwnId(o) THEN Null ELSE exchange_to_internal[x],
         \A u \in Threads :
           \/ ctx'[u] = ctx[u]
           \/ /\ ctx[u].pc = "update" /\ ctx'[u].pc = "push"
              /\ ctx'[u].oid = ctx[u].oid /\ ctx'[u].ex = ctx[u].ex
              /\ ctx'[u].trade = ctx[u].trade /\ ctx'[u].owner = ctx[u].owner,
         \A u \in Threads : /\ ctx'[u].pc \in {"build", "update"} => ctx[u].oid # o
                            /\ ctx'[u].pc \in {"ack", "mark"} => ctx[u].oid # o
                            /\ Paper /\ ctx'[u].pc = "lookup" => ctx[u].ex[1] # o,
         UNCHANGED <<seq, request>>,
         \A p \in Oids : rest'[p] = rest[p] \/ rest[p] # "idle",
         \A p \in Oids : p # o => rest'[p] = rest[p]
  PROVE  Ownership'
<1>1. \A p \in Oids : orders'[p] = IF p = o THEN Null ELSE orders[p]
  BY DEF TypeOK
<1>2. \A p \in Oids : p # o => (orders'[p] # Null => slot'[orders'[p]] = slot[orders[p]])
  BY <1>1 DEF TypeOK, Ownership, PoolInv
<1>3. \A p \in Oids : Cancellable(p)' <=> p # o /\ Cancellable(p)
  BY <1>1, <1>2 DEF Cancellable
<1>4. \A u \in Threads : ctx'[u].pc # "push" => ctx'[u] = ctx[u]
  OBVIOUS
<1>5. \A u \in Threads : ctx'[u].pc = "push" =>
        /\ ctx[u].pc \in {"update", "push"}
        /\ ctx'[u].oid = ctx[u].oid /\ ctx'[u].ex = ctx[u].ex
        /\ ctx'[u].trade = ctx[u].trade /\ ctx'[u].owner = ctx[u].owner
  OBVIOUS
<1>6. RoleInv'
  <2> SUFFICES ASSUME NEW u \in Threads
               PROVE  RoleInv!(u)'
    BY DEF RoleInv
  <2>1. CASE ctx'[u].pc = "push"
    BY <1>5, <2>1 DEF Ownership, RoleInv, SubmitPcs, FillPcs
  <2>2. CASE ctx'[u].pc # "push"
    BY <1>4, <2>2, Sets DEF Ownership, RoleInv, SubmitPcs, FillPcs, TypeOK
  <2> QED
    BY <2>1, <2>2
<1>7. DistinctInv'
  BY <1>4, Sets DEF Ownership, DistinctInv, Current, SubmitPcs, FillPcs
<1>8. TableInv'
  BY <1>1, <1>2 DEF Ownership, TableInv, RecordOf
<1>9. SubmitInv'
  <2> SUFFICES ASSUME NEW u \in Threads, ctx'[u].pc = "insert"
               PROVE  SubmitInv!(u)!2'
    BY DEF SubmitInv
  <2>1. ctx'[u] = ctx[u] /\ ctx[u].oid \in Oids
    BY <1>4, CallIds DEF SubmitPcs
  <2>2. ctx[u].po \in Slots /\ ctx[u].po # orders[o]
    BY <2>1 DEF Ownership, SubmitInv, PoolInv
  <2> QED
    BY <1>1, <2>1, <2>2 DEF Ownership, SubmitInv
<1>10. PaperInv'
  <2> SUFFICES ASSUME NEW u \in Threads
               PROVE  PaperInv!(u)'
    BY DEF PaperInv
  <2>1. CASE ctx'[u].pc \in {"ack", "mark"}
    BY <1>1, <1>2, <1>3, <1>4, <2>1, CallIds
    DEF Ownership, PaperInv, RecordOf, SubmitPcs
  <2>2. CASE Paper /\ ctx'[u].pc = "lookup"
    BY <1>3, <1>4, <2>2, CallIds DEF Ownership, PaperInv, FillPcs
  <2> QED
    BY <2>1, <2>2
<1>11. MapInv'
  <2>1. \A x \in ExIds : exchange_to_internal'[x] # Null =>
          /\ exchange_to_internal'[x] = exchange_to_internal[x]
          /\ exchange_to_internal[x] \in Oids \ {o}
    BY DEF Ownership, MapInv, TypeOK
  <2>2. \A x \in ExIds : exchange_to_internal'[x] # Null =>
          /\ x = OwnId(exchange_to_internal'[x])
          /\ Cancellable(exchange_to_internal[x])'
    BY <1>3, <2>1 DEF Ownership, MapInv, Cancellable
  <2>3. \A p \in Oids : Cancellable(p)' => exchange_to_internal'[OwnId(p)] = p
    BY <1>3, OwnIds DEF Ownership, MapInv
  <2> QED
    BY <2>2, <2>3 DEF MapInv, OwnId
<1>12. HeldInv'
  <2> SUFFICES ASSUME NEW u \in Threads
               PROVE  HeldInv!(u)'
    BY DEF HeldInv
  <2>1. CASE ctx'[u].pc = "push"
    BY <1>5, <2>1 DEF Ownership, HeldInv, OwnId
  <2>2. CASE ctx'[u].pc \in {"build", "update"}
    BY <1>1, <1>3, <1>4, <2>2, CallIds DEF Ownership, HeldInv, OwnId
  <2> QED
    BY <2>1, <2>2
<1>13. PoolInv'
  <2>1. /\ free_list \in Seq(Slots) /\ Len(free_list) \in Nat
        /\ Len(free_list') = Len(free_list) + 1
        /\ \A i \in 1 .. Len(free_list) : free_list'[i] = free_list[i]
        /\ free_list'[Len(free_list) + 1] = orders[o]
    BY DEF TypeOK
  <2>2. \A i \in 1 .. Len(free_list') :
          (i \in 1 .. Len(free_list) /\ free_list'[i] = free_list[i])
          \/ (i = Len(free_list) + 1 /\ free_list'[i] = orders[o])
    BY <2>1
  <2>3. \A u \in Threads : ctx'[u].pc = "insert" <=> ctx[u].pc = "insert"
    OBVIOUS
  <2>4. \A u \in Threads : ctx'[u].pc = "insert" => ctx'[u].po = ctx[u].po
    OBVIOUS
  <2>5. ASSUME NEW s \in Slots
        PROVE  \/ \E i \in 1 .. Len(free_list') : free_list'[i] = s
               \/ \E p \in Oids : orders'[p] = s
               \/ \E u \in Threads : ctx'[u].pc = "insert" /\ ctx'[u].po = s
    <3>1. CASE s = orders[o]
      BY <2>1, <3>1
    <3>2. CASE \E i \in 1 .. Len(free_list) : free_list[i] = s
      BY <2>1, <3>2
    <3>3. CASE s # orders[o] /\ \E p \in Oids : orders[p] = s
      BY <1>1, <3>3
    <3>4. CASE \E u \in Threads : ctx[u].pc = "insert" /\ ctx[u].po = s
      BY <2>3, <2>4, <3>4
    <3> QED
      BY <3>1, <3>2, <3>3, <3>4 DEF Ownership, PoolInv
  <2>6. \A i, j \in 1 .. Len(free_list') : free_list'[i] = free_list'[j] => i = j
    BY <2>2 DEF Ownership, PoolInv
  <2>7. \A i \in 1 .. Len(free_list'), p \in Oids : free_list'[i] # orders'[p]
    BY <1>1, <2>1, <2>2, Sets DEF Ownership, PoolInv, TypeOK
  <2>8. \A i \in 1 .. Len(free_list'), u \in Threads :
          ctx'[u].pc = "insert" => free_list'[i] # ctx'[u].po
    BY <2>2, <2>3, <2>4 DEF Ownership, PoolInv
  <2>9. \A p, q \in Oids : orders'[p] = orders'[q] /\ orders'[p] # Null => p = q
    BY <1>1 DEF Ownership, PoolInv
  <2>10. \A p \in Oids, u \in Threads :
           ctx'[u].pc = "insert" => orders'[p] # ctx'[u].po
    BY <1>1, <2>3, <2>4, Sets DEF Ownership, PoolInv, SubmitInv
  <2>11. \A u, v \in Threads :
           ctx'[u].pc = "insert" /\ ctx'[v].pc = "insert" /\ ctx'[u].po = ctx'[v].po
             => u = v
    BY <2>3, <2>4 DEF Ownership, PoolInv
  <2> QED
    BY <2>5, <2>6, <2>7, <2>8, <2>9, <2>10, <2>11 DEF PoolInv
<1> QED
  BY <1>6, <1>7, <1>8, <1>9, <1>10, <1>11, <1>12, <1>13 DEF Ownership

-----------------------------------------------------------------------------
(* An order is acknowledged, in paper mode by its own submit *)

LEMMA AckStep ==
  ASSUME Ownership, TypeOK, NEW o \in Oids, orders[o] # Null,
         slot[orders[o]].sm = "PENDING",
         \A x \in ExIds : exchange_to_internal'[x] =
                            IF x = OwnId(o) THEN o ELSE exchange_to_internal[x],
         \A s \in Slots : s # orders[o] => slot'[s] = slot[s],
         slot'[orders[o]].sm = "OPEN", slot'[orders[o]].status = "OPEN",
         slot'[orders[o]].oid = slot[orders[o]].oid,
         slot'[orders[o]].owner = slot[orders[o]].owner,
         slot'[orders[o]].qty = slot[orders[o]].qty,
         UNCHANGED <<free_list, orders, seq, request>>,
         \A u \in Threads :
           \/ ctx'[u] = ctx[u] /\ (ctx[u].pc = "ack" => ctx[u].oid # o)
           \/ /\ ctx[u].pc = "ack" /\ ctx'[u].pc = "mark"
              /\ ctx[u].oid = o /\ ctx'[u].oid = o /\ ctx'[u].ex = PaperId(o),
         \A p \in Oids : p # o => rest'[p] = rest[p],
         rest'[o] = rest[o] \/ rest[o] # "idle",
         ~ Paper => rest'[o] = "acked"
  PROVE  Ownership'
<1>1. orders[o] \in Slots
  BY DEF TypeOK
<1>2. \A p \in Oids : p # o => (orders[p] # Null => slot'[orders[p]] = slot[orders[p]])
  BY <1>1 DEF TypeOK, Ownership, PoolInv
<1>3. \A p \in Oids : Cancellable(p)' <=> p = o \/ Cancellable(p)
  BY <1>1, <1>2 DEF Cancellable
<1>5. \A u \in Threads : ctx'[u].pc # "mark" => ctx'[u] = ctx[u]
  OBVIOUS
<1>6. RoleInv'
  <2> SUFFICES ASSUME NEW u \in Threads
               PROVE  RoleInv!(u)'
    BY DEF RoleInv
  <2>1. \A p \in Oids : rest[p] = "idle" => rest'[p] = "idle"
    OBVIOUS
  <2>2. CASE ctx'[u] = ctx[u]
    BY <2>1, <2>2, CallIds DEF Ownership, RoleInv, SubmitPcs, FillPcs
  <2>3. CASE ctx[u].pc = "ack" /\ ctx'[u].pc = "mark" /\ ctx'[u].oid = o
             /\ ctx[u].oid = o /\ ctx'[u].ex = PaperId(o)
    BY <2>1, <2>3 DEF Ownership, RoleInv, SubmitPcs, FillPcs
  <2> QED
    BY <2>2, <2>3
<1>7. DistinctInv'
  <2>1. \A u \in Threads :
          /\ ctx'[u].pc \in SubmitPcs \cup FillPcs => ctx[u].pc \in SubmitPcs \cup FillPcs
          /\ ctx'[u].pc \in SubmitPcs \cup FillPcs => Current(u)' = Current(u)
    BY DEF Current, SubmitPcs, FillPcs
  <2> QED
    BY <2>1, Sets DEF Ownership, DistinctInv
<1>8. TableInv'
  <2> SUFFICES ASSUME NEW p \in Oids, orders[p] # Null
               PROVE  TableInv!(p)!2'
    BY DEF TableInv
  <2>1. CASE p = o
    BY <1>1, <2>1 DEF Ownership, TableInv, RecordOf
  <2>2. CASE p # o
    BY <1>2, <2>2 DEF Ownership, TableInv, RecordOf
  <2> QED
    BY <2>1, <2>2
<1>9. SubmitInv'
  <2> SUFFICES ASSUME NEW u \in Threads, ctx'[u].pc = "insert"
               PROVE  SubmitInv!(u)!2'
    BY DEF SubmitInv
  <2>1. ctx'[u] = ctx[u]
    BY <1>5
  <2>2. ctx[u].po \in Slots /\ ctx[u].po # orders[o]
    BY <2>1 DEF Ownership, SubmitInv, PoolInv
  <2> QED
    BY <1>1, <2>1, <2>2 DEF Ownership, SubmitInv
<1>10. PaperInv'
  <2> SUFFICES ASSUME NEW u \in Threads
               PROVE  PaperInv!(u)'
    BY DEF PaperInv
  <2>1. CASE ctx'[u] = ctx[u] /\ (ctx[u].pc = "ack" => ctx[u].oid # o)
    BY <1>2, <1>3, <2>1, CallIds
    DEF Ownership, PaperInv, RecordOf, SubmitPcs, FillPcs
  <2>2. CASE ctx'[u].pc = "mark" /\ ctx'[u].oid = o
    BY <1>3, <2>2 DEF Cancellable
  <2> QED
    BY <2>1, <2>2
<1>11. MapInv'
  <2>1. \A x \in ExIds : exchange_to_internal'[x] # Null =>
          /\ x = OwnId(exchange_to_internal'[x])
          /\ Cancellable(exchange_to_internal[x])'
    <3> SUFFICES ASSUME NEW x \in ExIds, exchange_to_internal'[x] # Null
                 PROVE  /\ x = OwnId(exchange_to_internal'[x])
                        /\ Cancellable(exchange_to_internal[x])'
      OBVIOUS
    <3>1. CASE x = OwnId(o)
      BY <1>3, <3>1 DEF Cancellable
    <3>2. CASE x # OwnId(o)
      <4>1. exchange_to_internal'[x] = exchange_to_internal[x]
            /\ exchange_to_internal[x] \in Oids
        BY <3>2 DEF TypeOK
      <4> QED
        BY <1>3, <4>1 DEF Ownership, MapInv, Cancellable
    <3> QED
      BY <3>1, <3>2
  <2>2. \A p \in Oids : Cancellable(p)' => exchange_to_internal'[OwnId(p)] = p
    BY <1>3, OwnIds DEF Ownership, MapInv
  <2> QED
    BY <2>1, <2>2 DEF MapInv, OwnId
<1>12. HeldInv'
  <2> SUFFICES ASSUME NEW u \in Threads, ctx'[u].pc \in {"build", "update", "push"}
               PROVE  HeldInv!(u)'
    BY DEF HeldInv
  <2>1. ctx'[u] = ctx[u] /\ ctx[u].oid \in Oids
    BY <1>5, CallIds
  <2>2. Cancellable(ctx[u].oid) => Cancellable(ctx[u].oid)'
    BY <1>3, <2>1 DEF Cancellable
  <2> QED
    BY <2>1, <2>2 DEF Ownership, HeldInv, OwnId
<1>13. PoolInv'
  <2>1. \A u \in Threads : ctx'[u].pc = "insert" <=> ctx[u].pc = "insert"
    OBVIOUS
  <2>2. \A u \in Threads : ctx'[u].pc = "insert" => ctx'[u].po = ctx[u].po
    BY <1>5
  <2> QED
    BY <2>1, <2>2 DEF Ownership, PoolInv
<1> QED
  BY <1>6, <1>7, <1>8, <1>9, <1>10, <1>11, <1>12, <1>13 DEF Ownership

-----------------------------------------------------------------------------
(* A fill that leaves its order working *)

LEMMA PartialStep ==
  ASSUME Ownership, TypeOK, NEW o \in Oids, Cancellable(o),
         \A s \in Slots : s # orders[o] => slot'[s] = slot[s],
         slot'[orders[o]].oid = slot[orders[o]].oid,
         slot'[orders[o]].owner = slot[orders[o]].owner,
         slot'[orders[o]].qty = slot[orders[o]].qty,
         slot'[orders[o]].sm = slot'[orders[o]].status,
         slot'[orders[o]].sm \in {"OPEN", "PARTIAL"},
         UNCHANGED <<free_list, orders, exchange_to_internal, seq, request, rest>>,
         \A u \in Threads :
           \/ ctx'[u] = ctx[u]
           \/ /\ ctx[u].pc = "update" /\ ctx'[u].pc = "push"
              /\ ctx'[u].oid = ctx[u].oid /\ ctx'[u].ex = ctx[u].ex
              /\ ctx'[u].trade = ctx[u].trade /\ ctx'[u].owner = ctx[u].owner
  PROVE  Ownership'
<1>1. \A p \in Oids : p # o => (orders[p] # Null => slot'[orders[p]] = slot[orders[p]])
  BY DEF TypeOK, Ownership, PoolInv
<1>2. \A p \in Oids : Cancellable(p)' <=> Cancellable(p)
  BY <1>1 DEF Cancellable
<1>3. \A u \in Threads : ctx'[u].pc # "push" => ctx'[u] = ctx[u]
  OBVIOUS
<1>4. RoleInv'
  <2> SUFFICES ASSUME NEW u \in Threads
               PROVE  RoleInv!(u)'
    BY DEF RoleInv
  <2>1. CASE ctx'[u] = ctx[u]
    BY <2>1 DEF Ownership, RoleInv, SubmitPcs, FillPcs
  <2>2. CASE /\ ctx[u].pc = "update" /\ ctx'[u].pc = "push"
             /\ ctx'[u].oid = ctx[u].oid /\ ctx'[u].ex = ctx[u].ex
             /\ ctx'[u].trade = ctx[u].trade
    BY <2>2 DEF Ownership, RoleInv, SubmitPcs, FillPcs
  <2> QED
    BY <2>1, <2>2
<1>5. DistinctInv'
  BY <1>3, Sets DEF Ownership, DistinctInv, Current, SubmitPcs, FillPcs
<1>6. TableInv'
  <2> SUFFICES ASSUME NEW p \in Oids, orders[p] # Null
               PROVE  TableInv!(p)!2'
    BY DEF TableInv
  <2>1. CASE p = o
    BY <2>1 DEF Ownership, TableInv, RecordOf, Cancellable
  <2>2. CASE p # o
    BY <1>1, <2>2 DEF Ownership, TableInv, RecordOf
  <2> QED
    BY <2>1, <2>2
<1>7. SubmitInv'
  <2> SUFFICES ASSUME NEW u \in Threads, ctx'[u].pc = "insert"
               PROVE  SubmitInv!(u)!2'
    BY DEF SubmitInv
  <2>1. ctx'[u] = ctx[u]
    BY <1>3
  <2>2. ctx[u].po \in Slots /\ ctx[u].po # orders[o]
    BY <2>1 DEF Ownership, SubmitInv, PoolInv
  <2> QED
    BY <2>1, <2>2 DEF Ownership, SubmitInv
<1>8. PaperInv'
  <2> SUFFICES ASSUME NEW u \in Threads, ctx'[u].pc \in {"ack", "mark", "lookup"}
               PROVE  PaperInv!(u)'
    BY DEF PaperInv
  <2>1. ctx'[u] = ctx[u]
    BY <1>3
  <2>2. CASE ctx[u].pc = "ack"
    <3>1. ctx[u].oid \in Oids /\ orders[ctx[u].oid] # Null
          /\ slot[orders[ctx[u].oid]].sm = "PENDING"
      BY <2>2, CallIds DEF Ownership, PaperInv, RecordOf, SubmitPcs
    <3>2. ctx[u].oid # o
      BY <3>1 DEF Cancellable
    <3> QED
      BY <1>1, <2>1, <2>2, <3>1, <3>2 DEF PaperInv, RecordOf
  <2>3. CASE ctx[u].pc = "mark"
    BY <1>2, <2>1, <2>3, CallIds DEF Ownership, PaperInv, SubmitPcs, Cancellable
  <2>4. CASE ctx[u].pc = "lookup"
    BY <1>2, <2>1, <2>4, CallIds DEF Ownership, PaperInv, FillPcs, Cancellable
  <2> QED
    BY <2>1, <2>2, <2>3, <2>4
<1>9. MapInv'
  <2>1. \A x \in ExIds : exchange_to_internal[x] # Null => exchange_to_internal[x] \in Oids
    BY DEF TypeOK
  <2>2. \A x \in ExIds : exchange_to_internal'[x] # Null =>
          x = OwnId(exchange_to_internal[x]) /\ Cancellable(exchange_to_internal[x])'
    BY <1>2, <2>1 DEF Ownership, MapInv, Cancellable
  <2>3. \A p \in Oids : Cancellable(p)' => exchange_to_internal[OwnId(p)] = p
    BY <1>2 DEF Ownership, MapInv
  <2> QED
    BY <2>2, <2>3 DEF MapInv, OwnId
<1>10. HeldInv'
  <2> SUFFICES ASSUME NEW u \in Threads
               PROVE  HeldInv!(u)'
    BY DEF HeldInv
  <2>1. CASE ctx'[u].pc = "push"
    BY <2>1 DEF Ownership, HeldInv, OwnId
  <2>2. CASE ctx'[u].pc \in {"build", "update"}
    <3>1. ctx'[u] = ctx[u] /\ ctx[u].oid \in Oids
      BY <1>3, <2>2, CallIds
    <3>2. Cancellable(ctx[u].oid)'
      BY <1>2, <2>2, <3>1 DEF Ownership, HeldInv, Cancellable
    <3> QED
      BY <2>2, <3>1, <3>2 DEF Ownership, HeldInv, OwnId
  <2> QED
    BY <2>1, <2>2
<1>11. PoolInv'
  <2>1. \A u \in Threads : ctx'[u].pc = "insert" <=> ctx[u].pc = "insert"
    OBVIOUS
  <2>2. \A u \in Threads : ctx'[u].pc = "insert" => ctx'[u].po = ctx[u].po
    BY <1>3
  <2> QED
    BY <2>1, <2>2 DEF Ownership, PoolInv
<1> QED
  BY <1>4, <1>5, <1>6, <1>7, <1>8, <1>9, <1>10, <1>11 DEF Ownership

-----------------------------------------------------------------------------
(* submit takes a record and an order id, both unused *)

LEMMA AcquireStep ==
  ASSUME Ownership, TypeOK, WorldInv, NEW t \in Strategies, NEW q \in Nat,
         SubmitAcquire(t, q)
  PROVE  Ownership'
<1>1. PICK o : o = seq + 1
  OBVIOUS
<1>2. PICK po : po = free_list[Len(free_list)]
  OBVIOUS
<1>3. o \in Oids /\ seq \in Nat /\ o > seq /\ seq' = o
  BY <1>1, SizesAssumption DEF SubmitAcquire, TypeOK, Oids
<1>4. PICK n \in Nat : n + 1 = Len(free_list)
  <2>1. Len(free_list) \in Nat /\ Len(free_list) # 0
    BY DEF SubmitAcquire, TypeOK
  <2>2. Len(free_list) - 1 \in Nat /\ (Len(free_list) - 1) + 1 = Len(free_list)
    BY <2>1
  <2> QED
    BY <2>2
<1>5. /\ po \in Slots /\ po = free_list[n + 1]
      /\ Len(free_list') = n
      /\ \A i \in 1 .. n : free_list'[i] = free_list[i] /\ i \in 1 .. Len(free_list)
      /\ \A i \in 1 .. Len(free_list) : i \in 1 .. n \/ i = n + 1
  <2>1. free_list \in Seq(Slots) /\ free_list' = SubSeq(free_list, 1, n)
    BY <1>4 DEF SubmitAcquire, TypeOK
  <2> QED
    BY <1>2, <1>4, <2>1
<1>6. /\ ctx[t].pc = "idle"
      /\ \A u \in Threads : u # t => ctx'[u] = ctx[u]
      /\ ctx'[t].pc = "insert" /\ ctx'[t].oid = o /\ ctx'[t].po = po
  BY <1>1, <1>2, Sets DEF SubmitAcquire, TypeOK, Idle
<1>7. /\ \A s \in Slots : s # po => slot'[s] = slot[s]
      /\ slot'[po] = [BlankOrder EXCEPT !.oid = o, !.owner = t, !.qty = q]
  BY <1>1, <1>2, <1>5 DEF SubmitAcquire, TypeOK
<1>8. /\ slot'[po].oid = o /\ slot'[po].owner = t /\ slot'[po].qty = q
      /\ slot'[po].sm = "PENDING" /\ slot'[po].status = "PENDING"
  BY <1>7 DEF BlankOrder
<1>9. /\ \A p \in Oids : p # o => request'[p] = request[p]
      /\ request'[o].owner = t /\ request'[o].qty = q
  BY <1>1, <1>3 DEF SubmitAcquire, TypeOK
<1>10. UNCHANGED <<orders, exchange_to_internal, rest>>
  BY DEF SubmitAcquire, world
<1>11. orders[o] = Null /\ rest[o] = "idle"
  BY <1>3, Sets DEF Ownership, TableInv, WorldInv, TypeOK
<1>12. \A p \in Oids : orders[p] # Null =>
         p # o /\ orders[p] # po /\ slot'[orders[p]] = slot[orders[p]]
  BY <1>4, <1>5, <1>7, <1>11 DEF Ownership, PoolInv, TypeOK
<1>13. \A p \in Oids : Cancellable(p)' <=> Cancellable(p)
  BY <1>10, <1>12 DEF Cancellable
<1>14. \A i \in 1 .. seq : i \in 1 .. o
  BY <1>1, <1>3
<1>15. o \in 1 .. o
  BY <1>3, Sets DEF Oids
<1>16. RoleInv'
  <2> SUFFICES ASSUME NEW u \in Threads
               PROVE  RoleInv!(u)'
    BY DEF RoleInv
  <2>1. CASE u = t
    BY <1>3, <1>6, <1>10, <1>11, <1>15, <2>1 DEF SubmitPcs, FillPcs
  <2>2. CASE u # t
    BY <1>3, <1>6, <1>10, <1>14, <2>2 DEF Ownership, RoleInv
  <2> QED
    BY <2>1, <2>2
<1>17. DistinctInv'
  <2>1. \A u \in Strategies : u # t /\ ctx[u].pc \in SubmitPcs \cup FillPcs => Current(u) # o
    BY <1>3, Sets DEF Ownership, RoleInv, Current, SubmitPcs, FillPcs
  <2>2. Current(t)' = o /\ \A u \in Strategies : u # t => Current(u)' = Current(u)
    BY <1>6, Sets DEF Current, FillPcs
  <2> QED
    BY <1>6, <2>1, <2>2, Sets DEF Ownership, DistinctInv
<1>18. TableInv'
  BY <1>3, <1>9, <1>10, <1>12, Sets DEF Ownership, TableInv, RecordOf
<1>19. SubmitInv'
  <2> SUFFICES ASSUME NEW u \in Threads, ctx'[u].pc = "insert"
               PROVE  SubmitInv!(u)!2'
    BY DEF SubmitInv
  <2>1. CASE u = t
    BY <1>5, <1>6, <1>8, <1>9, <1>10, <1>11, <2>1
  <2>2. CASE u # t
    <3>1. ctx'[u] = ctx[u] /\ ctx[u].oid \in Oids /\ ctx[u].oid # o
      BY <1>3, <1>6, <2>2, CallIds, Sets DEF SubmitPcs
    <3>2. ctx[u].po \in Slots /\ ctx[u].po # po
      BY <1>4, <1>5, <3>1 DEF Ownership, SubmitInv, PoolInv
    <3> QED
      BY <1>7, <1>9, <1>10, <3>1, <3>2 DEF Ownership, SubmitInv
  <2> QED
    BY <2>1, <2>2
<1>20. PaperInv'
  <2> SUFFICES ASSUME NEW u \in Threads, ctx'[u].pc \in {"ack", "mark", "lookup"}
               PROVE  PaperInv!(u)'
    BY DEF PaperInv
  <2>1. ctx'[u] = ctx[u]
    BY <1>6
  <2>2. CASE ctx[u].pc = "ack"
    BY <1>10, <1>12, <2>1, <2>2, CallIds DEF Ownership, PaperInv, RecordOf, SubmitPcs
  <2>3. CASE ctx[u].pc = "mark"
    BY <1>13, <2>1, <2>3, CallIds DEF Ownership, PaperInv, SubmitPcs, Cancellable
  <2>4. CASE ctx[u].pc = "lookup"
    BY <1>13, <2>1, <2>4, CallIds DEF Ownership, PaperInv, FillPcs, Cancellable
  <2> QED
    BY <2>1, <2>2, <2>3, <2>4
<1>21. MapInv'
  <2>1. \A x \in ExIds : exchange_to_internal[x] # Null => exchange_to_internal[x] \in Oids
    BY DEF TypeOK
  <2>2. \A x \in ExIds : exchange_to_internal'[x] # Null =>
          x = OwnId(exchange_to_internal[x]) /\ Cancellable(exchange_to_internal[x])'
    BY <1>10, <1>13, <2>1 DEF Ownership, MapInv, Cancellable
  <2>3. \A p \in Oids : Cancellable(p)' => exchange_to_internal[OwnId(p)] = p
    BY <1>13 DEF Ownership, MapInv
  <2> QED
    BY <1>10, <2>2, <2>3 DEF MapInv, OwnId
<1>22. HeldInv'
  <2> SUFFICES ASSUME NEW u \in Threads, ctx'[u].pc \in {"build", "update", "push"}
               PROVE  HeldInv!(u)'
    BY DEF HeldInv
  <2>1. ctx'[u] = ctx[u] /\ ctx[u].oid \in Oids /\ ctx[u].oid # o
    BY <1>3, <1>6, CallIds, Sets
  <2>2. Cancellable(ctx[u].oid) => Cancellable(ctx[u].oid)'
    BY <1>13, <2>1 DEF Cancellable
  <2> QED
    BY <1>9, <1>10, <2>1, <2>2 DEF Ownership, HeldInv, OwnId
<1>23. PoolInv'
  <2>1. ASSUME NEW s \in Slots
        PROVE  \/ \E i \in 1 .. Len(free_list') : free_list'[i] = s
               \/ \E p \in Oids : orders'[p] = s
               \/ \E u \in Threads : ctx'[u].pc = "insert" /\ ctx'[u].po = s
    <3>1. CASE s = po
      BY <1>6, <3>1, Sets
    <3>2. CASE s # po /\ \E i \in 1 .. Len(free_list) : free_list[i] = s
      BY <1>5, <3>2
    <3>3. CASE \E p \in Oids : orders[p] = s
      BY <1>10, <3>3
    <3>4. CASE \E u \in Threads : ctx[u].pc = "insert" /\ ctx[u].po = s
      BY <1>6, <3>4
    <3> QED
      BY <3>1, <3>2, <3>3, <3>4 DEF Ownership, PoolInv
  <2>2. \A i, j \in 1 .. Len(free_list') : free_list'[i] = free_list'[j] => i = j
    BY <1>5 DEF Ownership, PoolInv
  <2>3. \A i \in 1 .. Len(free_list'), p \in Oids : free_list'[i] # orders'[p]
    BY <1>5, <1>10 DEF Ownership, PoolInv
  <2>4. \A i \in 1 .. Len(free_list') : free_list'[i] # po
    BY <1>4, <1>5 DEF Ownership, PoolInv
  <2>5. \A i \in 1 .. Len(free_list'), u \in Threads :
          ctx'[u].pc = "insert" => free_list'[i] # ctx'[u].po
    BY <1>5, <1>6, <2>4 DEF Ownership, PoolInv
  <2>6. \A p, r \in Oids : orders'[p] = orders'[r] /\ orders'[p] # Null => p = r
    BY <1>10 DEF Ownership, PoolInv
  <2>7. \A p \in Oids, u \in Threads :
          ctx'[u].pc = "insert" => orders'[p] # ctx'[u].po
    BY <1>5, <1>6, <1>10, <1>12, Sets DEF Ownership, PoolInv
  <2>8. \A u \in Threads : ctx[u].pc = "insert" => ctx[u].po # po
    BY <1>4, <1>5 DEF Ownership, PoolInv
  <2>9. \A u, v \in Threads :
          ctx'[u].pc = "insert" /\ ctx'[v].pc = "insert" /\ ctx'[u].po = ctx'[v].po
            => u = v
    BY <1>6, <2>8 DEF Ownership, PoolInv
  <2> QED
    BY <2>1, <2>2, <2>3, <2>5, <2>6, <2>7, <2>9 DEF PoolInv
<1> QED
  BY <1>16, <1>17, <1>18, <1>19, <1>20, <1>21, <1>22, <1>23 DEF Ownership

-----------------------------------------------------------------------------
(* A call that goes on without touching the maps and the records *)

LEMMA CallStep ==
  ASSUME Ownership, TypeOK, NEW t \in Threads,
         ctx[t].pc # "insert", ctx'[t].pc # "insert",
         \A u \in Threads : u # t => ctx'[u] = ctx[u],
         UNCHANGED <<free_list, slot, orders, exchange_to_internal, seq, request>>,
         \A p \in Oids : rest'[p] = rest[p] \/ (ctx[t].pc = "place" /\ ctx[t].oid = p
                                                /\ rest'[p] = "sent"),
         RoleInv!(t)', PaperInv!(t)', HeldInv!(t)',
         t \in Strategies /\ ctx'[t].pc \in SubmitPcs \cup FillPcs =>
           ctx[t].pc \in SubmitPcs \cup FillPcs /\ Current(t)' = Current(t)
  PROVE  Ownership'
<1>1. RoleInv'
  <2> SUFFICES ASSUME NEW u \in Threads, u # t
               PROVE  RoleInv!(u)'
    BY DEF RoleInv
  <2>1. CASE ctx[u].pc \in SubmitPcs
    <3>1. /\ u \in Strategies /\ ctx[u].oid \in Oids /\ rest[ctx[u].oid] = "idle"
          /\ Current(u) = ctx[u].oid
      BY <2>1, CallIds DEF Ownership, RoleInv, SubmitPcs, FillPcs, Current
    <3>2. ctx[t].pc = "place" => t \in Strategies /\ Current(t) = ctx[t].oid
      BY DEF Ownership, RoleInv, SubmitPcs, FillPcs, Current
    <3>3. ctx[t].pc = "place" => ctx[t].oid # ctx[u].oid
      BY <2>1, <3>1, <3>2 DEF Ownership, DistinctInv, SubmitPcs
    <3>4. rest'[ctx[u].oid] = "idle"
      BY <3>1, <3>3
    <3> QED
      BY <3>4 DEF Ownership, RoleInv
  <2>2. CASE ctx[u].pc \notin SubmitPcs
    BY <2>2 DEF Ownership, RoleInv
  <2> QED
    BY <2>1, <2>2
<1>2. DistinctInv'
  <2>1. \A u \in Strategies : ctx'[u].pc \in SubmitPcs \cup FillPcs =>
          ctx[u].pc \in SubmitPcs \cup FillPcs /\ Current(u)' = Current(u)
    BY Sets DEF Current
  <2> QED
    BY <2>1 DEF Ownership, DistinctInv
<1>3. TableInv'
  <2>1. \A p \in Oids : rest'[p] \in {"idle", "sent", "accepted"} =>
          rest[p] \in {"idle", "sent", "accepted"}
    BY DEF Ownership, RoleInv, SubmitPcs
  <2> QED
    BY <2>1 DEF Ownership, TableInv, RecordOf
<1>4. SubmitInv'
  BY DEF Ownership, SubmitInv
<1>5. PaperInv'
  <2> SUFFICES ASSUME NEW u \in Threads, u # t
               PROVE  PaperInv!(u)'
    BY DEF PaperInv
  <2> QED
    BY DEF Ownership, PaperInv, RecordOf, Cancellable
<1>6. MapInv'
  BY DEF Ownership, MapInv, Cancellable
<1>7. HeldInv'
  <2> SUFFICES ASSUME NEW u \in Threads, u # t
               PROVE  HeldInv!(u)'
    BY DEF HeldInv
  <2> QED
    BY DEF Ownership, HeldInv, Cancellable, OwnId
<1>8. PoolInv'
  <2>1. \A u \in Threads : /\ ctx'[u].pc = "insert" <=> ctx[u].pc = "insert"
                           /\ ctx'[u].pc = "insert" => ctx'[u].po = ctx[u].po
    OBVIOUS
  <2> QED
    BY <2>1 DEF Ownership, PoolInv
<1> QED
  BY <1>1, <1>2, <1>3, <1>4, <1>5, <1>6, <1>7, <1>8 DEF Ownership

-----------------------------------------------------------------------------
(* submit files its record in the table *)

LEMMA InsertStep ==
  ASSUME Ownership, TypeOK, NEW t \in Threads, SubmitInsert(t)
  PROVE  Ownership'
<1>1. PICK o \in Oids : o = ctx[t].oid
  BY CallIds DEF SubmitInsert, SubmitPcs
<1>2. PICK po : po = ctx[t].po
  OBVIOUS
<1>3. /\ po \in Slots /\ po # Null /\ orders[o] = Null /\ slot[po].oid = o
      /\ slot[po].owner = request[o].owner /\ slot[po].qty = request[o].qty
      /\ slot[po].sm = "PENDING" /\ slot[po].status = "PENDING"
  BY <1>1, <1>2, Sets DEF SubmitInsert, Ownership, SubmitInv
<1>4. \A p \in Oids : orders'[p] = IF p = o THEN po ELSE orders[p]
  BY <1>1, <1>2 DEF SubmitInsert, TypeOK
<1>5. /\ ctx[t].pc = "insert"
      /\ \A u \in Threads : u # t => ctx'[u] = ctx[u]
      /\ ctx'[t].pc = IF Paper THEN "ack" ELSE "place"
      /\ ctx'[t].oid = o
  BY <1>1 DEF SubmitInsert, TypeOK, CallRecord
<1>6. UNCHANGED <<free_list, slot, exchange_to_internal, seq, request, rest>>
  BY DEF SubmitInsert, world
<1>7. \A p \in Oids : Cancellable(p)' <=> Cancellable(p)
  BY <1>3, <1>4, <1>6 DEF Cancellable
<1>8. t \in Strategies /\ o \in 1 .. seq /\ rest[o] = "idle"
  BY <1>1, <1>5 DEF Ownership, RoleInv, SubmitPcs
<1>9. RoleInv'
  <2> SUFFICES ASSUME NEW u \in Threads
               PROVE  RoleInv!(u)'
    BY DEF RoleInv
  <2>1. CASE u = t
    BY <1>5, <1>6, <1>8, <2>1 DEF SubmitPcs, FillPcs
  <2>2. CASE u # t
    BY <1>5, <1>6, <2>2 DEF Ownership, RoleInv
  <2> QED
    BY <2>1, <2>2
<1>10. DistinctInv'
  <2>1. \A u \in Threads :
          /\ ctx'[u].pc \in SubmitPcs \cup FillPcs => ctx[u].pc \in SubmitPcs \cup FillPcs
          /\ Current(u)' = Current(u)
    BY <1>1, <1>5 DEF Current, SubmitPcs, FillPcs
  <2> QED
    BY <2>1, Sets DEF Ownership, DistinctInv
<1>11. TableInv'
  <2> SUFFICES ASSUME NEW p \in Oids, orders'[p] # Null
               PROVE  TableInv!(p)!2'
    BY DEF TableInv
  <2>1. CASE p = o
    BY <1>3, <1>4, <1>6, <1>8, <2>1 DEF RecordOf, TypeOK
  <2>2. CASE p # o
    BY <1>4, <1>6, <2>2 DEF Ownership, TableInv, RecordOf
  <2> QED
    BY <2>1, <2>2
<1>12. SubmitInv'
  <2> SUFFICES ASSUME NEW u \in Threads, ctx'[u].pc = "insert"
               PROVE  SubmitInv!(u)!2'
    BY DEF SubmitInv
  <2>1. u # t /\ ctx'[u] = ctx[u]
    BY <1>5
  <2>2. /\ ctx[u].oid \in Oids /\ u \in Strategies
        /\ Current(u) = ctx[u].oid /\ Current(t) = o
    BY <1>1, <1>5, <2>1, CallIds DEF Ownership, RoleInv, SubmitPcs, FillPcs, Current
  <2>3. ctx[u].oid # o
    BY <1>5, <1>8, <2>1, <2>2 DEF Ownership, DistinctInv, SubmitPcs
  <2> QED
    BY <1>4, <1>6, <2>1, <2>2, <2>3 DEF Ownership, SubmitInv
<1>13. PaperInv'
  <2> SUFFICES ASSUME NEW u \in Threads, ctx'[u].pc \in {"ack", "mark", "lookup"}
               PROVE  PaperInv!(u)'
    BY DEF PaperInv
  <2>1. CASE u = t
    BY <1>3, <1>4, <1>5, <1>6, <2>1 DEF RecordOf
  <2>2. CASE u # t /\ ctx[u].pc = "ack"
    <3>1. ctx[u].oid \in Oids /\ ctx[u].oid # o
      BY <1>3, <2>2, CallIds DEF Ownership, PaperInv, SubmitPcs
    <3> QED
      BY <1>4, <1>5, <1>6, <2>2, <3>1 DEF Ownership, PaperInv, RecordOf
  <2>3. CASE u # t /\ ctx[u].pc = "mark"
    BY <1>5, <1>7, <2>3, CallIds DEF Ownership, PaperInv, SubmitPcs, Cancellable
  <2>4. CASE u # t /\ ctx[u].pc = "lookup"
    BY <1>5, <1>7, <2>4, CallIds DEF Ownership, PaperInv, FillPcs, Cancellable
  <2> QED
    BY <1>5, <2>1, <2>2, <2>3, <2>4
<1>14. MapInv'
  <2>1. \A x \in ExIds : exchange_to_internal[x] # Null => exchange_to_internal[x] \in Oids
    BY DEF TypeOK
  <2>2. \A x \in ExIds : exchange_to_internal'[x] # Null =>
          x = OwnId(exchange_to_internal[x]) /\ Cancellable(exchange_to_internal[x])'
    BY <1>6, <1>7, <2>1 DEF Ownership, MapInv, Cancellable
  <2>3. \A p \in Oids : Cancellable(p)' => exchange_to_internal[OwnId(p)] = p
    BY <1>7 DEF Ownership, MapInv
  <2> QED
    BY <1>6, <2>2, <2>3 DEF MapInv, OwnId
<1>15. HeldInv'
  <2> SUFFICES ASSUME NEW u \in Threads, ctx'[u].pc \in {"build", "update", "push"}
               PROVE  HeldInv!(u)'
    BY DEF HeldInv
  <2>1. ctx'[u] = ctx[u] /\ ctx[u].oid \in Oids
    BY <1>5, CallIds
  <2>2. ctx[u].pc \in {"build", "update"} =>
          orders'[ctx[u].oid] = orders[ctx[u].oid] /\ Cancellable(ctx[u].oid)'
    BY <1>3, <1>4, <1>7, <2>1 DEF Ownership, HeldInv, Cancellable
  <2> QED
    BY <1>6, <2>1, <2>2 DEF Ownership, HeldInv, OwnId
<1>16. PoolInv'
  <2>1. \A u \in Threads : ctx'[u].pc = "insert" =>
          u # t /\ ctx[u].pc = "insert" /\ ctx'[u].po = ctx[u].po
    BY <1>5
  <2>2. ASSUME NEW s \in Slots
        PROVE  \/ \E i \in 1 .. Len(free_list') : free_list'[i] = s
               \/ \E p \in Oids : orders'[p] = s
               \/ \E u \in Threads : ctx'[u].pc = "insert" /\ ctx'[u].po = s
    <3>1. CASE s = po
      BY <1>4, <3>1
    <3>2. CASE \E i \in 1 .. Len(free_list) : free_list[i] = s
      BY <1>6, <3>2
    <3>3. CASE \E p \in Oids : orders[p] = s
      BY <1>3, <1>4, <3>3, Sets
    <3>4. CASE s # po /\ \E u \in Threads : ctx[u].pc = "insert" /\ ctx[u].po = s
      BY <1>2, <1>5, <3>4
    <3> QED
      BY <3>1, <3>2, <3>3, <3>4 DEF Ownership, PoolInv
  <2>3. \A i \in 1 .. Len(free_list'), p \in Oids : free_list'[i] # orders'[p]
    BY <1>2, <1>4, <1>5, <1>6 DEF Ownership, PoolInv
  <2>4. \A i \in 1 .. Len(free_list'), u \in Threads :
          ctx'[u].pc = "insert" => free_list'[i] # ctx'[u].po
    BY <1>6, <2>1 DEF Ownership, PoolInv
  <2>5. \A p, r \in Oids : orders'[p] = orders'[r] /\ orders'[p] # Null => p = r
    BY <1>2, <1>4, <1>5 DEF Ownership, PoolInv
  <2>6. \A p \in Oids, u \in Threads :
          ctx'[u].pc = "insert" => orders'[p] # ctx'[u].po
    BY <1>2, <1>4, <1>5, <2>1 DEF Ownership, PoolInv
  <2>7. \A u, v \in Threads :
          ctx'[u].pc = "insert" /\ ctx'[v].pc = "insert" /\ ctx'[u].po = ctx'[v].po
            => u = v
    BY <2>1 DEF Ownership, PoolInv
  <2> QED
    BY <1>6, <2>2, <2>3, <2>4, <2>5, <2>6, <2>7 DEF Ownership, PoolInv
<1> QED
  BY <1>9, <1>10, <1>11, <1>12, <1>13, <1>14, <1>15, <1>16 DEF Ownership

-----------------------------------------------------------------------------
(* The actions, one lemma each *)

LEMMA PlaceOwnership ==
  ASSUME IInv, NEW t \in Threads, SubmitPlace(t)
  PROVE  Ownership'
<1>1. /\ ctx[t].pc = "place" /\ ctx'[t].pc = "idle"
      /\ \A u \in Threads : u # t => ctx'[u] = ctx[u]
  BY DEF SubmitPlace, IInv, TypeOK, Idle
<1>2. \A p \in Oids : rest'[p] = rest[p] \/ (ctx[t].oid = p /\ rest'[p] = "sent")
  BY DEF SubmitPlace, IInv, TypeOK
<1>3. UNCHANGED <<free_list, slot, orders, exchange_to_internal, seq, request>>
  BY DEF SubmitPlace, omsState
<1>4. RoleInv!(t)' /\ PaperInv!(t)' /\ HeldInv!(t)'
      /\ ctx'[t].pc \notin SubmitPcs \cup FillPcs
  BY <1>1 DEF SubmitPcs, FillPcs
<1> QED
  BY <1>1, <1>2, <1>3, <1>4, CallStep DEF IInv

LEMMA MarkOwnership ==
  ASSUME IInv, NEW t \in Threads, NEW x \in ExIds, NEW e \in TradeIds, NEW q,
         FillMark(t, x, e, q),
         \/ ~ Paper /\ t \in IOThreads /\ x \in LiveIds /\ ctx[t].pc = "idle"
         \/ Paper /\ ctx[t].pc = "mark" /\ x = ctx[t].ex
  PROVE  Ownership'
<1>1. \A u \in Threads : u # t => ctx'[u] = ctx[u]
  BY DEF FillMark, IInv, TypeOK
<1>2. \/ ctx'[t].pc = "idle"
      \/ ctx'[t].pc = "lookup" /\ ctx'[t].ex = x /\ ctx'[t].trade = e
  BY DEF FillMark, IInv, TypeOK, Idle
<1>3. UNCHANGED <<free_list, slot, orders, exchange_to_internal, seq, request, rest>>
  BY DEF FillMark, world
<1>4. CASE ctx'[t].pc = "idle"
  <2>1. RoleInv!(t)' /\ PaperInv!(t)' /\ HeldInv!(t)'
        /\ ctx'[t].pc \notin SubmitPcs \cup FillPcs
    BY <1>4 DEF SubmitPcs, FillPcs
  <2> QED
    BY <1>1, <1>3, <1>4, <2>1, CallStep DEF IInv
<1>5. CASE ctx'[t].pc = "lookup" /\ ~ Paper
  <2>1. RoleInv!(t)' /\ PaperInv!(t)' /\ HeldInv!(t)'
    BY <1>2, <1>5 DEF SubmitPcs, FillPcs
  <2> QED
    BY <1>1, <1>3, <1>5, <2>1, CallStep, Sets DEF IInv
<1>6. CASE ctx'[t].pc = "lookup" /\ Paper
  <2>1. PICK o \in Oids : o = ctx[t].oid
    BY <1>6, CallIds DEF SubmitPcs, IInv
  <2>2. /\ t \in Strategies /\ o \in 1 .. seq /\ x = PaperId(o) /\ x[1] = o
        /\ Cancellable(o)
    BY <1>6, <2>1, Ids DEF IInv, Ownership, RoleInv, PaperInv, SubmitPcs
  <2>3. Cancellable(ctx[t].ex[1])'
    BY <1>2, <1>3, <1>6, <2>2 DEF Cancellable
  <2>4. RoleInv!(t)' /\ PaperInv!(t)' /\ HeldInv!(t)'
    BY <1>2, <1>3, <1>6, <2>2, <2>3 DEF SubmitPcs, FillPcs
  <2>5. ctx[t].pc \in SubmitPcs \cup FillPcs /\ Current(t)' = Current(t)
    BY <1>2, <1>6, <2>1, <2>2 DEF Current, SubmitPcs, FillPcs
  <2> QED
    BY <1>1, <1>3, <1>6, <2>4, <2>5, CallStep DEF IInv
<1> QED
  BY <1>2, <1>4, <1>5, <1>6 DEF ModeAssumption

LEMMA LookupOwnership ==
  ASSUME IInv, NEW t \in Threads, FillLookup(t)
  PROVE  Ownership'
<1>1. /\ ctx[t].pc = "lookup" /\ ctx[t].ex \in ExIds /\ ctx[t].ex[1] \in Oids
      /\ ctx[t].trade \in TradeIds
  BY CallIds DEF FillLookup, FillPcs, IInv, Ownership, RoleInv
<1>2. PICK o : o = InternalOid(ctx[t].ex)
  OBVIOUS
<1>3. \A u \in Threads : u # t => ctx'[u] = ctx[u]
  BY DEF FillLookup, IInv, TypeOK
<1>4. UNCHANGED <<free_list, slot, orders, exchange_to_internal, seq, request, rest>>
  BY DEF FillLookup, omsState, world
<1>5. CASE ~ (o # Null /\ orders[o] # Null)
  <2>1. ctx'[t].pc = "idle"
    BY <1>2, <1>5 DEF FillLookup, IInv, TypeOK, Idle
  <2>2. RoleInv!(t)' /\ PaperInv!(t)' /\ HeldInv!(t)'
        /\ ctx'[t].pc \notin SubmitPcs \cup FillPcs
    BY <2>1 DEF SubmitPcs, FillPcs
  <2> QED
    BY <1>1, <1>3, <1>4, <2>1, <2>2, CallStep DEF IInv
<1>6. CASE o # Null /\ orders[o] # Null
  <2>1. /\ ctx'[t].pc = "build" /\ ctx'[t].oid = o /\ ctx'[t].po = orders[o]
        /\ ctx'[t].ex = ctx[t].ex /\ ctx'[t].trade = ctx[t].trade
    BY <1>2, <1>6 DEF FillLookup, IInv, TypeOK, CallRecord
  <2>2. o \in Oids /\ ctx[t].ex = OwnId(o) /\ Cancellable(o)
    <3>1. CASE Paper
      <4>1. Cancellable(ctx[t].ex[1]) /\ ctx[t].ex = OwnId(ctx[t].ex[1])
        BY <1>1, <3>1 DEF IInv, Ownership, PaperInv, RoleInv, OwnId, FillPcs
      <4>2. exchange_to_internal[ctx[t].ex] = ctx[t].ex[1]
        BY <1>1, <4>1 DEF IInv, Ownership, MapInv
      <4> QED
        BY <1>1, <1>2, <4>1, <4>2, Sets DEF InternalOid
    <3>2. CASE ~ Paper
      <4>1. ctx[t].ex # PaperId(ctx[t].ex[1])
        BY <1>1, <3>2, Ids DEF IInv, Ownership, RoleInv, FillPcs
      <4>2. o = exchange_to_internal[ctx[t].ex]
        BY <1>2, <1>6, <4>1 DEF InternalOid
      <4> QED
        BY <1>1, <1>6, <4>2 DEF IInv, Ownership, MapInv, TypeOK
    <3> QED
      BY <3>1, <3>2
  <2>3. o \in 1 .. seq /\ o = ctx[t].ex[1]
    BY <2>2, OwnIds, Sets DEF IInv, Ownership, TableInv, Cancellable, Oids, TypeOK
  <2>4. Cancellable(ctx[t].oid)'
    BY <1>4, <2>1, <2>2 DEF Cancellable
  <2>5. RoleInv!(t)'
    BY <1>1, <1>4, <2>1, <2>3 DEF IInv, Ownership, RoleInv, SubmitPcs, FillPcs
  <2>6. HeldInv!(t)' /\ PaperInv!(t)'
    BY <1>4, <1>6, <2>1, <2>2, <2>4 DEF OwnId
  <2>7. ctx[t].pc \in SubmitPcs \cup FillPcs /\ Current(t)' = Current(t)
    BY <1>1, <2>1 DEF Current, FillPcs
  <2> QED
    BY <1>1, <1>3, <1>4, <2>1, <2>5, <2>6, <2>7, CallStep DEF IInv
<1> QED
  BY <1>5, <1>6

LEMMA BuildOwnership ==
  ASSUME IInv, NEW t \in Threads, FillBuild(t)
  PROVE  Ownership'
<1>1. PICK o \in Oids : o = ctx[t].oid
  BY CallIds DEF FillBuild, IInv
<1>2. /\ ctx[t].pc = "build" /\ ctx'[t].pc = "update"
      /\ ctx'[t].oid = o /\ ctx'[t].po = ctx[t].po /\ ctx'[t].ex = ctx[t].ex
      /\ ctx'[t].trade = ctx[t].trade /\ ctx'[t].owner = slot[ctx[t].po].owner
      /\ \A u \in Threads : u # t => ctx'[u] = ctx[u]
  BY <1>1 DEF FillBuild, IInv, TypeOK, CallRecord
<1>3. UNCHANGED <<free_list, slot, orders, exchange_to_internal, seq, request, rest>>
  BY DEF FillBuild, omsState, world
<1>4. /\ ctx[t].po # Null /\ orders[o] = ctx[t].po /\ Cancellable(o)
      /\ ctx[t].ex = OwnId(o)
  BY <1>1, <1>2 DEF IInv, Ownership, HeldInv
<1>5. slot[ctx[t].po].owner = request[o].owner
  BY <1>4 DEF IInv, Ownership, TableInv, RecordOf
<1>6. Cancellable(ctx[t].oid)'
  BY <1>2, <1>3, <1>4 DEF Cancellable
<1>7. RoleInv!(t)'
  BY <1>1, <1>2, <1>3 DEF IInv, Ownership, RoleInv, SubmitPcs, FillPcs
<1>8. HeldInv!(t)' /\ PaperInv!(t)'
  BY <1>2, <1>3, <1>4, <1>5, <1>6 DEF OwnId
<1>9. ctx[t].pc \in SubmitPcs \cup FillPcs /\ Current(t)' = Current(t)
  BY <1>2 DEF Current, FillPcs
<1> QED
  BY <1>2, <1>3, <1>7, <1>8, <1>9, CallStep DEF IInv

\* Nobody else holds the record of the order that thread t is filling.
LEMMA SoleHolder ==
  ASSUME IInv, SingleIOThread, NEW t \in Threads, ctx[t].pc = "update",
         NEW u \in Threads, u # t
  PROVE  /\ ctx[u].pc \in {"build", "update"} => ctx[u].oid # ctx[t].oid
         /\ ctx[u].pc \in {"ack", "mark"} => ctx[u].oid # ctx[t].oid
         /\ Paper /\ ctx[u].pc = "lookup" => ctx[u].ex[1] # ctx[t].oid
<1>1. ctx[t].oid \in Oids /\ ctx[t].ex[1] = ctx[t].oid
  BY CallIds, OwnIds DEF IInv, Ownership, HeldInv
<1>2. ctx[u].pc \in {"build", "update"} =>
        ctx[u].oid \in Oids /\ ctx[u].ex[1] = ctx[u].oid
  BY CallIds, OwnIds DEF IInv, Ownership, HeldInv
<1>3. CASE Paper
  <2>1. t \in Strategies /\ Current(t) = ctx[t].oid
    BY <1>1, <1>3 DEF IInv, Ownership, RoleInv, FillPcs, Current
  <2>2. ctx[u].pc \in {"ack", "mark"} \cup FillPcs => u \in Strategies
    BY <1>3 DEF IInv, Ownership, RoleInv, FillPcs, SubmitPcs
  <2>3. ctx[u].pc \in {"ack", "mark"} \cup FillPcs => Current(u) # ctx[t].oid
    BY <2>1, <2>2 DEF IInv, Ownership, DistinctInv, FillPcs, SubmitPcs
  <2> QED
    BY <1>2, <2>3 DEF Current, FillPcs
<1>4. CASE ~ Paper
  BY <1>4 DEF IInv, Ownership, RoleInv, FillPcs, SingleIOThread
<1> QED
  BY <1>3, <1>4

LEMMA UpdateOwnership ==
  ASSUME IInv, SingleIOThread, NEW t \in Threads, FillUpdate(t)
  PROVE  Ownership'
<1>1. PICK o \in Oids : o = ctx[t].oid
  BY CallIds DEF FillUpdate, IInv
<1>2. /\ ctx[t].pc = "update" /\ ctx[t].po = orders[o] /\ Cancellable(o)
      /\ ctx[t].ex = OwnId(o) /\ orders[o] \in Slots /\ orders[o] # Null
  BY <1>1 DEF FillUpdate, IInv, Ownership, HeldInv, TypeOK
<1>3. /\ ctx'[t].pc = "push" /\ ctx'[t].oid = ctx[t].oid /\ ctx'[t].ex = ctx[t].ex
      /\ ctx'[t].trade = ctx[t].trade /\ ctx'[t].owner = ctx[t].owner
      /\ \A u \in Threads : u # t => ctx'[u] = ctx[u]
  BY DEF FillUpdate, IInv, TypeOK, CallRecord
<1>4. PICK to : to = IF slot[orders[o]].filled + ctx[t].qty >= slot[orders[o]].qty
                     THEN "COMPLETE" ELSE "PARTIAL"
  OBVIOUS
<1>5. to \in {"COMPLETE", "PARTIAL"}
      /\ transition(slot[orders[o]].sm, to) = to
  BY <1>2, <1>4, Transitions DEF Cancellable
<1>6. slot' = [slot EXCEPT ![orders[o]].filled = slot[orders[o]].filled + ctx[t].qty,
                           ![orders[o]].sm = to, ![orders[o]].status = to]
  BY <1>2, <1>4, <1>5 DEF FillUpdate
<1>7. /\ \A s \in Slots : s # orders[o] => slot'[s] = slot[s]
      /\ slot'[orders[o]].oid = slot[orders[o]].oid
      /\ slot'[orders[o]].owner = slot[orders[o]].owner
      /\ slot'[orders[o]].qty = slot[orders[o]].qty
      /\ slot'[orders[o]].sm = to /\ slot'[orders[o]].status = to
  BY <1>2, <1>6 DEF IInv, TypeOK, OrderRecord
<1>8. UNCHANGED <<seq, request, rest>>
  BY DEF FillUpdate, world
<1>9. CASE to = "COMPLETE"
  <2>1. /\ free_list' = Append(free_list, orders[o])
        /\ orders' = [orders EXCEPT ![o] = Null]
        /\ exchange_to_internal' = [exchange_to_internal EXCEPT ![OwnId(o)] = Null]
    BY <1>1, <1>2, <1>4, <1>5, <1>9 DEF FillUpdate, Terminal
  <2>2. \A x \in ExIds : exchange_to_internal'[x] =
                           IF x = OwnId(o) THEN Null ELSE exchange_to_internal[x]
    BY <2>1 DEF IInv, TypeOK
  <2>3. \A u \in Threads : /\ ctx'[u].pc \in {"build", "update"} => ctx[u].oid # o
                           /\ ctx'[u].pc \in {"ack", "mark"} => ctx[u].oid # o
                           /\ Paper /\ ctx'[u].pc = "lookup" => ctx[u].ex[1] # o
    BY <1>1, <1>2, <1>3, SoleHolder
  <2>4. \A u \in Threads :
           \/ ctx'[u] = ctx[u]
           \/ /\ ctx[u].pc = "update" /\ ctx'[u].pc = "push"
              /\ ctx'[u].oid = ctx[u].oid /\ ctx'[u].ex = ctx[u].ex
              /\ ctx'[u].trade = ctx[u].trade /\ ctx'[u].owner = ctx[u].owner
    BY <1>2, <1>3
  <2> QED
    BY <1>2, <1>7, <1>8, <2>1, <2>2, <2>3, <2>4, RemoveStep DEF IInv
<1>10. CASE to = "PARTIAL"
  <2>1. UNCHANGED <<free_list, orders, exchange_to_internal>>
    BY <1>1, <1>2, <1>4, <1>5, <1>10 DEF FillUpdate, Terminal
  <2>2. \A u \in Threads :
           \/ ctx'[u] = ctx[u]
           \/ /\ ctx[u].pc = "update" /\ ctx'[u].pc = "push"
              /\ ctx'[u].oid = ctx[u].oid /\ ctx'[u].ex = ctx[u].ex
              /\ ctx'[u].trade = ctx[u].trade /\ ctx'[u].owner = ctx[u].owner
    BY <1>2, <1>3
  <2> QED
    BY <1>2, <1>7, <1>8, <1>10, <2>1, <2>2, PartialStep DEF IInv
<1> QED
  BY <1>5, <1>9, <1>10

LEMMA PaperAckOwnership ==
  ASSUME IInv, NEW t \in Threads, PaperAck(t)
  PROVE  Ownership'
<1>1. PICK o \in Oids : o = ctx[t].oid
  BY CallIds DEF PaperAck, IInv, SubmitPcs
<1>2. /\ ctx[t].pc = "ack" /\ Paper /\ t \in Strategies
      /\ orders[o] # Null /\ slot[orders[o]].sm = "PENDING"
      /\ orders[o] \in Slots /\ PaperId(o) = OwnId(o) /\ PaperId(o) \in ExIds
  BY <1>1, Ids DEF PaperAck, IInv, Ownership, RoleInv, PaperInv, RecordOf, SubmitPcs,
     TypeOK, OwnId
<1>3. /\ ctx'[t].pc = "mark" /\ ctx'[t].oid = o /\ ctx'[t].ex = PaperId(o)
      /\ \A u \in Threads : u # t => ctx'[u] = ctx[u]
  BY <1>1 DEF PaperAck, IInv, TypeOK, CallRecord
<1>4. /\ exchange_to_internal' = [exchange_to_internal EXCEPT ![PaperId(o)] = o]
      /\ slot' = [slot EXCEPT ![orders[o]].sm = transition(@, "OPEN"),
                              ![orders[o]].status = "OPEN"]
      /\ UNCHANGED <<free_list, orders, seq, request, rest>>
  BY <1>1, <1>2 DEF PaperAck, on_order_ack, world
<1>5. \A x \in ExIds : exchange_to_internal'[x] =
                         IF x = OwnId(o) THEN o ELSE exchange_to_internal[x]
  BY <1>2, <1>4 DEF IInv, TypeOK
<1>6. /\ \A s \in Slots : s # orders[o] => slot'[s] = slot[s]
      /\ slot'[orders[o]].sm = "OPEN" /\ slot'[orders[o]].status = "OPEN"
      /\ slot'[orders[o]].oid = slot[orders[o]].oid
      /\ slot'[orders[o]].owner = slot[orders[o]].owner
      /\ slot'[orders[o]].qty = slot[orders[o]].qty
  BY <1>2, <1>4, Transitions DEF IInv, TypeOK, OrderRecord
<1>7. \A u \in Threads : u # t /\ ctx[u].pc = "ack" => ctx[u].oid # o
  BY <1>1, <1>2 DEF IInv, Ownership, RoleInv, DistinctInv, Current, SubmitPcs, FillPcs
<1>8. \A u \in Threads :
        \/ ctx'[u] = ctx[u] /\ (ctx[u].pc = "ack" => ctx[u].oid # o)
        \/ /\ ctx[u].pc = "ack" /\ ctx'[u].pc = "mark"
           /\ ctx[u].oid = o /\ ctx'[u].oid = o /\ ctx'[u].ex = PaperId(o)
  BY <1>1, <1>2, <1>3, <1>7
<1> QED
  BY <1>2, <1>4, <1>5, <1>6, <1>8, AckStep DEF IInv

LEMMA RestAckOwnership ==
  ASSUME IInv, NEW t \in Threads, NEW o \in Oids, RestAck(t, o)
  PROVE  Ownership'
<1>1. rest[o] = "accepted" /\ ~ Paper /\ <<o, 1>> = OwnId(o) /\ <<o, 1>> \in ExIds
  BY Ids DEF RestAck, IInv, WorldInv, OwnId
<1>2. /\ \A p \in Oids : rest'[p] = IF p = o THEN "acked" ELSE rest[p]
      /\ UNCHANGED <<free_list, orders, seq, request, ctx>>
  BY DEF RestAck, IInv, TypeOK
<1>3. CASE orders[o] = Null
  <2>1. UNCHANGED <<exchange_to_internal, slot>>
    BY <1>3 DEF RestAck, on_order_ack
  <2>2. \A p \in Oids : rest'[p] = rest[p] \/ rest[p] \in {"sent", "accepted"}
    BY <1>1, <1>2
  <2> QED
    BY <1>2, <2>1, <2>2, WorldStep DEF IInv
<1>4. CASE orders[o] # Null
  <2>1. /\ exchange_to_internal' = [exchange_to_internal EXCEPT ![<<o, 1>>] = o]
        /\ slot' = [slot EXCEPT ![orders[o]].sm = transition(@, "OPEN"),
                                ![orders[o]].status = "OPEN"]
    BY <1>4 DEF RestAck, on_order_ack
  <2>2. slot[orders[o]].sm = "PENDING" /\ orders[o] \in Slots
    BY <1>1, <1>4 DEF IInv, Ownership, TableInv, RecordOf, TypeOK
  <2>3. \A x \in ExIds : exchange_to_internal'[x] =
                           IF x = OwnId(o) THEN o ELSE exchange_to_internal[x]
    BY <1>1, <2>1 DEF IInv, TypeOK
  <2>4. /\ \A s \in Slots : s # orders[o] => slot'[s] = slot[s]
        /\ slot'[orders[o]].sm = "OPEN" /\ slot'[orders[o]].status = "OPEN"
        /\ slot'[orders[o]].oid = slot[orders[o]].oid
        /\ slot'[orders[o]].owner = slot[orders[o]].owner
        /\ slot'[orders[o]].qty = slot[orders[o]].qty
    BY <2>1, <2>2, Transitions DEF IInv, TypeOK, OrderRecord
  <2>5. \A u \in Threads : ctx'[u] = ctx[u] /\ (ctx[u].pc = "ack" => ctx[u].oid # o)
    BY <1>1, <1>2 DEF IInv, Ownership, RoleInv
  <2> QED
    BY <1>1, <1>2, <1>4, <2>2, <2>3, <2>4, <2>5, AckStep DEF IInv
<1> QED
  BY <1>3, <1>4

LEMMA RestErrorOwnership ==
  ASSUME IInv, NEW t \in Threads, NEW o \in Oids, RestError(t, o)
  PROVE  Ownership'
<1>1. rest[o] \in {"sent", "accepted"} /\ ~ Paper
  BY DEF RestError, IInv, WorldInv
<1>2. /\ \A p \in Oids : p # o => rest'[p] = rest[p]
      /\ UNCHANGED <<slot, exchange_to_internal, seq, request, ctx>>
  BY DEF RestError, IInv, TypeOK
<1>3. CASE orders[o] = Null
  <2>1. UNCHANGED <<free_list, orders>>
    BY <1>3 DEF RestError
  <2> QED
    BY <1>1, <1>2, <2>1, WorldStep DEF IInv
<1>4. CASE orders[o] # Null
  <2>1. /\ free_list' = Append(free_list, orders[o])
        /\ orders' = [orders EXCEPT ![o] = Null]
    BY <1>4 DEF RestError, Forget
  <2>2. ~ Cancellable(o)
    BY <1>1, <1>4 DEF IInv, Ownership, TableInv, RecordOf, Cancellable
  <2>3. exchange_to_internal[OwnId(o)] = Null
    <3> SUFFICES ASSUME exchange_to_internal[OwnId(o)] # Null
                 PROVE  FALSE
      OBVIOUS
    <3>1. exchange_to_internal[OwnId(o)] \in Oids
      BY OwnIds DEF IInv, TypeOK
    <3> QED
      BY <2>2, <3>1, OwnIds DEF IInv, Ownership, MapInv
  <2>4. \A x \in ExIds : exchange_to_internal'[x] =
                           IF x = OwnId(o) THEN Null ELSE exchange_to_internal[x]
    BY <1>2, <2>3
  <2>5. \A u \in Threads : /\ ctx'[u].pc \in {"build", "update"} => ctx[u].oid # o
                           /\ ctx'[u].pc \in {"ack", "mark"} => ctx[u].oid # o
    BY <1>1, <1>2, <2>2 DEF IInv, Ownership, HeldInv, RoleInv
  <2> QED
    BY <1>1, <1>2, <1>4, <2>1, <2>4, <2>5, RemoveStep DEF IInv
<1> QED
  BY <1>3, <1>4

LEMMA RejectOwnership ==
  ASSUME IInv, SingleIOThread, NEW t \in IOThreads, NEW x \in LiveIds, FeedReject(t, x)
  PROVE  Ownership'
<1>1. PICK o : o = exchange_to_internal[x]
  OBVIOUS
<1>2. x \in ExIds /\ ~ Paper /\ ctx[t].pc = "idle" /\ t \in Threads
  BY Ids, Sets DEF FeedReject, IInv, WorldInv
<1>3. UNCHANGED <<seq, request, ctx, rest>>
  BY DEF FeedReject, world
<1>4. CASE ~ (o # Null /\ orders[o] # Null)
  <2>1. UNCHANGED <<slot, free_list, orders, exchange_to_internal>>
    BY <1>1, <1>4 DEF FeedReject
  <2> QED
    BY <1>3, <2>1, WorldStep DEF IInv
<1>5. CASE o # Null /\ orders[o] # Null
  <2>1. /\ free_list' = Append(free_list, orders[o])
        /\ orders' = [orders EXCEPT ![o] = Null]
        /\ exchange_to_internal' = [exchange_to_internal EXCEPT ![x] = Null]
        /\ slot' = [slot EXCEPT ![orders[o]].sm = transition(@, "REJECTED")]
    BY <1>1, <1>5 DEF FeedReject, Forget
  <2>2. o \in Oids /\ x = OwnId(o)
    BY <1>1, <1>2, <1>5 DEF IInv, Ownership, MapInv, TypeOK
  <2>3. \A s \in Slots : s # orders[o] => slot'[s] = slot[s]
    BY <2>1 DEF IInv, TypeOK
  <2>4. \A y \in ExIds : exchange_to_internal'[y] =
                           IF y = OwnId(o) THEN Null ELSE exchange_to_internal[y]
    BY <2>1, <2>2 DEF IInv, TypeOK
  <2>5. \A u \in Threads : ctx[u].pc \notin {"build", "update", "ack", "mark"}
    BY <1>2 DEF IInv, Ownership, RoleInv, FillPcs, SingleIOThread
  <2> QED
    BY <1>2, <1>3, <1>5, <2>1, <2>2, <2>3, <2>4, <2>5, RemoveStep DEF IInv
<1> QED
  BY <1>4, <1>5

-----------------------------------------------------------------------------
(* Types *)

LEMMA Records ==
  /\ Idle \in CallRecord
  /\ BlankOrder \in OrderRecord
  /\ \A o \in Oids, t \in Threads, q \in Nat :
       [BlankOrder EXCEPT !.oid = o, !.owner = t, !.qty = q] \in OrderRecord
  /\ \A o \in Oids, s \in Slots, q \in Nat :
       [Idle EXCEPT !.pc = "insert", !.oid = o, !.po = s, !.qty = q] \in CallRecord
  /\ \A x \in ExIds, e \in TradeIds, q \in Nat :
       [Idle EXCEPT !.pc = "lookup", !.ex = x, !.trade = e, !.qty = q] \in CallRecord
  /\ \A x \in ExIds : [Idle EXCEPT !.pc = "cancel", !.ex = x] \in CallRecord
  BY DEF Idle, BlankOrder, CallRecord, OrderRecord, Pcs, Statuses

LEMMA TypeAcquire ==
  ASSUME TypeOK, NEW t \in Strategies, NEW q \in Nat, SubmitAcquire(t, q)
  PROVE  TypeOK'
<1>1. /\ Len(free_list) \in Nat /\ Len(free_list) > 0
      /\ free_list[Len(free_list)] \in Slots
      /\ SubSeq(free_list, 1, Len(free_list) - 1) \in Seq(Slots)
  BY DEF TypeOK, SubmitAcquire
<1>2. seq + 1 \in Oids /\ seq + 1 \in 0 .. MaxOrders
  BY SizesAssumption DEF TypeOK, SubmitAcquire, Oids
<1>3. t \in Threads
  BY Sets
<1>4. slot' \in [Slots -> OrderRecord] /\ ctx' \in [Threads -> CallRecord]
  BY <1>1, <1>2, <1>3, Records DEF TypeOK, SubmitAcquire
<1>5. request' \in [Oids -> RequestRecord]
  BY <1>2, <1>3 DEF TypeOK, SubmitAcquire, RequestRecord
<1> QED
  BY <1>1, <1>2, <1>4, <1>5 DEF TypeOK, SubmitAcquire, world

LEMMA TypeAck ==
  ASSUME TypeOK, NEW x \in ExIds, NEW o \in Oids, on_order_ack(x, o)
  PROVE  /\ slot' \in [Slots -> OrderRecord]
         /\ exchange_to_internal' \in [ExIds -> Oids \cup {Null}]
<1>1. CASE orders[o] = Null
  BY <1>1 DEF on_order_ack, TypeOK
<1>2. CASE orders[o] # Null
  <2>1. orders[o] \in Slots /\ slot[orders[o]] \in OrderRecord
    BY <1>2 DEF TypeOK
  <2>2. slot[orders[o]].sm \in Statuses /\ "OPEN" \in Statuses
    BY <2>1 DEF OrderRecord, Statuses
  <2>3. PICK sm \in Statuses : sm = transition(slot[orders[o]].sm, "OPEN")
    BY <2>2, Transitions
  <2>4. slot' = [slot EXCEPT ![orders[o]].sm = sm, ![orders[o]].status = "OPEN"]
    BY <1>2, <2>3 DEF on_order_ack
  <2>5. slot' \in [Slots -> OrderRecord]
    BY <2>1, <2>2, <2>4 DEF TypeOK, OrderRecord
  <2> QED
    BY <1>2, <2>5 DEF on_order_ack, TypeOK
<1> QED
  BY <1>1, <1>2

LEMMA TypeContinue ==
  ASSUME IInv, NEW t \in Threads, Continue(t) \/ FillPublish(t)
  PROVE  TypeOK'
<1>0. TypeOK /\ ctx[t] \in CallRecord
  BY DEF IInv, TypeOK
<1>1. CASE SubmitInsert(t)
  <2>1. ctx[t].po \in Slots
    BY <1>1 DEF SubmitInsert, IInv, Ownership, SubmitInv
  <2>2. ctx' \in [Threads -> CallRecord]
    BY <1>0, <1>1 DEF SubmitInsert, TypeOK, CallRecord, Pcs
  <2>3. orders' \in [Oids -> Slots \cup {Null}]
    BY <1>0, <1>1, <2>1 DEF SubmitInsert, TypeOK
  <2> QED
    BY <1>0, <1>1, <2>2, <2>3 DEF SubmitInsert, TypeOK, world
<1>2. CASE SubmitPlace(t)
  <2>1. ctx' \in [Threads -> CallRecord]
    BY <1>0, <1>2, Records DEF SubmitPlace, TypeOK
  <2>2. rest' \in [Oids -> RestStates]
    BY <1>0, <1>2 DEF SubmitPlace, TypeOK, RestStates
  <2> QED
    BY <1>0, <1>2, <2>1, <2>2 DEF SubmitPlace, TypeOK, omsState
<1>3. CASE PaperAck(t)
  <2>1. ctx[t].oid \in Oids /\ PaperId(ctx[t].oid) \in ExIds
    BY <1>3, CallIds, Ids DEF PaperAck, IInv, SubmitPcs
  <2>2. ctx' \in [Threads -> CallRecord]
    BY <1>0, <1>3, <2>1 DEF PaperAck, TypeOK, CallRecord, Pcs
  <2>3. /\ slot' \in [Slots -> OrderRecord]
        /\ exchange_to_internal' \in [ExIds -> Oids \cup {Null}]
    BY <1>0, <1>3, <2>1, TypeAck DEF PaperAck
  <2> QED
    BY <1>0, <1>3, <2>2, <2>3 DEF PaperAck, TypeOK, world
<1>4. CASE PaperFill(t)
  <2>0. ctx[t].oid \in Oids /\ ctx[t].ex = PaperId(ctx[t].oid)
    BY <1>4, CallIds DEF PaperFill, IInv, SubmitPcs, Ownership, RoleInv
  <2>1. ctx[t].ex \in ExIds /\ <<ctx[t].ex, 1>> \in TradeIds /\ ctx[t].qty \in Nat
    BY <1>0, <2>0, Ids DEF CallRecord
  <2>2. ctx' \in [Threads -> CallRecord]
    BY <1>0, <1>4, <2>1, Records DEF PaperFill, FillMark, TypeOK
  <2>3. processed' \subseteq TradeIds
    BY <1>0, <1>4, <2>1 DEF PaperFill, FillMark, TypeOK
  <2> QED
    BY <1>0, <1>4, <2>2, <2>3 DEF PaperFill, FillMark, TypeOK, world
<1>5. CASE FillLookup(t)
  <2>1. ctx[t].ex \in ExIds /\ ctx[t].ex[1] \in Oids
    BY <1>5, CallIds DEF FillLookup, IInv, FillPcs
  <2>2. InternalOid(ctx[t].ex) \in Oids \cup {Null}
    BY <1>0, <2>1 DEF InternalOid, TypeOK
  <2>3. PICK o \in Oids \cup {Null} : o = InternalOid(ctx[t].ex)
    BY <2>2
  <2>4. o # Null => [ctx[t] EXCEPT !.pc = "build", !.oid = o, !.po = orders[o]] \in CallRecord
    BY <1>0 DEF TypeOK, CallRecord, Pcs
  <2>5. ctx' \in [Threads -> CallRecord]
    BY <1>0, <1>5, <2>3, <2>4, Records DEF FillLookup, TypeOK
  <2> QED
    BY <1>0, <1>5, <2>5 DEF FillLookup, TypeOK, omsState, world
<1>6. CASE FillBuild(t)
  <2>1. ctx[t].po \in Slots
    BY <1>0, <1>6 DEF FillBuild, IInv, Ownership, HeldInv, CallRecord
  <2>2. ctx' \in [Threads -> CallRecord]
    BY <1>0, <1>6, <2>1 DEF FillBuild, TypeOK, CallRecord, OrderRecord, Pcs
  <2> QED
    BY <1>0, <1>6, <2>2 DEF FillBuild, TypeOK, omsState, world
<1>7. CASE FillUpdate(t)
  <2>1. ctx[t].po \in Slots /\ ctx[t].qty \in Nat /\ slot[ctx[t].po] \in OrderRecord
    BY <1>0, <1>7 DEF FillUpdate, IInv, Ownership, HeldInv, CallRecord, TypeOK
  <2>2. slot[ctx[t].po].filled + ctx[t].qty \in Nat
    BY <2>1 DEF OrderRecord
  <2>3. slot[ctx[t].po].sm \in Statuses /\ "COMPLETE" \in Statuses /\ "PARTIAL" \in Statuses
    BY <2>1 DEF OrderRecord, Statuses
  <2>4. slot' \in [Slots -> OrderRecord]
    BY <1>0, <1>7, <2>1, <2>2, <2>3, Transitions DEF FillUpdate, TypeOK, OrderRecord
  <2>5. ctx' \in [Threads -> CallRecord]
    BY <1>0, <1>7 DEF FillUpdate, TypeOK, CallRecord, Pcs
  <2>6. Append(free_list, ctx[t].po) \in Seq(Slots)
    BY <1>0, <2>1 DEF TypeOK
  <2>7. /\ free_list' \in {free_list, Append(free_list, ctx[t].po)}
        /\ orders' \in {orders, [orders EXCEPT ![ctx[t].oid] = Null]}
        /\ exchange_to_internal' \in
             {exchange_to_internal, [exchange_to_internal EXCEPT ![ctx[t].ex] = Null]}
    BY <1>7 DEF FillUpdate
  <2>8. /\ free_list' \in Seq(Slots)
        /\ orders' \in [Oids -> Slots \cup {Null}]
        /\ exchange_to_internal' \in [ExIds -> Oids \cup {Null}]
    BY <1>0, <2>6, <2>7 DEF TypeOK
  <2> QED
    BY <1>0, <1>7, <2>4, <2>5, <2>8 DEF FillUpdate, TypeOK, world
<1>8. CASE CancelSend(t)
  <2>1. ctx[t].ex \in ExIds
    BY <1>8 DEF CancelSend, IInv, Ownership, RoleInv
  <2>2. ctx' \in [Threads -> CallRecord]
    BY <1>0, <1>8, Records DEF CancelSend, TypeOK
  <2> QED
    BY <1>0, <1>8, <2>1, <2>2 DEF CancelSend, TypeOK, omsState
<1>9. CASE FillPublish(t)
  <2>1. ctx[t].trade \in TradeIds
    BY <1>9 DEF FillPublish, IInv, Ownership, RoleInv
  <2>2. ctx' \in [Threads -> CallRecord]
    BY <1>0, <1>9, Records DEF FillPublish, TypeOK
  <2>3. published' \in [TradeIds -> Nat]
    BY <1>0, <1>9, <2>1 DEF FillPublish, TypeOK
  <2> QED
    BY <1>0, <1>9, <2>2, <2>3 DEF FillPublish, TypeOK, omsState, world
<1> QED
  BY <1>1, <1>2, <1>3, <1>4, <1>5, <1>6, <1>7, <1>8, <1>9
  DEF Continue, Submit, SubmitRoute, FillStep

LEMMA TypeCancel ==
  ASSUME TypeOK, NEW t \in Threads, NEW o \in Oids, CancelFind(t, o)
  PROVE  ctx' \in [Threads -> CallRecord]
<1>1. PICK x \in ExIds : ctx' = [ctx EXCEPT ![t] = [Idle EXCEPT !.pc = "cancel", !.ex = x]]
  BY DEF CancelFind, ExchangeOids
<1> QED
  BY <1>1, Records DEF TypeOK

LEMMA TypeForget ==
  ASSUME TypeOK, NEW o \in Oids, orders[o] # Null, Forget(o)
  PROVE  free_list' \in Seq(Slots) /\ orders' \in [Oids -> Slots \cup {Null}]
<1>1. orders[o] \in Slots /\ free_list \in Seq(Slots)
  BY DEF TypeOK
<1>2. Append(free_list, orders[o]) \in Seq(Slots)
  BY <1>1
<1> QED
  BY <1>2 DEF Forget, TypeOK

LEMMA TypeCallback ==
  ASSUME TypeOK, NEW t \in IOThreads, RestAnswer(t) \/ Feed(t)
  PROVE  TypeOK'
<1>1. ASSUME NEW o \in Oids, RestAck(t, o)
      PROVE  TypeOK'
  <2>1. <<o, 1>> \in ExIds
    BY Ids
  <2>2. /\ slot' \in [Slots -> OrderRecord]
        /\ exchange_to_internal' \in [ExIds -> Oids \cup {Null}]
    BY <1>1, <2>1, TypeAck DEF RestAck
  <2>3. rest' \in [Oids -> RestStates]
    BY <1>1 DEF RestAck, TypeOK, RestStates
  <2> QED
    BY <1>1, <2>2, <2>3 DEF RestAck, TypeOK
<1>2. ASSUME NEW o \in Oids, RestUnparsable(t, o)
      PROVE  TypeOK'
  <2>1. rest' \in [Oids -> RestStates]
    BY <1>2 DEF RestUnparsable, TypeOK, RestStates
  <2> QED
    BY <1>2, <2>1 DEF RestUnparsable, TypeOK, omsState
<1>3. ASSUME NEW o \in Oids, RestError(t, o)
      PROVE  TypeOK'
  <2>1. rest' \in [Oids -> RestStates]
    BY <1>3 DEF RestError, TypeOK, RestStates
  <2>2. free_list' \in Seq(Slots) /\ orders' \in [Oids -> Slots \cup {Null}]
    BY <1>3, TypeForget DEF RestError, TypeOK
  <2> QED
    BY <1>3, <2>1, <2>2 DEF RestError, TypeOK
<1>4. ASSUME NEW e \in TradeIds, FeedFill(t, e)
      PROVE  TypeOK'
  <2>1. e[1] \in ExIds /\ trades[e] \in Nat /\ t \in Threads
    BY Ids, Sets DEF TypeOK
  <2>2. ctx' \in [Threads -> CallRecord] /\ processed' \subseteq TradeIds
    BY <1>4, <2>1, Records DEF FeedFill, FillMark, TypeOK
  <2> QED
    BY <1>4, <2>2 DEF FeedFill, FillMark, TypeOK, world
<1>5. ASSUME NEW x \in LiveIds, FeedReject(t, x)
      PROVE  TypeOK'
  <2>1. PICK o \in Oids \cup {Null} : o = exchange_to_internal[x]
    BY Ids DEF TypeOK
  <2>2. CASE ~ (o # Null /\ orders[o] # Null)
    BY <1>5, <2>1, <2>2 DEF FeedReject, TypeOK, world
  <2>3. CASE o # Null /\ orders[o] # Null
    <3>1. o \in Oids /\ orders[o] \in Slots /\ slot[orders[o]] \in OrderRecord
      BY <2>3 DEF TypeOK
    <3>2. slot[orders[o]].sm \in Statuses /\ "REJECTED" \in Statuses
      BY <3>1 DEF OrderRecord, Statuses
    <3>3. PICK sm \in Statuses : sm = transition(slot[orders[o]].sm, "REJECTED")
      BY <3>2, Transitions
    <3>4. slot' = [slot EXCEPT ![orders[o]].sm = sm]
      BY <1>5, <2>1, <2>3, <3>3 DEF FeedReject
    <3>5. slot' \in [Slots -> OrderRecord]
      BY <3>1, <3>4 DEF TypeOK, OrderRecord
    <3>6. Forget(o) /\ exchange_to_internal' = [exchange_to_internal EXCEPT ![x] = Null]
      BY <1>5, <2>1, <2>3 DEF FeedReject
    <3>7. free_list' \in Seq(Slots) /\ orders' \in [Oids -> Slots \cup {Null}]
      BY <2>3, <3>1, <3>6, TypeForget
    <3> QED
      BY <1>5, <3>5, <3>6, <3>7 DEF FeedReject, TypeOK, world
  <2> QED
    BY <2>2, <2>3
<1> QED
  BY <1>1, <1>2, <1>3, <1>4, <1>5 DEF RestAnswer, Feed

LEMMA TypeExchange ==
  ASSUME TypeOK, WorldInv, Exchange
  PROVE  TypeOK'
<1>1. ASSUME NEW o \in Oids, NEW a \in 1 .. MaxQty, ExchangeAccept(o, a)
      PROVE  TypeOK'
  <2>1. rest' \in [Oids -> RestStates]
    BY <1>1 DEF ExchangeAccept, TypeOK, RestStates
  <2>2. request[o].qty \in Nat /\ a \in Nat
    BY SizesAssumption DEF TypeOK, RequestRecord
  <2>3. /\ [st |-> "live", left |-> a, n |-> 0] \in ExchangeRecord
        /\ a < request[o].qty =>
             [st |-> "live", left |-> request[o].qty - a, n |-> 0] \in ExchangeRecord
    BY <2>2, SizesAssumption DEF ExchangeRecord
  <2>4. exch' \in [ExIds -> ExchangeRecord]
    BY <1>1, <2>3 DEF ExchangeAccept, TypeOK
  <2> QED
    BY <1>1, <2>1, <2>4 DEF ExchangeAccept, TypeOK, omsState
<1>2. ASSUME NEW x \in LiveIds, NEW q \in 1 .. MaxQty, ExchangeTrade(x, q)
      PROVE  TypeOK'
  <2>1. x \in ExIds /\ exch[x] \in ExchangeRecord /\ exch[x].n < MaxTrades /\ q \in Nat
    BY <1>2, Ids DEF ExchangeTrade, TypeOK, WorldInv
  <2>2. exch[x].left - q \in Nat /\ exch[x].n + 1 \in 0 .. MaxTrades
    BY <1>2, <2>1, SizesAssumption DEF ExchangeTrade, ExchangeRecord
  <2>3. [st |-> IF q = exch[x].left THEN "filled" ELSE "live",
         left |-> exch[x].left - q, n |-> exch[x].n + 1] \in ExchangeRecord
    BY <2>2 DEF ExchangeRecord
  <2>4. exch' \in [ExIds -> ExchangeRecord]
    BY <1>2, <2>1, <2>3 DEF ExchangeTrade, TypeOK
  <2>5. trades' \in [TradeIds -> Nat]
    BY <1>2, <2>1 DEF ExchangeTrade, TypeOK
  <2> QED
    BY <1>2, <2>4, <2>5 DEF ExchangeTrade, TypeOK, omsState
<1>3. ASSUME NEW x \in LiveIds, ExchangeReject(x) \/ ExchangeCancel(x)
      PROVE  TypeOK'
  <2>1. exch' \in [ExIds -> ExchangeRecord]
    BY <1>3 DEF ExchangeReject, ExchangeCancel, TypeOK, ExchangeRecord
  <2> QED
    BY <1>3, <2>1 DEF ExchangeReject, ExchangeCancel, TypeOK, omsState
<1> QED
  BY <1>1, <1>2, <1>3 DEF Exchange

-----------------------------------------------------------------------------
(* The outside world *)

LEMMA WorldQuiet ==
  ASSUME WorldInv, TypeOK, UNCHANGED <<exch, trades>>, seq' \in Nat, seq <= seq',
         \A o \in Oids : rest'[o] # "idle" => rest[o] # "idle"
  PROVE  WorldInv'
<1>1. \A o \in Oids : o <= seq => o <= seq'
  BY SizesAssumption, Sets DEF TypeOK
<1> QED
  BY <1>1 DEF WorldInv

LEMMA WorldPlace ==
  ASSUME IInv, NEW t \in Threads, SubmitPlace(t)
  PROVE  WorldInv'
<1>1. ctx[t].oid \in Oids /\ ctx[t].oid <= seq /\ ~ Paper
  BY CallIds DEF SubmitPlace, IInv, Ownership, RoleInv, SubmitPcs
<1>2. \A p \in Oids : rest'[p] # "idle" => rest[p] # "idle" \/ p = ctx[t].oid
  BY DEF SubmitPlace, IInv, TypeOK
<1> QED
  BY <1>1, <1>2 DEF SubmitPlace, IInv, WorldInv, omsState

LEMMA WorldExchange ==
  ASSUME IInv, Exchange
  PROVE  WorldInv'
<1>1. ASSUME NEW o \in Oids, NEW a \in 1 .. MaxQty, ExchangeAccept(o, a)
      PROVE  WorldInv'
  <2>1. o <= seq /\ ~ Paper
    BY <1>1 DEF ExchangeAccept, IInv, WorldInv
  <2>2. \A p \in Oids : rest'[p] # "idle" => rest[p] # "idle" \/ p = o
    BY <1>1 DEF ExchangeAccept, IInv, TypeOK
  <2>3. a < request[o].qty => MaxSlices > 1
    BY <1>1 DEF ExchangeAccept
  <2>4. <<o, 1>> \in LiveIds /\ (MaxSlices > 1 => <<o, 2>> \in LiveIds)
    BY SizesAssumption DEF LiveIds
  <2>5. \A x \in ExIds :
          \/ exch'[x] = exch[x]
          \/ x \in LiveIds /\ exch'[x].st = "live" /\ exch'[x].n = 0
    BY <1>1, <2>3, <2>4 DEF ExchangeAccept, IInv, TypeOK
  <2> QED
    BY <1>1, <2>1, <2>2, <2>5, SizesAssumption DEF ExchangeAccept, IInv, WorldInv, omsState
<1>2. ASSUME NEW x \in LiveIds, NEW q \in 1 .. MaxQty, ExchangeTrade(x, q)
      PROVE  WorldInv'
  <2>1. x \in ExIds /\ exch[x] \in ExchangeRecord /\ exch[x].n < MaxTrades /\ ~ Paper
    BY <1>2, Ids DEF ExchangeTrade, IInv, TypeOK, WorldInv
  <2>2. /\ \A y \in ExIds : y # x => exch'[y] = exch[y]
        /\ exch'[x].n = exch[x].n + 1
        /\ exch'[x].st = "live" => q # exch[x].left
    BY <1>2, <2>1 DEF ExchangeTrade, IInv, TypeOK
  <2>3. exch'[x].st = "live" => exch'[x].n < MaxTrades
    BY <1>2, <2>1, <2>2, SizesAssumption DEF ExchangeTrade, ExchangeRecord
  <2>4. \A e \in TradeIds : trades'[e] # trades[e] => e[1] = x
    BY <1>2 DEF ExchangeTrade, IInv, TypeOK
  <2> QED
    BY <1>2, <2>1, <2>2, <2>3, <2>4 DEF ExchangeTrade, IInv, WorldInv, omsState
<1>3. ASSUME NEW x \in LiveIds, ExchangeReject(x) \/ ExchangeCancel(x)
      PROVE  WorldInv'
  <2>1. x \in ExIds /\ exch[x].st = "live"
    BY <1>3, Ids DEF ExchangeReject, ExchangeCancel
  <2>2. /\ \A y \in ExIds : y # x => exch'[y] = exch[y]
        /\ exch'[x].st # "live"
    BY <1>3, <2>1 DEF ExchangeReject, ExchangeCancel, IInv, TypeOK, ExchangeRecord
  <2>3. UNCHANGED <<seq, rest, trades>>
    BY <1>3 DEF ExchangeReject, ExchangeCancel, omsState
  <2> QED
    BY <2>1, <2>2, <2>3 DEF IInv, WorldInv
<1> QED
  BY <1>1, <1>2, <1>3 DEF Exchange

-----------------------------------------------------------------------------
(* The inductive invariant *)

LEMMA InitInvariant == Init => IInv
<1> SUFFICES ASSUME Init
             PROVE  IInv
  OBVIOUS
<1>1. TypeOK
  <2>1. free_list \in Seq(Slots)
    BY SizesAssumption DEF Init, Slots
  <2>2. slot \in [Slots -> OrderRecord] /\ ctx \in [Threads -> CallRecord]
    BY Records DEF Init
  <2>3. request \in [Oids -> RequestRecord]
    BY DEF Init, RequestRecord
  <2>4. exch \in [ExIds -> ExchangeRecord]
    BY SizesAssumption DEF Init, ExchangeRecord
  <2>5. rest \in [Oids -> RestStates]
    BY DEF Init, RestStates
  <2> QED
    BY <2>1, <2>2, <2>3, <2>4, <2>5, SizesAssumption DEF Init, TypeOK
<1>2. WorldInv
  BY DEF Init, WorldInv
<1>3. \A t \in Threads : ctx[t].pc = "idle"
  BY DEF Init, Idle
<1>4. RoleInv /\ DistinctInv /\ SubmitInv /\ PaperInv /\ HeldInv
  BY <1>3, Sets DEF RoleInv, DistinctInv, SubmitInv, PaperInv, HeldInv, SubmitPcs, FillPcs
<1>5. TableInv /\ MapInv
  BY DEF Init, TableInv, MapInv, Cancellable
<1>6. PoolInv
  <2>1. Len(free_list) = PoolSize /\ \A i \in 1 .. PoolSize : free_list[i] = i
    BY SizesAssumption DEF Init, Slots
  <2> QED
    BY <1>3, <2>1, Sets DEF PoolInv, Init, Slots
<1> QED
  BY <1>1, <1>2, <1>4, <1>5, <1>6 DEF IInv, Ownership

\* What cancel leaves alone
LEMMA CancelFindStep ==
  ASSUME IInv, NEW t \in Threads, NEW o \in Oids, CancelFind(t, o), sweep' \subseteq Oids
  PROVE  IInv'
<1>1. PICK x \in ExIds : ctx' = [ctx EXCEPT ![t] = [Idle EXCEPT !.pc = "cancel", !.ex = x]]
  BY DEF CancelFind, ExchangeOids
<1>2. PICK c : c = [Idle EXCEPT !.pc = "cancel", !.ex = x]
  OBVIOUS
<1>3. ctx' = [ctx EXCEPT ![t] = c] /\ c.pc = "cancel" /\ c.ex \in ExIds
  BY <1>1, <1>2 DEF Idle
<1>4. ctx[t].pc # "insert"
  BY DEF CancelFind
<1>5. UNCHANGED <<free_list, slot, orders, exchange_to_internal, processed, forgotten, seq,
                  published, request, rest, exch, trades, cancels>>
  BY DEF CancelFind, omsState, world
<1>6. Ownership'
  BY <1>3, <1>4, <1>5, QuietStep DEF IInv
<1>7. TypeOK'
  <2>1. ctx' \in [Threads -> CallRecord]
    BY TypeCancel DEF IInv
  <2> QED
    BY <1>5, <2>1 DEF IInv, TypeOK
<1>8. WorldInv'
  BY <1>5 DEF IInv, WorldInv
<1> QED
  BY <1>6, <1>7, <1>8 DEF IInv

LEMMA ContinueStep ==
  ASSUME IInv, SingleIOThread, NEW t \in Threads, Continue(t) \/ FillPublish(t)
  PROVE  IInv'
<1>1. TypeOK'
  BY TypeContinue
<1>2. WorldInv'
  <2>1. CASE SubmitPlace(t)
    BY <2>1, WorldPlace
  <2>2. CASE ~ SubmitPlace(t)
    <3>1. UNCHANGED <<seq, rest, exch, trades>>
      BY <2>2 DEF Continue, Submit, SubmitRoute, FillStep, SubmitInsert, PaperAck, PaperFill, FillMark,
         FillLookup, FillBuild, FillUpdate, CancelSend, FillPublish, omsState, world
    <3> QED
      BY <3>1 DEF IInv, WorldInv
  <2> QED
    BY <2>1, <2>2
<1>3. Ownership'
  <2>1. CASE SubmitInsert(t)
    BY <2>1, InsertStep DEF IInv
  <2>2. CASE SubmitPlace(t)
    BY <2>2, PlaceOwnership
  <2>3. CASE PaperAck(t)
    BY <2>3, PaperAckOwnership
  <2>4. CASE PaperFill(t)
    <3>1. /\ ctx[t].pc = "mark" /\ Paper /\ ctx[t].oid \in Oids
          /\ ctx[t].ex = PaperId(ctx[t].oid)
      BY <2>4, CallIds DEF PaperFill, IInv, Ownership, RoleInv, SubmitPcs
    <3>2. ctx[t].ex \in ExIds /\ <<ctx[t].ex, 1>> \in TradeIds
      BY <3>1, Ids
    <3> QED
      BY <2>4, <3>1, <3>2, MarkOwnership DEF PaperFill
  <2>5. CASE FillLookup(t)
    BY <2>5, LookupOwnership
  <2>6. CASE FillBuild(t)
    BY <2>6, BuildOwnership
  <2>7. CASE FillUpdate(t)
    BY <2>7, UpdateOwnership
  <2>8. CASE CancelSend(t) \/ FillPublish(t)
    <3>1. ctx' = [ctx EXCEPT ![t] = Idle] /\ ctx[t].pc # "insert" /\ Idle.pc = "idle"
      BY <2>8 DEF CancelSend, FillPublish, Idle
    <3>2. UNCHANGED <<free_list, slot, orders, exchange_to_internal, seq, request, rest>>
      BY <2>8 DEF CancelSend, FillPublish, omsState, world
    <3> QED
      BY <3>1, <3>2, QuietStep DEF IInv
  <2> QED
    BY <2>1, <2>2, <2>3, <2>4, <2>5, <2>6, <2>7, <2>8
    DEF Continue, Submit, SubmitRoute, FillStep
<1> QED
  BY <1>1, <1>2, <1>3 DEF IInv

LEMMA CallbackStep ==
  ASSUME IInv, SingleIOThread, NEW t \in IOThreads, RestAnswer(t) \/ Feed(t)
  PROVE  IInv'
<1>1. TypeOK'
  BY TypeCallback DEF IInv
<1>2. t \in Threads
  BY Sets
<1>3. WorldInv'
  <2>1. UNCHANGED <<seq, exch, trades>>
    BY DEF RestAnswer, Feed, RestAck, RestUnparsable, RestError, FeedFill, FeedReject,
       FillMark, omsState, world
  <2>2. \A p \in Oids : rest'[p] # "idle" => rest[p] # "idle"
    BY DEF RestAnswer, Feed, RestAck, RestUnparsable, RestError, FeedFill, FeedReject,
       FillMark, world, IInv, TypeOK
  <2> QED
    BY <2>1, <2>2 DEF IInv, WorldInv
<1>4. ASSUME NEW o \in Oids, RestUnparsable(t, o)
      PROVE  Ownership'
  <2>1. \A p \in Oids : rest'[p] = rest[p] \/ rest[p] \in {"sent", "accepted"}
    BY <1>4 DEF RestUnparsable, IInv, TypeOK
  <2>2. UNCHANGED <<free_list, slot, orders, exchange_to_internal, seq, ctx, request>>
    BY <1>4 DEF RestUnparsable, omsState
  <2> QED
    BY <2>1, <2>2, WorldStep DEF IInv
<1>5. ASSUME NEW e \in TradeIds, FeedFill(t, e)
      PROVE  Ownership'
  <2>1. e[1] \in LiveIds /\ e[1] \in ExIds /\ ~ Paper /\ ctx[t].pc = "idle"
    BY <1>5, Ids DEF FeedFill, IInv, WorldInv
  <2> QED
    BY <1>2, <1>5, <2>1, MarkOwnership DEF FeedFill
<1>6. Ownership'
  BY <1>2, <1>4, <1>5, RestAckOwnership, RestErrorOwnership, RejectOwnership
  DEF RestAnswer, Feed
<1> QED
  BY <1>1, <1>3, <1>6 DEF IInv

LEMMA EnvironmentStep ==
  ASSUME IInv, CancelAllOpen \/ ResetForEod \/ Exchange \/ UNCHANGED vars
  PROVE  IInv'
<1>1. CASE Exchange
  <2>1. UNCHANGED <<free_list, slot, orders, exchange_to_internal, seq, ctx, request>>
    BY <1>1 DEF Exchange, ExchangeAccept, ExchangeTrade, ExchangeReject, ExchangeCancel,
       omsState
  <2>2. \A p \in Oids : rest'[p] = rest[p] \/ rest[p] \in {"sent", "accepted"}
    BY <1>1 DEF Exchange, ExchangeAccept, ExchangeTrade, ExchangeReject, ExchangeCancel,
       IInv, TypeOK
  <2>3. Ownership'
    BY <2>1, <2>2, WorldStep DEF IInv
  <2> QED
    BY <1>1, <2>3, TypeExchange, WorldExchange DEF IInv
<1>2. CASE CancelAllOpen \/ ResetForEod \/ UNCHANGED vars
  <2>1. UNCHANGED <<free_list, slot, orders, exchange_to_internal, seq, ctx, request,
                    published, rest, exch, trades, cancels>>
    BY <1>2 DEF CancelAllOpen, ResetForEod, vars, omsState, world
  <2>2. processed' \subseteq TradeIds /\ forgotten' \subseteq TradeIds /\ sweep' \subseteq Oids
    BY <1>2 DEF CancelAllOpen, ResetForEod, vars, omsState, IInv, TypeOK
  <2>3. TypeOK' /\ WorldInv'
    BY <2>1, <2>2 DEF IInv, TypeOK, WorldInv
  <2>4. Ownership'
    BY <2>1, WorldStep DEF IInv
  <2> QED
    BY <2>3, <2>4 DEF IInv
<1> QED
  BY <1>1, <1>2

LEMMA InductiveInvariant ==
  ASSUME SingleIOThread, IInv, [Next]_vars
  PROVE  IInv'
<1>1. ASSUME NEW t \in Threads, Continue(t) \/ FillPublish(t)
      PROVE  IInv'
  BY <1>1, ContinueStep
<1>2. ASSUME NEW t \in Strategies, StrategyCall(t)
      PROVE  IInv'
  <2>1. ASSUME NEW q \in 1 .. MaxQty, SubmitAcquire(t, q)
        PROVE  IInv'
    <3>1. q \in Nat
      BY SizesAssumption
    <3>2. TypeOK' /\ Ownership'
      BY <2>1, <3>1, TypeAcquire, AcquireStep DEF IInv
    <3>3. UNCHANGED <<rest, exch, trades>> /\ seq' \in Nat /\ seq <= seq'
      BY <2>1, SizesAssumption DEF SubmitAcquire, world, IInv, TypeOK
    <3> QED
      BY <3>2, <3>3, WorldQuiet DEF IInv
  <2>2. ASSUME NEW o \in Oids, StrategyCancel(t, o)
        PROVE  IInv'
    BY <2>2, CancelFindStep, Sets DEF StrategyCancel, IInv, TypeOK
  <2> QED
    BY <1>2, <2>1, <2>2 DEF StrategyCall
<1>3. ASSUME NEW t \in IOThreads, RestAnswer(t) \/ Feed(t)
      PROVE  IInv'
  BY <1>3, CallbackStep
<1>4. ASSUME NEW o \in Oids, SweepCancel(o)
      PROVE  IInv'
  <2>1. sweep' \subseteq Oids
    BY <1>4 DEF SweepCancel, IInv, TypeOK
  <2>2. CASE CancelFind(Main, o)
    BY <2>1, <2>2, CancelFindStep, Sets
  <2>3. CASE UNCHANGED <<omsState, ctx, published, request, world>>
    <3>1. UNCHANGED <<free_list, slot, orders, exchange_to_internal, processed, forgotten, seq, ctx,
                      request, published, rest, exch, trades, cancels>>
      BY <2>3 DEF omsState, world
    <3>2. TypeOK' /\ WorldInv'
      BY <2>1, <3>1 DEF IInv, TypeOK, WorldInv
    <3>3. Ownership'
      BY <3>1, WorldStep DEF IInv
    <3> QED
      BY <3>2, <3>3 DEF IInv
  <2> QED
    BY <1>4, <2>2, <2>3 DEF SweepCancel
<1>5. CASE CancelAllOpen \/ ResetForEod \/ Exchange \/ UNCHANGED vars
  BY <1>5, EnvironmentStep
<1> QED
  BY <1>1, <1>2, <1>3, <1>4, <1>5 DEF Next, NextButPublish

-----------------------------------------------------------------------------
(* Theorems *)

LEMMA Invariance ==
  ASSUME SingleIOThread
  PROVE  Spec => []IInv
<1>1. IInv /\ [Next]_vars => IInv'
  BY InductiveInvariant
<1> QED
  BY <1>1, InitInvariant, PTL DEF Spec

\* Type correctness of the order management system, for any number of strategies,
\* slots and orders.
THEOREM TypeCorrect ==
  ASSUME SingleIOThread
  PROVE  Spec => []TypeOK
<1>1. IInv => TypeOK
  BY DEF IInv
<1> QED
  BY <1>1, Invariance, PTL

\* OrderPool::acquire and release, called from submit, on_fill, on_reject and the
\* error callback, never hand out, lose or release a record twice.
THEOREM PoolNeverCorrupted ==
  ASSUME SingleIOThread
  PROVE  Spec => []PoolPartition
<1>1. IInv => PoolPartition
  <2> SUFFICES ASSUME IInv
               PROVE  PoolPartition
    OBVIOUS
  <2>1. PoolInv /\ DOMAIN free_list = 1 .. Len(free_list)
        /\ \A i \in 1 .. Len(free_list) : free_list[i] \in Slots
    BY DEF IInv, Ownership, TypeOK
  <2>2. \A o \in Oids : orders[o] \in Slots \cup {Null}
    BY DEF IInv, TypeOK
  <2>3. \A t \in Submitting : t \in Threads /\ ctx[t].pc = "insert" /\ ctx[t].po \in Slots
    BY DEF Submitting, IInv, Ownership, SubmitInv
  <2>4. Slots = FreeSlots \cup TableSlots \cup SubmitSlots
    <3>1. FreeSlots \cup TableSlots \cup SubmitSlots \subseteq Slots
      BY <2>1, <2>2, <2>3 DEF FreeSlots, TableSlots, SubmitSlots
    <3>2. Slots \subseteq FreeSlots \cup TableSlots \cup SubmitSlots
      BY <2>1, Sets DEF PoolInv, FreeSlots, TableSlots, SubmitSlots, Submitting
    <3> QED
      BY <3>1, <3>2
  <2>5. FreeSlots \cap TableSlots = {} /\ FreeSlots \cap SubmitSlots = {}
    BY <2>1, <2>3 DEF PoolInv, FreeSlots, TableSlots, SubmitSlots
  <2>6. TableSlots \cap SubmitSlots = {}
    BY <2>1, <2>3 DEF PoolInv, TableSlots, SubmitSlots
  <2> QED
    BY <2>1, <2>3, <2>4, <2>5, <2>6 DEF PoolInv, PoolPartition
<1> QED
  BY <1>1, Invariance, PTL

\* on_fill never updates a record that has been released or reused since it looked
\* the order up, although it drops orders_mtx_ in between.
THEOREM NoStalePointer ==
  ASSUME SingleIOThread
  PROVE  Spec => []HeldPointerValid
<1>1. IInv => HeldPointerValid
  BY DEF IInv, Ownership, HeldInv, HeldPointerValid
<1> QED
  BY <1>1, Invariance, PTL

\* A record filed in orders_ is its order's, and a Fill names the strategy of the
\* order that was traded.
THEOREM RecordsIntact ==
  ASSUME SingleIOThread
  PROVE  Spec => []RecordIntegrity
<1>1. IInv => RecordIntegrity
  <2> SUFFICES ASSUME IInv
               PROVE  RecordIntegrity
    OBVIOUS
  <2>1. \A o \in Oids : orders[o] # Null =>
          /\ slot[orders[o]].oid = o
          /\ slot[orders[o]].owner = request[o].owner
          /\ slot[orders[o]].qty = request[o].qty
    BY DEF IInv, Ownership, TableInv, RecordOf
  <2>2. ASSUME NEW t \in Threads, ctx[t].pc \in {"update", "push"}
        PROVE  ctx[t].oid = ctx[t].ex[1] /\ ctx[t].owner = request[ctx[t].oid].owner
    <3>1. ctx[t].oid \in Oids /\ ctx[t].ex = OwnId(ctx[t].oid)
      BY <2>2, CallIds DEF IInv, Ownership, HeldInv
    <3> QED
      BY <2>2, <3>1, OwnIds DEF IInv, Ownership, HeldInv
  <2> QED
    BY <2>1, <2>2 DEF RecordIntegrity
<1> QED
  BY <1>1, Invariance, PTL

\* The state machine and the status field of every order in orders_ agree, and
\* none of them is in a terminal state.
THEOREM StatusesAgree ==
  ASSUME SingleIOThread
  PROVE  Spec => []StatusAgrees
<1>1. IInv => StatusAgrees
  BY DEF IInv, Ownership, TableInv, RecordOf, StatusAgrees, Terminal
<1> QED
  BY <1>1, Invariance, PTL

\* exchange_to_internal_ and orders_ stay consistent.
THEOREM MapsConsistent ==
  ASSUME SingleIOThread
  PROVE  Spec => []ExchangeMapSound
<1>1. IInv => ExchangeMapSound
  <2> SUFFICES ASSUME IInv
               PROVE  ExchangeMapSound
    OBVIOUS
  <2>1. ASSUME NEW x \in ExIds, exchange_to_internal[x] # Null
        PROVE  x[1] = exchange_to_internal[x] /\ Cancellable(x[1])
    <3>1. exchange_to_internal[x] \in Oids
      BY <2>1 DEF IInv, TypeOK
    <3> QED
      BY <2>1, <3>1, OwnIds DEF IInv, Ownership, MapInv
  <2>2. ASSUME NEW o \in Oids, Cancellable(o)
        PROVE  ExchangeOids(o) # {}
    BY <2>2, OwnIds DEF IInv, Ownership, MapInv, ExchangeOids
  <2> QED
    BY <2>1, <2>2 DEF ExchangeMapSound
<1> QED
  BY <1>1, Invariance, PTL

-----------------------------------------------------------------------------
(* Fills: applied once, and never for more than was traded *)

ApplyPcs == {"build", "update", "push"}
OnFillPcs == FillPcs \cup {"push"}

Holds(t, e, pcs) == ctx[t].pc \in pcs /\ ctx[t].trade = e

\* Order o was submitted and its record inserted, if it ever will be.
Begun(o) ==
  o \in 1 .. seq /\ \A t \in Threads : ctx[t].pc = "insert" => ctx[t].oid # o

\* on_fill got past try_mark with trade e at some time.
Known(e) == published[e] > 0 \/ \E t \in Threads : Holds(t, e, OnFillPcs)

\* A trade that on_fill knows is in processed_, or its order has left the table for
\* good, or a reset made processed_ forget it while the order was there.  So while the
\* order is in the table one thread at most works on the trade, and not after it was
\* published.
DedupInv ==
  \A e \in TradeIds \ (Anonymous \cup forgotten) :
    /\ Known(e) => Begun(e[1][1])
    /\ published[e] <= 1
    /\ Known(e) /\ orders[e[1][1]] # Null => e \in processed
    /\ \A t \in Threads :
         \/ Holds(t, e, ApplyPcs)
         \/ Holds(t, e, OnFillPcs) /\ orders[e[1][1]] # Null
         => /\ published[e] = 0
            /\ \A u \in Threads : Holds(u, e, ApplyPcs) => u = t
    /\ orders[e[1][1]] # Null =>
         \A t, u \in Threads : Holds(t, e, OnFillPcs) /\ Holds(u, e, OnFillPcs) => t = u

\* The locals of on_fill and the exchange's books
TradeInv ==
  /\ \A t \in Threads :
       ctx[t].pc \in OnFillPcs =>
         /\ ctx[t].ex = ctx[t].trade[1]
         /\ ~ Paper => ctx[t].qty = trades[ctx[t].trade] /\ ctx[t].qty # 0
  /\ \A x \in ExIds :
       /\ exch[x].st # "none" => rest[x[1]] \notin {"idle", "sent"}
       /\ exch[x].st = "none" => exch[x].n = 0
       /\ exch[x].st = "live" => exch[x].left > 0
  /\ \A e \in TradeIds : trades[e] # 0 => e[2] <= exch[e[1]].n

\* Quantity of trade e that may still be added to the record of its order
Due(e) ==
  IF e \in processed /\ \A t \in Threads : ~ Holds(t, e, FillPcs) THEN 0 ELSE trades[e]

\* d[n] is what the first n trades of exchange order x have due.
Tally(x, d) ==
  /\ d \in [0 .. MaxTrades -> Nat]
  /\ d[0] = 0
  /\ \A n \in 1 .. MaxTrades : d[n] = d[n - 1] + Due(<<x, n>>)
  /\ \A m, n \in 0 .. MaxTrades : m <= n => d[m] <= d[n]

\* What is filled, due and left at the exchange together is no more than was ordered.
QuantityInv ==
  \A o \in Oids :
    orders[o] # Null /\ ~ Paper =>
      /\ rest[o] \in {"idle", "sent", "accepted"} => RecordOf(o).filled = 0
      /\ Identified(o) /\ exch[<<o, 1>>].st # "none" =>
           \E d \in [0 .. MaxTrades -> Nat] :
             /\ Tally(<<o, 1>>, d)
             /\ RecordOf(o).filled + d[MaxTrades] + exch[<<o, 1>>].left <= request[o].qty

\* An order stays in the table until the REST call is answered, and from then on as
\* long as it works at the exchange.
TrackInv ==
  /\ \A t \in Threads :
       /\ ctx[t].pc = "insert" => slot[ctx[t].po].filled = 0
       /\ ctx[t].pc = "place" => orders[ctx[t].oid] # Null
  /\ \A o \in Oids :
       /\ rest[o] \in {"sent", "accepted"} => orders[o] # Null
       /\ Identified(o) /\ rest[o] = "acked" /\ exch[<<o, 1>>].st = "live" => Cancellable(o)

FillInv == DedupInv /\ TradeInv /\ QuantityInv /\ TrackInv

-----------------------------------------------------------------------------
(* Lemmas about the parts of FillInv *)

LEMMA TradeIdParts ==
  /\ \A e \in TradeIds : e[1] \in ExIds /\ e[1][1] \in Oids /\ e[2] \in 1 .. MaxTrades
                         /\ e = <<e[1], e[2]>>
  /\ \A x \in ExIds, n \in 1 .. MaxTrades :
       <<x, n>> \in TradeIds /\ <<x, n>>[1] = x /\ <<x, n>>[2] = n
  /\ \A o \in Oids : <<o, 1>> \in ExIds /\ <<o, 1>>[1] = o
BY SizesAssumption DEF TradeIds, ExIds

\* Nobody takes up a trade, and no order that was begun comes back to the table.
LEMMA DedupFrame ==
  ASSUME DedupInv, UNCHANGED <<published, forgotten>>, processed \subseteq processed',
         \A e \in TradeIds \ Anonymous, u \in Threads :
           /\ Holds(u, e, OnFillPcs)' => Holds(u, e, OnFillPcs)
           /\ Holds(u, e, ApplyPcs)' => Holds(u, e, ApplyPcs),
         \A o \in Oids : Begun(o) => Begun(o)' /\ (orders'[o] # Null => orders[o] # Null)
  PROVE  DedupInv'
<1> SUFFICES ASSUME NEW e \in TradeIds \ (Anonymous \cup forgotten')
             PROVE  DedupInv!(e)'
  BY DEF DedupInv
<1>1. e[1][1] \in Oids
  BY TradeIdParts
<1>2. Known(e)' => Known(e)
  BY DEF Known
<1>3. Known(e) => Begun(e[1][1])
  BY DEF DedupInv
<1>4. Known(e)' => Begun(e[1][1])' /\ (orders'[e[1][1]] # Null => orders[e[1][1]] # Null)
  BY <1>1, <1>2, <1>3
<1>5. \A u \in Threads : Holds(u, e, OnFillPcs)' => Known(e)'
  BY DEF Known
<1> QED
  BY <1>2, <1>4, <1>5 DEF DedupInv

\* A tally after what one trade has due has changed
LEMMA TallyChange ==
  ASSUME NEW x \in ExIds, NEW d, Tally(x, d), NEW k \in 1 .. MaxTrades,
         \A n \in 1 .. MaxTrades : Due(<<x, n>>) \in Nat /\ Due(<<x, n>>)' \in Nat,
         \A n \in 1 .. MaxTrades : n # k => Due(<<x, n>>)' = Due(<<x, n>>)
  PROVE  /\ Due(<<x, k>>) <= d[MaxTrades]
         /\ \E c \in [0 .. MaxTrades -> Nat] :
              /\ Tally(x, c)'
              /\ c[MaxTrades] = d[MaxTrades] - Due(<<x, k>>) + Due(<<x, k>>)'
<1>0. PICK v \in Nat, w \in Nat : v = Due(<<x, k>>) /\ w = Due(<<x, k>>)'
  OBVIOUS
<1> DEFINE c == [n \in 0 .. MaxTrades |-> IF n < k THEN d[n] ELSE (d[n] - v) + w]
<1>1. /\ MaxTrades \in Nat /\ k \in Nat /\ k - 1 \in 0 .. MaxTrades /\ k \in 0 .. MaxTrades
      /\ MaxTrades \in 0 .. MaxTrades
  BY SizesAssumption
<1>2. /\ d \in [0 .. MaxTrades -> Nat] /\ d[0] = 0 /\ d[k] = d[k - 1] + v
      /\ \A n \in 1 .. MaxTrades : d[n] = d[n - 1] + Due(<<x, n>>)
      /\ \A m, n \in 0 .. MaxTrades : m <= n => d[m] <= d[n]
  BY <1>0 DEF Tally
<1>3. \A n \in 0 .. MaxTrades : n >= k => d[n] >= d[k - 1] + v
  BY <1>1, <1>2
<1>4. c \in [0 .. MaxTrades -> Nat]
  BY <1>1, <1>2, <1>3
<1>5. c[0] = 0
  BY <1>1, <1>2
<1>6. ASSUME NEW n \in 1 .. MaxTrades PROVE c[n] = c[n - 1] + Due(<<x, n>>)'
  <2>1. d[n] \in Nat /\ d[n - 1] \in Nat /\ n - 1 \in 0 .. MaxTrades /\ n \in 0 .. MaxTrades
    BY <1>1, <1>2
  <2>2. CASE n < k
    BY <1>1, <1>2, <2>1, <2>2
  <2>3. CASE n = k
    BY <1>1, <1>2, <2>1, <2>3, <1>0
  <2>4. CASE n > k
    <3>1. d[n] = d[n - 1] + Due(<<x, n>>)' /\ Due(<<x, n>>)' \in Nat
      BY <1>1, <1>2, <2>4
    <3>2. c[n] = (d[n] - v) + w /\ c[n - 1] = (d[n - 1] - v) + w
      BY <1>1, <2>1, <2>4
    <3> QED
      BY <2>1, <3>1, <3>2
  <2> QED
    BY <1>1, <2>2, <2>3, <2>4
<1>7. ASSUME NEW m \in 0 .. MaxTrades, NEW n \in 0 .. MaxTrades, m <= n
      PROVE  c[m] <= c[n]
  <2>1. d[m] \in Nat /\ d[n] \in Nat /\ d[k - 1] \in Nat /\ d[m] <= d[n]
    BY <1>1, <1>2, <1>7
  <2>2. CASE m < k /\ n >= k
    <3>1. d[m] <= d[k - 1] /\ d[n] >= d[k - 1] + v
      BY <1>1, <1>2, <1>3, <2>2
    <3> QED
      BY <1>1, <2>1, <2>2, <3>1
  <2>3. CASE ~ (m < k /\ n >= k)
    BY <1>1, <1>7, <2>1, <2>3
  <2> QED
    BY <2>2, <2>3
<1>8. Tally(x, c)'
  BY <1>4, <1>5, <1>6, <1>7 DEF Tally
<1>9. v <= d[MaxTrades] /\ c[MaxTrades] = d[MaxTrades] - v + w
  BY <1>1, <1>2, <1>3
<1> QED
  BY <1>0, <1>4, <1>8, <1>9

LEMMA DueType ==
  ASSUME TypeOK, NEW e \in TradeIds
  PROVE  Due(e) \in Nat
BY DEF TypeOK, Due

LEMMA IdentifiedTrades ==
  ASSUME NEW o \in Oids, Identified(o), NEW n \in 1 .. MaxTrades
  PROVE  << <<o, 1>>, n>> \in TradeIds \ Anonymous
<1>1. << <<o, 1>>, n>> \in TradeIds /\ << <<o, 1>>, n>>[1][1] = o
  BY TradeIdParts
<1> QED
  BY <1>1 DEF Identified

\* Nothing that concerns the quantities of an order changes, or the order is new.
LEMMA QuantityFrame ==
  ASSUME TypeOK, QuantityInv, TradeInv, UNCHANGED forgotten,
         \A e \in TradeIds \ Anonymous : Due(e)' = Due(e),
         \A o \in Oids : exch'[<<o, 1>>] = exch[<<o, 1>>],
         \A o \in Oids : orders'[o] # Null /\ ~ Paper =>
           \/ /\ orders[o] # Null
              /\ RecordOf(o)'.filled = RecordOf(o).filled
              /\ request'[o].qty = request[o].qty
              /\ rest'[o] \in {"idle", "sent", "accepted"} =>
                   rest[o] \in {"idle", "sent", "accepted"}
           \/ RecordOf(o)'.filled = 0 /\ rest[o] = "idle"
  PROVE  QuantityInv'
<1> SUFFICES ASSUME NEW o \in Oids, orders'[o] # Null, ~ Paper
             PROVE  QuantityInv!(o)!2'
  BY DEF QuantityInv
<1>1. ASSUME Identified(o), NEW d \in [0 .. MaxTrades -> Nat], Tally(<<o, 1>>, d)
      PROVE  Tally(<<o, 1>>, d)'
  BY <1>1, IdentifiedTrades DEF Tally
<1>2. CASE /\ orders[o] # Null
           /\ RecordOf(o)'.filled = RecordOf(o).filled
           /\ request'[o].qty = request[o].qty
           /\ rest'[o] \in {"idle", "sent", "accepted"} =>
                rest[o] \in {"idle", "sent", "accepted"}
  <2>1. rest'[o] \in {"idle", "sent", "accepted"} => RecordOf(o)'.filled = 0
    BY <1>2 DEF QuantityInv
  <2>2. ASSUME Identified(o), exch'[<<o, 1>>].st # "none"
        PROVE  \E d \in [0 .. MaxTrades -> Nat] :
                 /\ Tally(<<o, 1>>, d)'
                 /\ RecordOf(o)'.filled + d[MaxTrades] + exch'[<<o, 1>>].left
                      <= request'[o].qty
    <3>1. PICK d \in [0 .. MaxTrades -> Nat] :
            /\ Tally(<<o, 1>>, d)
            /\ RecordOf(o).filled + d[MaxTrades] + exch[<<o, 1>>].left <= request[o].qty
      BY <1>2, <2>2 DEF QuantityInv
    <3> QED
      BY <1>1, <1>2, <2>2, <3>1
  <2> QED
    BY <2>1, <2>2 DEF Identified
<1>3. CASE RecordOf(o)'.filled = 0 /\ rest[o] = "idle"
  <2>1. exch'[<<o, 1>>].st = "none"
    BY <1>3, TradeIdParts DEF TradeInv
  <2> QED
    BY <1>3, <2>1
<1> QED
  BY <1>2, <1>3

\* Steps that no fill takes part in and that change nothing at the exchange
LEMMA OutsideFills ==
  ASSUME TypeOK, TypeOK', WorldInv, DedupInv, TradeInv, QuantityInv,
         UNCHANGED <<published, processed, forgotten, trades, exch>>,
         \A u \in Threads : \/ ctx'[u] = ctx[u]
                            \/ ctx[u].pc \notin OnFillPcs /\ ctx'[u].pc \notin OnFillPcs,
         seq <= seq',
         \A u \in Threads : ctx'[u].pc = "insert" => ctx'[u] = ctx[u] \/ ctx'[u].oid > seq,
         \A o \in Oids : Begun(o) /\ orders'[o] # Null => orders[o] # Null,
         \A o \in Oids : rest[o] \notin {"idle", "sent"} => rest'[o] \notin {"idle", "sent"},
         \A o \in Oids : orders'[o] # Null /\ ~ Paper =>
           \/ /\ orders[o] # Null
              /\ RecordOf(o)'.filled = RecordOf(o).filled
              /\ request'[o].qty = request[o].qty
              /\ rest'[o] \in {"idle", "sent", "accepted"} =>
                   rest[o] \in {"idle", "sent", "accepted"}
           \/ RecordOf(o)'.filled = 0 /\ rest[o] = "idle"
  PROVE  DedupInv' /\ TradeInv' /\ QuantityInv'
<1>1. \A e \in TradeIds, u \in Threads :
        /\ Holds(u, e, OnFillPcs)' <=> Holds(u, e, OnFillPcs)
        /\ Holds(u, e, ApplyPcs)' <=> Holds(u, e, ApplyPcs)
        /\ Holds(u, e, FillPcs)' <=> Holds(u, e, FillPcs)
  BY DEF Holds, OnFillPcs, ApplyPcs, FillPcs
<1>2. \A o \in Oids : Begun(o) => Begun(o)'
  <2>1. seq \in Nat /\ seq' \in Nat
    BY SizesAssumption DEF TypeOK
  <2> QED
    BY <2>1 DEF Begun, Oids
<1>3. DedupInv'
  BY <1>1, <1>2, DedupFrame
<1>4. TradeInv'
  <2>1. \A u \in Threads : ctx'[u].pc \in OnFillPcs => ctx'[u] = ctx[u]
    OBVIOUS
  <2>2. \A x \in ExIds : x[1] \in Oids
    BY Ids
  <2> QED
    BY <2>1, <2>2 DEF TradeInv
<1>5. QuantityInv'
  <2>1. \A e \in TradeIds : Due(e)' = Due(e)
    BY <1>1 DEF Due
  <2> QED
    BY <2>1, QuantityFrame
<1> QED
  BY <1>3, <1>4, <1>5

-----------------------------------------------------------------------------
(* FillInv: steps outside on_fill *)

\* Calls that begin or end and leave orders, fills and the exchange alone
LEMMA FillQuiet ==
  ASSUME IInv, IInv', FillInv,
         UNCHANGED <<slot, orders, processed, forgotten, seq, published, request, rest, exch, trades>>,
         \A u \in Threads : \/ ctx'[u] = ctx[u]
                            \/ /\ ctx[u].pc \in {"idle", "cancel"}
                               /\ ctx'[u].pc \in {"idle", "cancel"}
  PROVE  FillInv'
<1>1. /\ seq <= seq'
      /\ \A u \in Threads : \/ ctx'[u] = ctx[u]
                            \/ ctx[u].pc \notin OnFillPcs /\ ctx'[u].pc \notin OnFillPcs
      /\ \A u \in Threads : ctx'[u].pc \in {"insert", "place"} => ctx'[u] = ctx[u]
  <2>1. seq \in Nat /\ seq' = seq
    BY SizesAssumption DEF IInv, TypeOK
  <2>2. \A pc \in {"idle", "cancel"} : pc \notin OnFillPcs /\ pc \notin {"insert", "place"}
    BY DEF OnFillPcs, FillPcs
  <2> QED
    BY <2>1, <2>2
<1>2. \A o \in Oids : RecordOf(o)' = RecordOf(o)
  BY DEF RecordOf
<1>3. DedupInv' /\ TradeInv' /\ QuantityInv'
  BY <1>1, <1>2, OutsideFills DEF IInv, FillInv
<1>4. TrackInv'
  BY <1>1 DEF FillInv, TrackInv, Cancellable, Identified
<1> QED
  BY <1>3, <1>4 DEF FillInv

LEMMA FillAcquire ==
  ASSUME IInv, IInv', FillInv, NEW t \in Strategies, NEW q \in 1 .. MaxQty,
         SubmitAcquire(t, q)
  PROVE  FillInv'
<1> DEFINE po == free_list[Len(free_list)]
           c == [Idle EXCEPT !.pc = "insert", !.oid = seq + 1, !.po = po, !.qty = q]
<1>0. seq \in Nat /\ seq + 1 \in Oids /\ seq' = seq + 1 /\ t \in Threads
  BY Sets DEF SubmitAcquire, IInv, TypeOK, Oids
<1>1. /\ \A u \in Threads : ctx'[u] = IF u = t THEN c ELSE ctx[u]
      /\ c.pc = "insert" /\ c.oid = seq + 1 /\ c.po = po /\ ctx[t].pc = "idle"
      /\ UNCHANGED <<orders, processed, forgotten, published, rest, exch, trades>>
  BY <1>0 DEF SubmitAcquire, world, IInv, TypeOK, Idle
<1>2. po \in Slots /\ Len(free_list) \in 1 .. Len(free_list)
  BY DEF SubmitAcquire, IInv, TypeOK
<1>3. /\ \A s \in Slots \ {po} : slot'[s] = slot[s]
      /\ slot'[po].filled = 0
  BY <1>2 DEF SubmitAcquire, IInv, TypeOK, BlankOrder
<1>4. \A o \in Oids : orders[o] # Null =>
        /\ orders[o] \in Slots \ {po}
        /\ request'[o] = request[o]
  <2>1. \A o \in Oids : orders[o] # po
    BY <1>2 DEF IInv, Ownership, PoolInv
  <2>2. \A o \in Oids : orders[o] # Null => o <= seq
    BY DEF IInv, Ownership, TableInv
  <2> QED
    BY <1>0, <2>1, <2>2 DEF SubmitAcquire, IInv, TypeOK, Oids
<1>5. \A o \in Oids : orders[o] # Null => RecordOf(o)' = RecordOf(o)
  BY <1>1, <1>3, <1>4 DEF RecordOf
<1>6. /\ \A u \in Threads : \/ ctx'[u] = ctx[u]
                            \/ ctx[u].pc \notin OnFillPcs /\ ctx'[u].pc \notin OnFillPcs
      /\ \A u \in Threads : ctx'[u].pc = "insert" => ctx'[u] = ctx[u] \/ ctx'[u].oid > seq
      /\ seq <= seq'
  <2>1. "idle" \notin OnFillPcs /\ "insert" \notin OnFillPcs
    BY DEF OnFillPcs, FillPcs
  <2>2. seq <= seq + 1 /\ seq + 1 > seq
    BY <1>0
  <2> QED
    BY <1>0, <1>1, <2>1, <2>2
<1>7. DedupInv' /\ TradeInv' /\ QuantityInv'
  BY <1>1, <1>4, <1>5, <1>6, OutsideFills DEF IInv, FillInv
<1>8. TrackInv'
  <2>1. ASSUME NEW u \in Threads, ctx'[u].pc = "insert" PROVE slot'[ctx'[u].po].filled = 0
    <3>1. CASE u = t
      BY <1>1, <1>3, <3>1
    <3>2. CASE u # t
      <4>1. ctx'[u] = ctx[u] /\ ctx[u].po \in Slots \ {po}
        BY <1>1, <1>2, <2>1, <3>2 DEF IInv, Ownership, SubmitInv, PoolInv
      <4> QED
        BY <1>3, <2>1, <4>1 DEF FillInv, TrackInv
    <3> QED
      BY <3>1, <3>2
  <2>2. \A u \in Threads : ctx'[u].pc = "place" => orders'[ctx'[u].oid] # Null
    BY <1>1 DEF FillInv, TrackInv
  <2>3. \A o \in Oids : Cancellable(o) => Cancellable(o)'
    BY <1>1, <1>5 DEF Cancellable, RecordOf
  <2> QED
    BY <1>1, <2>1, <2>2, <2>3 DEF FillInv, TrackInv, Identified
<1> QED
  BY <1>7, <1>8 DEF FillInv

LEMMA FillInsert ==
  ASSUME IInv, IInv', FillInv, NEW t \in Threads, SubmitInsert(t)
  PROVE  FillInv'
<1>0. PICK o \in Oids : o = ctx[t].oid
  BY CallIds DEF SubmitInsert, SubmitPcs, IInv
<1>1. /\ ctx[t].pc = "insert" /\ ctx[t].po \in Slots /\ slot[ctx[t].po].filled = 0
      /\ rest[o] = "idle" /\ orders[o] = Null
  BY <1>0 DEF SubmitInsert, IInv, Ownership, RoleInv, SubmitInv, SubmitPcs, FillInv, TrackInv
<1>2. /\ \A p \in Oids : orders'[p] = IF p = o THEN ctx[t].po ELSE orders[p]
      /\ \A u \in Threads : u # t => ctx'[u] = ctx[u]
      /\ ctx'[t].pc \in {"ack", "place"} /\ ctx'[t].oid = o
      /\ UNCHANGED <<slot, processed, forgotten, seq, published, request, rest, exch, trades>>
  BY <1>0 DEF SubmitInsert, world, IInv, TypeOK, CallRecord
<1>3. /\ \A p \in Oids \ {o} : RecordOf(p)' = RecordOf(p)
      /\ RecordOf(o)'.filled = 0
  BY <1>1, <1>2 DEF RecordOf
<1>4. /\ \A u \in Threads : \/ ctx'[u] = ctx[u]
                            \/ ctx[u].pc \notin OnFillPcs /\ ctx'[u].pc \notin OnFillPcs
      /\ \A u \in Threads : ctx'[u].pc = "insert" => ctx'[u] = ctx[u]
      /\ seq <= seq' /\ ~ Begun(o)
  BY <1>0, <1>1, <1>2, SizesAssumption DEF OnFillPcs, FillPcs, Begun, IInv, TypeOK
<1>5. DedupInv' /\ TradeInv' /\ QuantityInv'
  BY <1>1, <1>2, <1>3, <1>4, OutsideFills DEF IInv, FillInv
<1>6. TrackInv'
  <2>1. ASSUME NEW u \in Threads
        PROVE  /\ ctx'[u].pc = "insert" => slot'[ctx'[u].po].filled = 0
               /\ ctx'[u].pc = "place" => orders'[ctx'[u].oid] # Null
    <3>1. CASE u = t
      BY <1>1, <1>2, <3>1, Sets
    <3>2. CASE u # t
      <4>1. ctx[u].pc = "place" => ctx[u].oid \in Oids
        BY CallIds DEF SubmitPcs, IInv
      <4> QED
        BY <1>1, <1>2, <3>2, <4>1 DEF FillInv, TrackInv
    <3> QED
      BY <3>1, <3>2
  <2>2. \A p \in Oids : p # o => (Cancellable(p)' <=> Cancellable(p))
    BY <1>2, <1>3 DEF Cancellable, RecordOf
  <2>3. \A p \in Oids : rest'[p] \in {"sent", "accepted", "acked"} => p # o
    BY <1>1, <1>2
  <2> QED
    BY <1>2, <2>1, <2>2, <2>3 DEF FillInv, TrackInv, Identified
<1> QED
  BY <1>5, <1>6 DEF FillInv

LEMMA FillPlace ==
  ASSUME IInv, IInv', FillInv, NEW t \in Threads, SubmitPlace(t)
  PROVE  FillInv'
<1>0. PICK o \in Oids : o = ctx[t].oid
  BY CallIds DEF SubmitPlace, SubmitPcs, IInv
<1>1. ctx[t].pc = "place" /\ rest[o] = "idle" /\ orders[o] # Null
  BY <1>0 DEF SubmitPlace, IInv, Ownership, RoleInv, SubmitPcs, FillInv, TrackInv
<1>2. /\ \A p \in Oids : rest'[p] = IF p = o THEN "sent" ELSE rest[p]
      /\ \A u \in Threads : u # t => ctx'[u] = ctx[u]
      /\ ctx'[t].pc = "idle"
      /\ UNCHANGED <<slot, orders, processed, forgotten, seq, published, request, exch, trades>>
  BY <1>0 DEF SubmitPlace, omsState, IInv, TypeOK, Idle
<1>3. \A p \in Oids : RecordOf(p)' = RecordOf(p)
  BY <1>2 DEF RecordOf
<1>4. /\ \A u \in Threads : \/ ctx'[u] = ctx[u]
                            \/ ctx[u].pc \notin OnFillPcs /\ ctx'[u].pc \notin OnFillPcs
      /\ \A u \in Threads : ctx'[u].pc \in {"insert", "place"} => ctx'[u] = ctx[u]
      /\ seq <= seq'
  BY <1>1, <1>2, SizesAssumption DEF OnFillPcs, FillPcs, IInv, TypeOK
<1>5. DedupInv' /\ TradeInv' /\ QuantityInv'
  BY <1>1, <1>2, <1>3, <1>4, OutsideFills DEF IInv, FillInv
<1>6. TrackInv'
  <2>1. \A p \in Oids : Cancellable(p)' <=> Cancellable(p)
    BY <1>2 DEF Cancellable
  <2> QED
    BY <1>1, <1>2, <1>4, <2>1 DEF FillInv, TrackInv, Identified
<1> QED
  BY <1>5, <1>6 DEF FillInv

\* on_order_ack changes the state of one order in the table, and no quantity.
LEMMA AckRecords ==
  ASSUME IInv, NEW x, NEW o \in Oids, on_order_ack(x, o)
  PROVE  /\ \A s \in Slots : slot'[s].filled = slot[s].filled
         /\ \A p \in Oids : p # o /\ orders[p] # Null => slot'[orders[p]] = slot[orders[p]]
         /\ orders[o] # Null => slot'[orders[o]].sm = transition(slot[orders[o]].sm, "OPEN")
<1>1. CASE orders[o] = Null
  BY <1>1 DEF on_order_ack
<1>2. CASE orders[o] # Null
  <2>1. /\ orders[o] \in Slots /\ slot[orders[o]] \in OrderRecord
        /\ slot' = [slot EXCEPT ![orders[o]].sm = transition(@, "OPEN"),
                                ![orders[o]].status = "OPEN"]
    BY <1>2 DEF on_order_ack, IInv, TypeOK
  <2>2. \A p \in Oids : p # o /\ orders[p] # Null => orders[p] # orders[o]
    BY DEF IInv, Ownership, PoolInv
  <2>3. slot'[orders[o]] = [slot[orders[o]] EXCEPT !.sm = transition(@, "OPEN"),
                                                   !.status = "OPEN"]
    BY <2>1 DEF IInv, TypeOK
  <2>4. \A s \in Slots : s # orders[o] => slot'[s] = slot[s]
    BY <2>1 DEF IInv, TypeOK
  <2>5. /\ slot'[orders[o]].filled = slot[orders[o]].filled
        /\ slot'[orders[o]].sm = transition(slot[orders[o]].sm, "OPEN")
    BY <2>1, <2>3 DEF OrderRecord
  <2>6. \A p \in Oids : orders[p] # Null => orders[p] \in Slots
    BY DEF IInv, TypeOK
  <2> QED
    BY <2>2, <2>4, <2>5, <2>6
<1> QED
  BY <1>1, <1>2

LEMMA FillPaperAck ==
  ASSUME IInv, IInv', FillInv, NEW t \in Threads, PaperAck(t)
  PROVE  FillInv'
<1>0. PICK o \in Oids : o = ctx[t].oid
  BY CallIds DEF PaperAck, SubmitPcs, IInv
<1>1. /\ ctx[t].pc = "ack" /\ Paper
      /\ \A u \in Threads : u # t => ctx'[u] = ctx[u]
      /\ ctx'[t].pc = "mark"
      /\ UNCHANGED <<orders, processed, forgotten, seq, published, request, rest, exch, trades>>
  BY DEF PaperAck, world, IInv, TypeOK, CallRecord, Ownership, RoleInv
<1>2. \A s \in Slots : slot'[s].filled = slot[s].filled
  BY <1>0, AckRecords DEF PaperAck
<1>3. /\ \A u \in Threads : \/ ctx'[u] = ctx[u]
                            \/ ctx[u].pc \notin OnFillPcs /\ ctx'[u].pc \notin OnFillPcs
      /\ \A u \in Threads : ctx'[u].pc \in {"insert", "place"} => ctx'[u] = ctx[u]
      /\ seq <= seq'
  <2>1. "ack" \notin OnFillPcs /\ "mark" \notin OnFillPcs
    BY DEF OnFillPcs, FillPcs
  <2>2. seq \in Nat
    BY SizesAssumption DEF IInv, TypeOK
  <2> QED
    BY <1>1, <2>1, <2>2
<1>4. DedupInv' /\ TradeInv' /\ QuantityInv'
  BY <1>1, <1>3, OutsideFills DEF IInv, FillInv
<1>5. TrackInv'
  <2>1. \A p \in Oids : rest'[p] = "idle"
    BY <1>1 DEF IInv, WorldInv
  <2>2. \A u \in Threads : ctx[u].pc = "insert" => ctx[u].po \in Slots
    BY DEF IInv, Ownership, SubmitInv
  <2> QED
    BY <1>1, <1>2, <1>3, <2>1, <2>2 DEF FillInv, TrackInv
<1> QED
  BY <1>4, <1>5 DEF FillInv

\* The answers to the REST call.  Until it is answered the order is in the table.
LEMMA FillRest ==
  ASSUME IInv, IInv', FillInv, NEW t \in IOThreads, NEW o \in Oids,
         RestAck(t, o) \/ RestUnparsable(t, o) \/ RestError(t, o)
  PROVE  FillInv'
<1>1. /\ rest[o] \in {"sent", "accepted"} /\ orders[o] # Null
      /\ UNCHANGED <<ctx, processed, forgotten, seq, published, request, exch, trades>>
  BY DEF RestAck, RestUnparsable, RestError, omsState, FillInv, TrackInv
<1>2. PICK r \in {"acked", "unparsed", "failed"} :
        \A p \in Oids : rest'[p] = IF p = o THEN r ELSE rest[p]
  BY DEF RestAck, RestUnparsable, RestError, IInv, TypeOK
<1>3. /\ \A p \in Oids : orders'[p] # Null => orders'[p] = orders[p]
      /\ \A p \in Oids \ {o} : orders'[p] = orders[p]
      /\ \A s \in Slots : slot'[s].filled = slot[s].filled
      /\ \A p \in Oids : p # o /\ orders[p] # Null => slot'[orders[p]] = slot[orders[p]]
  <2>1. CASE RestAck(t, o)
    BY <2>1, AckRecords DEF RestAck
  <2>2. CASE RestUnparsable(t, o)
    BY <2>2 DEF RestUnparsable, omsState
  <2>3. CASE RestError(t, o)
    BY <2>3 DEF RestError, Forget, IInv, TypeOK
  <2> QED
    BY <2>1, <2>2, <2>3
<1>4. seq <= seq'
  BY <1>1, SizesAssumption DEF IInv, TypeOK
<1>5. \A p \in Oids : orders'[p] # Null =>
        orders[p] # Null /\ RecordOf(p)'.filled = RecordOf(p).filled
  BY <1>3 DEF RecordOf, IInv, TypeOK
<1>6. DedupInv' /\ TradeInv' /\ QuantityInv'
  BY <1>1, <1>2, <1>4, <1>5, OutsideFills DEF IInv, FillInv
<1>7. TrackInv'
  <2>1. ASSUME NEW u \in Threads
        PROVE  /\ ctx'[u].pc = "insert" => slot'[ctx'[u].po].filled = 0
               /\ ctx'[u].pc = "place" => orders'[ctx'[u].oid] # Null
    <3>1. ctx[u].pc = "insert" => ctx[u].po \in Slots
      BY DEF IInv, Ownership, SubmitInv
    <3>2. ctx[u].pc = "place" => ctx[u].oid \in Oids /\ rest[ctx[u].oid] = "idle"
      BY CallIds DEF SubmitPcs, IInv, Ownership, RoleInv
    <3> QED
      BY <1>1, <1>3, <3>1, <3>2 DEF FillInv, TrackInv
  <2>2. \A p \in Oids \ {o} : Cancellable(p)' <=> Cancellable(p)
    BY <1>3 DEF Cancellable
  <2>3. rest'[o] = "acked" => Cancellable(o)'
    <3> SUFFICES ASSUME rest'[o] = "acked" PROVE Cancellable(o)'
      OBVIOUS
    <3>1. RestAck(t, o)
      BY <1>2 DEF RestUnparsable, RestError, IInv, TypeOK
    <3>2. orders' = orders /\ rest[o] = "accepted" /\ ~ Paper
      BY <3>1 DEF RestAck, IInv, WorldInv
    <3>3. slot[orders[o]].sm = "PENDING"
      BY <1>1, <3>2 DEF IInv, Ownership, TableInv, RecordOf
    <3>4. slot'[orders[o]].sm = "OPEN"
      BY <1>1, <3>1, <3>3, AckRecords, Transitions DEF RestAck
    <3> QED
      BY <1>1, <3>2, <3>4 DEF Cancellable
  <2>4. \A p \in Oids : rest'[p] \in {"sent", "accepted"} => orders'[p] # Null
    BY <1>2, <1>3 DEF FillInv, TrackInv
  <2>5. \A p \in Oids : Identified(p) /\ rest'[p] = "acked" /\ exch'[<<p, 1>>].st = "live"
                          => Cancellable(p)'
    BY <1>1, <1>2, <2>2, <2>3 DEF FillInv, TrackInv
  <2> QED
    BY <1>1, <2>1, <2>4, <2>5 DEF TrackInv, Identified
<1> QED
  BY <1>6, <1>7 DEF FillInv

\* The feed reports a rejection: the order no longer works at the exchange.
LEMMA FillReject ==
  ASSUME IInv, IInv', FillInv, NEW t \in IOThreads, NEW x \in LiveIds, FeedReject(t, x)
  PROVE  FillInv'
<1> DEFINE o == exchange_to_internal[x]
<1>1. /\ exch[x].st = "rejected" /\ x \in ExIds
      /\ UNCHANGED <<ctx, processed, forgotten, seq, published, request, rest, exch, trades>>
  BY Ids DEF FeedReject, world
<1>2. CASE ~ (o # Null /\ orders[o] # Null)
  <2>1. UNCHANGED <<slot, orders>>
    BY <1>2 DEF FeedReject
  <2> QED
    BY <1>1, <2>1, FillQuiet
<1>3. CASE o # Null /\ orders[o] # Null
  <2>0. PICK r \in Oids : r = o
    BY <1>1, <1>3 DEF IInv, TypeOK
  <2>1. /\ slot' = [slot EXCEPT ![orders[r]].sm = transition(@, "REJECTED")]
        /\ orders' = [orders EXCEPT ![r] = Null]
    BY <1>3, <2>0 DEF FeedReject, Forget
  <2>2. orders[r] \in Slots /\ slot[orders[r]] \in OrderRecord
    BY <1>3, <2>0 DEF IInv, TypeOK
  <2>3. /\ \A p \in Oids : orders'[p] = IF p = r THEN Null ELSE orders[p]
        /\ \A s \in Slots : slot'[s].filled = slot[s].filled
        /\ \A s \in Slots \ {orders[r]} : slot'[s] = slot[s]
    <3>1. slot'[orders[r]] = [slot[orders[r]] EXCEPT !.sm = transition(@, "REJECTED")]
      BY <2>1, <2>2 DEF IInv, TypeOK
    <3> QED
      BY <2>1, <2>2, <3>1 DEF IInv, TypeOK, OrderRecord
  <2>4. \A p \in Oids \ {r} : orders[p] # Null => orders[p] \in Slots \ {orders[r]}
    BY <2>2 DEF IInv, TypeOK, Ownership, PoolInv
  <2>5. /\ x = <<r, 1>> /\ Cancellable(r) /\ ~ Paper
        /\ rest[r] \notin {"idle", "sent", "accepted"}
    <3>1. ~ Paper /\ x = OwnId(r) /\ Cancellable(r)
      BY <1>1, <1>3, <2>0 DEF IInv, WorldInv, Ownership, MapInv
    <3>2. RecordOf(r).sm # "PENDING" /\ orders[r] # Null
      BY <3>1 DEF Cancellable, RecordOf
    <3> QED
      BY <3>1, <3>2 DEF OwnId, IInv, Ownership, TableInv
  <2>6. \A p \in Oids : orders'[p] # Null =>
          orders[p] # Null /\ RecordOf(p)'.filled = RecordOf(p).filled
    BY <2>3, <2>4 DEF RecordOf
  <2>7. seq <= seq'
    BY <1>1, SizesAssumption DEF IInv, TypeOK
  <2>8. DedupInv' /\ TradeInv' /\ QuantityInv'
    BY <1>1, <2>6, <2>7, OutsideFills DEF IInv, FillInv
  <2>9. TrackInv'
    <3>1. ASSUME NEW u \in Threads
          PROVE  /\ ctx'[u].pc = "insert" => slot'[ctx'[u].po].filled = 0
                 /\ ctx'[u].pc = "place" => orders'[ctx'[u].oid] # Null
      <4>1. ctx[u].pc = "insert" => ctx[u].po \in Slots
        BY DEF IInv, Ownership, SubmitInv
      <4>2. ctx[u].pc = "place" => ctx[u].oid \in Oids /\ rest[ctx[u].oid] = "idle"
        BY CallIds DEF SubmitPcs, IInv, Ownership, RoleInv
      <4> QED
        BY <1>1, <2>3, <2>5, <4>1, <4>2 DEF FillInv, TrackInv
    <3>2. \A p \in Oids \ {r} : Cancellable(p) => Cancellable(p)'
      BY <2>3, <2>4 DEF Cancellable
    <3>3. exch'[<<r, 1>>].st # "live"
      BY <1>1, <2>5
    <3>4. \A p \in Oids : rest'[p] \in {"sent", "accepted"} => orders'[p] # Null
      BY <1>1, <2>3, <2>5 DEF FillInv, TrackInv
    <3>5. \A p \in Oids : Identified(p) /\ rest'[p] = "acked" /\ exch'[<<p, 1>>].st = "live"
                            => Cancellable(p)'
      BY <1>1, <3>2, <3>3 DEF FillInv, TrackInv
    <3> QED
      BY <1>1, <3>1, <3>4, <3>5 DEF TrackInv, Identified
  <2> QED
    BY <2>8, <2>9 DEF FillInv
<1> QED
  BY <1>2, <1>3

-----------------------------------------------------------------------------
(* FillInv: on_fill *)

\* try_mark: a trade of an order in the table that is not in processed_ was never
\* taken up before.
LEMMA FillMarked ==
  ASSUME IInv, IInv', FillInv, NEW t \in Threads, NEW e \in TradeIds, NEW q,
         FillMark(t, e[1], e, q), ctx[t].pc \in {"idle", "mark"},
         Begun(e[1][1]), ~ Paper => q = trades[e] /\ q # 0
  PROVE  FillInv'
<1>1. /\ UNCHANGED <<slot, orders, forgotten, seq, published, request, rest, exch, trades>>
      /\ \A u \in Threads : u # t => ctx'[u] = ctx[u]
      /\ seq \in Nat
  BY SizesAssumption DEF FillMark, world, IInv, TypeOK
<1>2. ctx[t].pc \notin OnFillPcs /\ ctx[t].pc \notin {"insert", "place"}
  BY DEF OnFillPcs, FillPcs
<1>3. CASE ~ (e \in Anonymous \/ e \notin processed)
  <2>1. processed' = processed /\ ctx'[t] = Idle
    BY <1>3 DEF FillMark, IInv, TypeOK
  <2>2. Idle.pc = "idle" /\ "idle" \notin OnFillPcs
    BY DEF Idle, OnFillPcs, FillPcs
  <2>3. /\ \A u \in Threads : \/ ctx'[u] = ctx[u]
                              \/ ctx[u].pc \notin OnFillPcs /\ ctx'[u].pc \notin OnFillPcs
        /\ \A u \in Threads : ctx'[u].pc \in {"insert", "place"} => ctx'[u] = ctx[u]
        /\ seq <= seq'
    BY <1>1, <1>2, <2>1, <2>2
  <2>4. \A p \in Oids : RecordOf(p)' = RecordOf(p)
    BY <1>1 DEF RecordOf
  <2>5. DedupInv' /\ TradeInv' /\ QuantityInv'
    BY <1>1, <2>1, <2>3, <2>4, OutsideFills DEF IInv, FillInv
  <2>6. TrackInv'
    BY <1>1, <2>3 DEF FillInv, TrackInv, Cancellable, Identified
  <2> QED
    BY <2>5, <2>6 DEF FillInv
<1>4. CASE e \in Anonymous \/ e \notin processed
  <2> DEFINE c == [Idle EXCEPT !.pc = "lookup", !.ex = e[1], !.trade = e, !.qty = q]
  <2>1. /\ ctx'[t] = c
        /\ processed' = IF e \in Anonymous THEN processed ELSE processed \cup {e}
    BY <1>4 DEF FillMark, IInv, TypeOK
  <2>2. c.pc = "lookup" /\ c.ex = e[1] /\ c.trade = e /\ c.qty = q
    BY DEF Idle
  <2> HIDE DEF c
  <2>3. \A f \in TradeIds, u \in Threads :
          /\ Holds(u, f, OnFillPcs)' <=> Holds(u, f, OnFillPcs) \/ (u = t /\ f = e)
          /\ Holds(u, f, FillPcs)' <=> Holds(u, f, FillPcs) \/ (u = t /\ f = e)
          /\ Holds(u, f, ApplyPcs)' <=> Holds(u, f, ApplyPcs)
    BY <1>1, <1>2, <2>1, <2>2 DEF Holds, OnFillPcs, FillPcs, ApplyPcs
  <2>4. \A o \in Oids : Begun(o)' <=> Begun(o)
    BY <1>1, <1>2, <2>1, <2>2 DEF Begun
  <2>5. DedupInv'
    <3> SUFFICES ASSUME NEW f \in TradeIds \ (Anonymous \cup forgotten')
                 PROVE  DedupInv!(f)'
      BY DEF DedupInv
    <3>0. f[1][1] \in Oids
      BY TradeIdParts
    <3>1. CASE f # e
      <4>1. Known(f)' <=> Known(f)
        BY <1>1, <2>3, <3>1 DEF Known
      <4> QED
        BY <1>1, <2>1, <2>3, <2>4, <3>0, <3>1, <4>1 DEF FillInv, DedupInv
    <3>2. CASE f = e
      <4>1. e \notin processed /\ e \in processed'
        BY <1>4, <2>1, <3>2
      <4>2. orders[e[1][1]] # Null =>
              published[e] = 0 /\ \A u \in Threads : ~ Holds(u, e, OnFillPcs)
        <5>1. orders[e[1][1]] # Null => ~ Known(e)
          BY <1>1, <3>2, <4>1 DEF FillInv, DedupInv
        <5>2. published[e] \in Nat
          BY DEF IInv, TypeOK
        <5> QED
          BY <5>1, <5>2 DEF Known
      <4>3. \A u \in Threads : Holds(u, e, ApplyPcs) => Holds(u, e, OnFillPcs)
        BY DEF Holds, ApplyPcs, OnFillPcs, FillPcs
      <4> QED
        BY <1>1, <2>3, <2>4, <3>0, <3>2, <4>1, <4>2, <4>3 DEF FillInv, DedupInv
    <3> QED
      BY <3>1, <3>2
  <2>6. TradeInv'
    BY <1>1, <2>1, <2>2 DEF FillInv, TradeInv
  <2>7. QuantityInv'
    <3>1. \A f \in TradeIds \ Anonymous : Due(f)' = Due(f)
      <4> SUFFICES ASSUME NEW f \in TradeIds \ Anonymous PROVE Due(f)' = Due(f)
        OBVIOUS
      <4>1. CASE f # e
        BY <1>1, <2>1, <2>3, <4>1 DEF Due
      <4>2. CASE f = e
        BY <1>1, <1>4, <2>3, <4>2 DEF Due
      <4> QED
        BY <4>1, <4>2
    <3>2. \A p \in Oids : RecordOf(p)' = RecordOf(p)
      BY <1>1 DEF RecordOf
    <3> QED
      BY <1>1, <3>1, <3>2, QuantityFrame DEF IInv, FillInv
  <2>8. TrackInv'
    BY <1>1, <2>1, <2>2 DEF FillInv, TrackInv, Cancellable, Identified
  <2> QED
    BY <2>5, <2>6, <2>7, <2>8 DEF FillInv
<1> QED
  BY <1>3, <1>4

\* Trades are reported only of orders that were begun.
LEMMA TradedBegun ==
  ASSUME IInv, FillInv, NEW e \in TradeIds, trades[e] # 0
  PROVE  Begun(e[1][1]) /\ ~ Paper
<1> DEFINE o == e[1][1]
<1>1. o \in Oids /\ e[1] \in ExIds /\ e[2] \in 1 .. MaxTrades
  BY TradeIdParts
<1>2. e[2] <= exch[e[1]].n /\ exch[e[1]].n \in Nat
  BY <1>1, SizesAssumption DEF FillInv, TradeInv, IInv, TypeOK, ExchangeRecord
<1>3. exch[e[1]].st # "none"
  BY <1>1, <1>2, SizesAssumption DEF FillInv, TradeInv
<1>4. rest[o] \notin {"idle", "sent"}
  BY <1>1, <1>3 DEF FillInv, TradeInv
<1>5. o <= seq /\ ~ Paper
  BY <1>1, <1>4 DEF IInv, WorldInv
<1>6. \A t \in Threads : ctx[t].pc = "insert" => ctx[t].oid # o
  BY <1>4 DEF IInv, Ownership, RoleInv, SubmitPcs
<1> QED
  BY <1>1, <1>5, <1>6, SizesAssumption DEF Begun, Oids, IInv, TypeOK

LEMMA FillFeed ==
  ASSUME IInv, IInv', FillInv, NEW t \in IOThreads, NEW e \in TradeIds, FeedFill(t, e)
  PROVE  FillInv'
<1>1. t \in Threads
  BY Sets
<1> QED
  BY <1>1, TradedBegun, FillMarked DEF FeedFill

LEMMA FillPaper ==
  ASSUME IInv, IInv', FillInv, NEW t \in Threads, PaperFill(t)
  PROVE  FillInv'
<1>1. PICK o \in Oids : o = ctx[t].oid
  BY CallIds DEF PaperFill, SubmitPcs, IInv
<1>2. /\ ctx[t].pc = "mark" /\ t \in Strategies /\ o \in 1 .. seq
      /\ Paper /\ ctx[t].ex = PaperId(o)
  BY <1>1 DEF PaperFill, IInv, Ownership, RoleInv, SubmitPcs
<1>3. PICK e \in TradeIds : e = <<ctx[t].ex, 1>> /\ e[1] = ctx[t].ex /\ e[1][1] = o
  <2>0. 1 \in 1 .. MaxTrades
    BY SizesAssumption
  <2>1. PaperId(o) \in ExIds /\ PaperId(o)[1] = o
    BY Ids
  <2>2. <<PaperId(o), 1>> \in TradeIds /\ <<PaperId(o), 1>>[1] = PaperId(o)
    BY <2>0, <2>1, TradeIdParts
  <2> QED
    BY <1>2, <2>1, <2>2
<1>4. \A u \in Threads : ctx[u].pc = "insert" => ctx[u].oid # o
  <2> SUFFICES ASSUME NEW u \in Threads, ctx[u].pc = "insert" PROVE ctx[u].oid # o
    OBVIOUS
  <2>1. u \in Strategies /\ u # t
    BY <1>2 DEF IInv, Ownership, RoleInv, SubmitPcs
  <2> QED
    BY <1>1, <1>2, <2>1 DEF IInv, Ownership, DistinctInv, Current, SubmitPcs, FillPcs
<1>5. Begun(o)
  BY <1>2, <1>4 DEF Begun
<1> QED
  BY <1>2, <1>3, <1>5, FillMarked DEF PaperFill

\* What a thread in on_fill holds
LEMMA HeldTrade ==
  ASSUME IInv, FillInv, NEW t \in Threads, ctx[t].pc \in OnFillPcs
  PROVE  /\ ctx[t].trade \in TradeIds /\ ctx[t].trade[1] = ctx[t].ex
         /\ ctx[t].trade[1][1] \in Oids /\ ctx[t].ex \in ExIds
         /\ ctx[t].pc \in ApplyPcs => /\ ctx[t].oid \in Oids
                                      /\ ctx[t].oid = ctx[t].trade[1][1]
                                      /\ ctx[t].ex = OwnId(ctx[t].oid)
         /\ ~ Paper => ctx[t].qty = trades[ctx[t].trade]
<1>1. ctx[t].trade \in TradeIds /\ ctx[t].trade[1] = ctx[t].ex
  BY DEF FillInv, TradeInv, IInv, Ownership, RoleInv, OnFillPcs
<1>2. ctx[t].trade[1][1] \in Oids /\ ctx[t].ex \in ExIds
  BY <1>1, TradeIdParts
<1>3. ctx[t].pc \in ApplyPcs => ctx[t].oid \in Oids /\ ctx[t].ex = OwnId(ctx[t].oid)
  BY CallIds DEF ApplyPcs, IInv, Ownership, HeldInv
<1>4. ctx[t].pc \in ApplyPcs => ctx[t].oid = ctx[t].trade[1][1]
  BY <1>1, <1>3, OwnIds
<1> QED
  BY <1>1, <1>2, <1>3, <1>4 DEF FillInv, TradeInv

\* A step of on_fill that keeps the trade in hand and applies nothing: the lookup
\* that finds the order, and the reading of the record
LEMMA FillKeeps ==
  ASSUME IInv, IInv', FillInv, NEW t \in Threads,
         UNCHANGED <<slot, orders, processed, forgotten, seq, published, request, rest, exch, trades>>,
         \A u \in Threads : u # t => ctx'[u] = ctx[u],
         ctx[t].pc \in {"lookup", "build"}, ctx'[t].pc \in {"build", "update"},
         ctx'[t].trade = ctx[t].trade, ctx'[t].ex = ctx[t].ex, ctx'[t].qty = ctx[t].qty,
         orders[ctx[t].trade[1][1]] # Null
  PROVE  FillInv'
<1> DEFINE e == ctx[t].trade
<1>1. \A f, u : u \in Threads =>
        /\ Holds(u, f, OnFillPcs)' <=> Holds(u, f, OnFillPcs)
        /\ Holds(u, f, FillPcs)' <=> Holds(u, f, FillPcs)
        /\ Holds(u, f, ApplyPcs)' => Holds(u, f, ApplyPcs) \/ (u = t /\ f = e)
        /\ Holds(u, f, ApplyPcs)' => Holds(u, f, OnFillPcs)
  BY DEF Holds, OnFillPcs, FillPcs, ApplyPcs
<1>2. \A o \in Oids : Begun(o)' <=> Begun(o)
  BY DEF Begun
<1>3. DedupInv'
  <2> SUFFICES ASSUME NEW f \in TradeIds \ (Anonymous \cup forgotten')
               PROVE  DedupInv!(f)'
    BY DEF DedupInv
  <2>1. f[1][1] \in Oids /\ (Known(f)' <=> Known(f))
    BY <1>1, TradeIdParts DEF Known
  <2>2. CASE f # e
    BY <1>1, <1>2, <2>1, <2>2 DEF FillInv, DedupInv
  <2>3. CASE f = e
    BY <1>1, <1>2, <2>1, <2>3 DEF FillInv, DedupInv
  <2> QED
    BY <2>2, <2>3
<1>4. TradeInv'
  <2>1. ctx[t].pc \in OnFillPcs
    BY DEF OnFillPcs, FillPcs
  <2> QED
    BY <2>1 DEF FillInv, TradeInv
<1>5. QuantityInv'
  <2>1. \A f \in TradeIds : Due(f)' = Due(f)
    BY <1>1 DEF Due
  <2>2. \A p \in Oids : RecordOf(p)' = RecordOf(p)
    BY DEF RecordOf
  <2> QED
    BY <2>1, <2>2, QuantityFrame DEF IInv, FillInv
<1>6. TrackInv'
  BY DEF FillInv, TrackInv, Cancellable, Identified
<1> QED
  BY <1>3, <1>4, <1>5, <1>6 DEF FillInv

\* A step after which trade e has less due: the record got it, or never will.
LEMMA FillDrops ==
  ASSUME IInv, IInv', FillInv, NEW e \in TradeIds,
         \A f \in TradeIds : f # e => Due(f)' = Due(f),
         UNCHANGED <<forgotten, request, rest, exch>>,
         \A o \in Oids : orders'[o] # Null /\ ~ Paper =>
           /\ orders[o] # Null
           /\ rest[o] \in {"idle", "sent", "accepted"} =>
                RecordOf(o)'.filled = RecordOf(o).filled
           /\ Identified(o) =>
                RecordOf(o)'.filled + Due(e)' <= RecordOf(o).filled + Due(e)
           /\ e[1] # <<o, 1>> => RecordOf(o)'.filled = RecordOf(o).filled
  PROVE  QuantityInv'
<1> SUFFICES ASSUME NEW o \in Oids, orders'[o] # Null, ~ Paper
             PROVE  QuantityInv!(o)!2'
  BY DEF QuantityInv
<1>1. orders[o] # Null /\ <<o, 1>> \in ExIds
  BY TradeIdParts
<1>2. rest'[o] \in {"idle", "sent", "accepted"} => RecordOf(o)'.filled = 0
  BY <1>1 DEF FillInv, QuantityInv
<1>3. ASSUME Identified(o), exch'[<<o, 1>>].st # "none"
      PROVE  \E d \in [0 .. MaxTrades -> Nat] :
               /\ Tally(<<o, 1>>, d)'
               /\ RecordOf(o)'.filled + d[MaxTrades] + exch'[<<o, 1>>].left
                    <= request'[o].qty
  <2>1. PICK d \in [0 .. MaxTrades -> Nat] :
          /\ Tally(<<o, 1>>, d)
          /\ RecordOf(o).filled + d[MaxTrades] + exch[<<o, 1>>].left <= request[o].qty
    BY <1>1, <1>3 DEF FillInv, QuantityInv
  <2>2. CASE e[1] # <<o, 1>>
    <3>1. \A n \in 1 .. MaxTrades : Due(<< <<o, 1>>, n>>)' = Due(<< <<o, 1>>, n>>)
      BY <1>1, <2>2, TradeIdParts
    <3>2. Tally(<<o, 1>>, d)'
      BY <2>1, <3>1 DEF Tally
    <3>3. RecordOf(o)'.filled = RecordOf(o).filled
      BY <1>1, <2>2
    <3> QED
      BY <2>1, <3>2, <3>3
  <2>3. CASE e[1] = <<o, 1>>
    <3>1. PICK k \in 1 .. MaxTrades : e = << <<o, 1>>, k>>
      BY <2>3, TradeIdParts
    <3>2. \A n \in 1 .. MaxTrades : << <<o, 1>>, n>> \in TradeIds
      BY <1>1, TradeIdParts
    <3>3. \A n \in 1 .. MaxTrades : n # k => << <<o, 1>>, n>> # e
      BY <3>1
    <3>4. \A n \in 1 .. MaxTrades : /\ Due(<< <<o, 1>>, n>>) \in Nat
                                    /\ Due(<< <<o, 1>>, n>>)' \in Nat
      BY <3>2, DueType DEF IInv, TypeOK, Due
    <3>5. PICK c \in [0 .. MaxTrades -> Nat] :
            /\ Tally(<<o, 1>>, c)'
            /\ c[MaxTrades] = d[MaxTrades] - Due(e) + Due(e)'
      BY <1>1, <2>1, <3>1, <3>2, <3>3, <3>4, TallyChange
    <3>6. /\ RecordOf(o).filled \in Nat /\ RecordOf(o)'.filled \in Nat
          /\ exch[<<o, 1>>].left \in Nat /\ request[o].qty \in Nat
      <4>1. orders[o] \in Slots /\ orders'[o] \in Slots
        BY <1>1 DEF IInv, TypeOK
      <4>2. slot[orders[o]] \in OrderRecord /\ slot'[orders'[o]] \in OrderRecord
        BY <4>1 DEF IInv, TypeOK
      <4> QED
        BY <1>1, <4>2 DEF RecordOf, OrderRecord, IInv, TypeOK, ExchangeRecord, RequestRecord
    <3>7. /\ d[MaxTrades] \in Nat /\ c[MaxTrades] \in Nat
          /\ Due(e) \in Nat /\ Due(e)' \in Nat
      <4>1. MaxTrades \in 0 .. MaxTrades
        BY SizesAssumption
      <4>2. d[MaxTrades] \in Nat /\ c[MaxTrades] \in Nat
        BY <4>1
      <4> QED
        BY <3>1, <3>4, <4>2
    <3>8. RecordOf(o)'.filled + Due(e)' <= RecordOf(o).filled + Due(e)
      BY <1>3
    <3>9. RecordOf(o)'.filled + c[MaxTrades] + exch[<<o, 1>>].left <= request[o].qty
      <4>1. PICK f \in Nat, g \in Nat, l \in Nat, q \in Nat :
              /\ f = RecordOf(o).filled /\ g = RecordOf(o)'.filled
              /\ l = exch[<<o, 1>>].left /\ q = request[o].qty
        BY <3>6
      <4>2. PICK a \in Nat, b \in Nat, v \in Nat, w \in Nat :
              a = c[MaxTrades] /\ b = d[MaxTrades] /\ v = Due(e) /\ w = Due(e)'
        BY <3>7
      <4>3. f + b + l <= q /\ a = b - v + w /\ g + w <= f + v
        BY <2>1, <3>5, <3>8, <4>1, <4>2
      <4>4. g + a + l <= q
        BY <4>3
      <4> QED
        BY <4>1, <4>2, <4>4
    <3> QED
      BY <3>5, <3>9
  <2> QED
    BY <2>2, <2>3
<1> QED
  BY <1>2, <1>3 DEF Identified

LEMMA FillLooksUp ==
  ASSUME IInv, IInv', FillInv, NEW t \in Threads, FillLookup(t)
  PROVE  FillInv'
<1> DEFINE o == InternalOid(ctx[t].ex)
<1>0. PICK e \in TradeIds : e = ctx[t].trade
  BY HeldTrade DEF FillLookup, OnFillPcs, FillPcs
<1>1. /\ UNCHANGED <<slot, orders, processed, forgotten, seq, published, request, rest, exch, trades>>
      /\ \A u \in Threads : u # t => ctx'[u] = ctx[u]
      /\ ctx[t].pc = "lookup"
  BY DEF FillLookup, omsState, world, IInv, TypeOK
<1>2. CASE o # Null /\ orders[o] # Null
  <2>1. ctx'[t] = [ctx[t] EXCEPT !.pc = "build", !.oid = o, !.po = orders[o]]
    BY <1>2 DEF FillLookup, IInv, TypeOK
  <2>2. ctx[t] \in CallRecord
    BY DEF IInv, TypeOK
  <2>3. /\ ctx'[t].pc = "build" /\ ctx'[t].trade = ctx[t].trade /\ ctx'[t].ex = ctx[t].ex
        /\ ctx'[t].qty = ctx[t].qty /\ ctx'[t].oid = o
    BY <2>1, <2>2 DEF CallRecord
  <2>4. ctx[t].trade[1] = ctx[t].ex
    BY <1>1, HeldTrade DEF OnFillPcs, FillPcs
  <2>5. o = ctx[t].ex[1]
    <3>1. ctx'[t].ex = OwnId(ctx'[t].oid) /\ ctx'[t].oid \in 1 .. seq'
      BY <2>3 DEF IInv, Ownership, HeldInv, RoleInv, OwnId
    <3>2. o \in Oids
      BY <1>1, <2>3, <3>1, Sets DEF IInv, TypeOK
    <3> QED
      BY <2>3, <3>1, <3>2, OwnIds
  <2> QED
    BY <1>1, <1>2, <2>3, <2>4, <2>5, FillKeeps
<1>3. CASE ~ (o # Null /\ orders[o] # Null)
  <2>1. ctx'[t] = Idle
    BY <1>3 DEF FillLookup, IInv, TypeOK
  <2>2. Idle.pc = "idle"
    BY DEF Idle
  <2>3. \A f \in TradeIds, u \in Threads :
          /\ Holds(u, f, OnFillPcs)' => Holds(u, f, OnFillPcs)
          /\ Holds(u, f, ApplyPcs)' => Holds(u, f, ApplyPcs)
          /\ Holds(u, f, FillPcs)' => Holds(u, f, FillPcs)
          /\ f # e /\ Holds(u, f, FillPcs) => Holds(u, f, FillPcs)'
    BY <1>0, <1>1, <2>1, <2>2 DEF Holds, OnFillPcs, FillPcs, ApplyPcs
  <2>4. Holds(t, e, FillPcs)
    BY <1>0, <1>1 DEF Holds, FillPcs
  <2>5. \A p \in Oids : Begun(p) => Begun(p)'
    BY <1>1, <2>1, <2>2 DEF Begun
  <2>6. DedupInv'
    BY <1>1, <2>3, <2>5, DedupFrame DEF FillInv
  <2>7. TradeInv'
    BY <1>1, <2>1, <2>2 DEF FillInv, TradeInv, OnFillPcs, FillPcs
  <2>8. QuantityInv'
    <3>1. \A f \in TradeIds : f # e => Due(f)' = Due(f)
      BY <1>1, <2>3 DEF Due
    <3>2. Due(e)' <= Due(e) /\ Due(e)' \in Nat /\ Due(e) \in Nat
      BY <1>1, <2>4 DEF Due, IInv, TypeOK
    <3>3. \A p \in Oids : RecordOf(p)' = RecordOf(p)
      BY <1>1 DEF RecordOf
    <3>4. ASSUME NEW p \in Oids, orders[p] # Null
          PROVE  RecordOf(p)'.filled + Due(e)' <= RecordOf(p).filled + Due(e)
      <4>1. RecordOf(p).filled \in Nat
        BY <3>4 DEF RecordOf, IInv, TypeOK, OrderRecord
      <4> QED
        BY <3>2, <3>3, <4>1
    <3> QED
      BY <1>1, <3>1, <3>3, <3>4, FillDrops
  <2>9. TrackInv'
    BY <1>1, <2>1, <2>2 DEF FillInv, TrackInv, Cancellable, Identified
  <2> QED
    BY <2>6, <2>7, <2>8, <2>9 DEF FillInv
<1> QED
  BY <1>2, <1>3

LEMMA FillBuilds ==
  ASSUME IInv, IInv', FillInv, NEW t \in Threads, FillBuild(t)
  PROVE  FillInv'
<1>1. /\ UNCHANGED <<slot, orders, processed, forgotten, seq, published, request, rest, exch, trades>>
      /\ \A u \in Threads : u # t => ctx'[u] = ctx[u]
      /\ ctx[t].pc = "build" /\ ctx[t] \in CallRecord
      /\ ctx'[t] = [ctx[t] EXCEPT !.pc = "update", !.owner = slot[ctx[t].po].owner]
  BY DEF FillBuild, omsState, world, IInv, TypeOK
<1>2. /\ ctx'[t].pc = "update" /\ ctx'[t].trade = ctx[t].trade /\ ctx'[t].ex = ctx[t].ex
      /\ ctx'[t].qty = ctx[t].qty
  BY <1>1 DEF CallRecord
<1>3. orders[ctx[t].trade[1][1]] # Null
  BY <1>1, HeldTrade DEF OnFillPcs, FillPcs, ApplyPcs, IInv, Ownership, HeldInv
<1> QED
  BY <1>1, <1>2, <1>3, FillKeeps

\* The record of an order that works at the exchange never completes it: what is due
\* of the trade in hand was counted apart from what is left at the exchange.
LEMMA NotComplete ==
  ASSUME IInv, FillInv, NEW t \in Threads, ctx[t].pc = "update",
         Identified(ctx[t].oid), exch[<<ctx[t].oid, 1>>].st = "live"
  PROVE  slot[ctx[t].po].filled + ctx[t].qty < slot[ctx[t].po].qty
<1>0. PICK o \in Oids, e \in TradeIds : o = ctx[t].oid /\ e = ctx[t].trade
  BY HeldTrade DEF OnFillPcs, FillPcs, ApplyPcs
<1>1. /\ orders[o] = ctx[t].po /\ orders[o] \in Slots /\ ~ Paper
      /\ <<o, 1>> \in ExIds /\ exch[<<o, 1>>].st = "live"
  BY <1>0, TradeIdParts DEF IInv, TypeOK, Ownership, HeldInv, WorldInv
<1>2. /\ e[1] = <<o, 1>> /\ ctx[t].qty = trades[e]
      /\ Due(e) = ctx[t].qty
  BY <1>0, <1>1, HeldTrade DEF OnFillPcs, FillPcs, ApplyPcs, OwnId, Due, Holds
<1>3. PICK k \in 1 .. MaxTrades : e = << <<o, 1>>, k>>
  BY <1>2, TradeIdParts
<1>4. PICK d \in [0 .. MaxTrades -> Nat] :
        /\ Tally(<<o, 1>>, d)
        /\ RecordOf(o).filled + d[MaxTrades] + exch[<<o, 1>>].left <= request[o].qty
  BY <1>0, <1>1, Sets DEF FillInv, QuantityInv
<1>5. /\ k - 1 \in 0 .. MaxTrades /\ k \in 0 .. MaxTrades /\ MaxTrades \in 0 .. MaxTrades
      /\ k <= MaxTrades
  BY SizesAssumption
<1>6. Due(e) \in Nat /\ d[k] = d[k - 1] + Due(e) /\ d[k] <= d[MaxTrades]
      /\ d[k - 1] \in Nat /\ d[k] \in Nat /\ d[MaxTrades] \in Nat
  <2>1. Due(e) \in Nat
    BY DueType DEF IInv
  <2> QED
    BY <1>3, <1>4, <1>5, <2>1 DEF Tally
<1>7. /\ slot[orders[o]].qty = request[o].qty /\ slot[orders[o]].filled \in Nat
      /\ request[o].qty \in Nat
      /\ exch[<<o, 1>>].left \in Nat /\ exch[<<o, 1>>].left > 0
  <2>1. slot[orders[o]].qty = request[o].qty
    BY <1>1, Sets DEF IInv, Ownership, TableInv, RecordOf
  <2>2. slot[orders[o]].filled \in Nat /\ request[o].qty \in Nat
    BY <1>1 DEF IInv, TypeOK, OrderRecord, RequestRecord
  <2>3. exch[<<o, 1>>].left \in Nat /\ exch[<<o, 1>>].left > 0
    BY <1>1 DEF IInv, TypeOK, ExchangeRecord, FillInv, TradeInv
  <2> QED
    BY <2>1, <2>2, <2>3
<1>8. slot[orders[o]].filled + Due(e) < request[o].qty
  <2>1. PICK f \in Nat, l \in Nat, q \in Nat, v \in Nat :
          /\ f = slot[orders[o]].filled /\ l = exch[<<o, 1>>].left
          /\ q = request[o].qty /\ v = Due(e)
    BY <1>6, <1>7
  <2>2. f + d[MaxTrades] + l <= q /\ v <= d[MaxTrades] /\ l > 0 /\ d[MaxTrades] \in Nat
    BY <1>4, <1>6, <1>7, <2>1 DEF RecordOf
  <2>3. f + v < q
    BY <2>2
  <2> QED
    BY <2>1, <2>3
<1> QED
  BY <1>1, <1>2, <1>7, <1>8

LEMMA FillUpdates ==
  ASSUME IInv, IInv', FillInv, NEW t \in Threads, FillUpdate(t)
  PROVE  FillInv'
<1>0. PICK o \in Oids, e \in TradeIds, po \in Slots :
        /\ o = ctx[t].oid /\ e = ctx[t].trade /\ po = ctx[t].po
        /\ e[1] = ctx[t].ex /\ e[1][1] = o /\ e[1] = OwnId(o)
  <2>1. ctx[t].pc = "update"
    BY DEF FillUpdate
  <2>2. ctx[t].po \in Slots
    BY <2>1 DEF IInv, TypeOK, CallRecord, Ownership, HeldInv
  <2> QED
    BY <2>1, <2>2, HeldTrade DEF OnFillPcs, FillPcs, ApplyPcs
<1>1. /\ ctx[t].pc = "update" /\ orders[o] = po /\ Cancellable(o)
      /\ UNCHANGED <<processed, forgotten, seq, published, request, rest, exch, trades>>
  BY <1>0 DEF FillUpdate, world, IInv, Ownership, HeldInv
<1>2. /\ \A u \in Threads : u # t => ctx'[u] = ctx[u]
      /\ ctx'[t].pc = "push" /\ ctx'[t].trade = e /\ ctx'[t].ex = ctx[t].ex
      /\ ctx'[t].qty = ctx[t].qty
  <2>1. ctx' = [ctx EXCEPT ![t].pc = "push"] /\ ctx[t] \in CallRecord
    BY DEF FillUpdate, IInv, TypeOK
  <2> QED
    BY <1>0, <2>1 DEF IInv, TypeOK, CallRecord
<1>3. /\ \A s \in Slots \ {po} : slot'[s] = slot[s]
      /\ slot'[po].filled = slot[po].filled + ctx[t].qty
      /\ slot[po].filled + ctx[t].qty < slot[po].qty =>
           slot'[po].sm = transition(slot[po].sm, "PARTIAL")
  <2> DEFINE filled == slot[po].filled + ctx[t].qty
             to == IF filled >= slot[po].qty THEN "COMPLETE" ELSE "PARTIAL"
  <2>1. /\ slot' = [slot EXCEPT ![po].filled = filled, ![po].sm = transition(slot[po].sm, to),
                               ![po].status = to]
        /\ slot[po] \in OrderRecord /\ ctx[t] \in CallRecord
    BY <1>0 DEF FillUpdate, IInv, TypeOK
  <2>2. slot'[po] = [slot[po] EXCEPT !.filled = filled, !.sm = transition(slot[po].sm, to),
                                     !.status = to]
    BY <2>1 DEF IInv, TypeOK
  <2>3. slot'[po].filled = filled /\ slot'[po].sm = transition(slot[po].sm, to)
    BY <2>1, <2>2 DEF OrderRecord
  <2>4. filled < slot[po].qty => to = "PARTIAL"
    BY <2>1 DEF OrderRecord, CallRecord
  <2>5. \A s \in Slots \ {po} : slot'[s] = slot[s]
    BY <2>1 DEF IInv, TypeOK
  <2> QED
    BY <2>3, <2>4, <2>5
<1>4. /\ \A p \in Oids \ {o} : orders'[p] = orders[p]
      /\ orders'[o] \in {Null, po}
      /\ \A p \in Oids \ {o} : orders[p] # Null => orders[p] \in Slots \ {po}
      /\ rest[o] \notin {"idle", "sent", "accepted"} \/ Paper
  <2>1. orders' = orders \/ orders' = [orders EXCEPT ![o] = Null]
    BY <1>0 DEF FillUpdate
  <2>2. \A p \in Oids \ {o} : orders[p] # Null => orders[p] \in Slots \ {po}
    BY <1>1 DEF IInv, TypeOK, Ownership, PoolInv
  <2>3. rest[o] \notin {"idle", "sent", "accepted"} \/ Paper
    <3>1. RecordOf(o).sm # "PENDING" /\ orders[o] # Null
      BY <1>1 DEF Cancellable, RecordOf
    <3> QED
      BY <3>1 DEF IInv, Ownership, TableInv
  <2> QED
    BY <1>1, <2>1, <2>2, <2>3 DEF IInv, TypeOK
<1>5. \A f \in TradeIds, u \in Threads :
        /\ Holds(u, f, OnFillPcs)' <=> Holds(u, f, OnFillPcs)
        /\ Holds(u, f, ApplyPcs)' <=> Holds(u, f, ApplyPcs)
        /\ Holds(u, f, FillPcs)' <=> Holds(u, f, FillPcs) /\ u # t
  BY <1>0, <1>1, <1>2 DEF Holds, OnFillPcs, FillPcs, ApplyPcs
<1>6. Holds(t, e, FillPcs) /\ Holds(t, e, OnFillPcs)
  BY <1>0, <1>1 DEF Holds, OnFillPcs, FillPcs
<1>7. \A p \in Oids : /\ Begun(p) => Begun(p)'
                      /\ orders'[p] # Null => orders[p] # Null
  BY <1>1, <1>2, <1>4, Sets DEF Begun
<1>8. DedupInv'
  BY <1>1, <1>5, <1>7, DedupFrame DEF FillInv
<1>9. TradeInv'
  <2>1. ctx[t].pc \in OnFillPcs
    BY <1>1 DEF OnFillPcs, FillPcs
  <2> QED
    BY <1>0, <1>1, <1>2, <2>1 DEF FillInv, TradeInv
<1>10. QuantityInv'
  <2>1. \A f \in TradeIds : f # e => Due(f)' = Due(f)
    <3>1. \A f \in TradeIds : f # e => ~ Holds(t, f, FillPcs)
      BY <1>0 DEF Holds
    <3> QED
      BY <1>1, <1>5, <3>1 DEF Due
  <2>2. Due(e) = trades[e] /\ Due(e)' \in {0, trades[e]} /\ trades[e] \in Nat
    BY <1>1, <1>6 DEF Due, IInv, TypeOK
  <2>3. Identified(o) => Due(e)' = 0
    <3> SUFFICES ASSUME Identified(o) PROVE Due(e)' = 0
      OBVIOUS
    <3>1. e \in TradeIds \ (Anonymous \cup forgotten)
      BY <1>0 DEF Identified
    <3>2. Known(e) /\ orders[e[1][1]] # Null
      BY <1>0, <1>1, <1>6, Sets DEF Known
    <3>3. e \in processed /\ \A u \in Threads : Holds(u, e, OnFillPcs) => u = t
      BY <1>6, <3>1, <3>2 DEF FillInv, DedupInv
    <3>4. \A u \in Threads : Holds(u, e, FillPcs) => Holds(u, e, OnFillPcs)
      BY DEF Holds, OnFillPcs
    <3> QED
      BY <1>1, <1>5, <3>3, <3>4 DEF Due
  <2>4. ASSUME NEW p \in Oids, orders'[p] # Null, ~ Paper
        PROVE  /\ orders[p] # Null
               /\ rest[p] \in {"idle", "sent", "accepted"} =>
                    RecordOf(p)'.filled = RecordOf(p).filled
               /\ Identified(p) =>
                    RecordOf(p)'.filled + Due(e)' <= RecordOf(p).filled + Due(e)
               /\ e[1] # <<p, 1>> => RecordOf(p)'.filled = RecordOf(p).filled
    <3>1. CASE p # o
      <4>1. orders'[p] = orders[p] /\ orders[p] \in Slots \ {po}
        BY <1>4, <2>4, <3>1
      <4>2. RecordOf(p)' = RecordOf(p) /\ RecordOf(p).filled \in Nat
        BY <1>3, <4>1 DEF RecordOf, IInv, TypeOK, OrderRecord
      <4> QED
        BY <2>2, <2>4, <4>1, <4>2
    <3>2. CASE p = o
      <4>1. orders'[o] = po /\ ctx[t].qty = trades[e] /\ e[1] = <<o, 1>>
        BY <1>0, <1>1, <1>4, <2>4, <3>2, HeldTrade DEF OwnId, OnFillPcs, FillPcs
      <4>2. RecordOf(o)'.filled = RecordOf(o).filled + trades[e]
            /\ RecordOf(o).filled \in Nat
        BY <1>1, <1>3, <4>1 DEF RecordOf, IInv, TypeOK, OrderRecord
      <4> QED
        BY <1>1, <1>4, <2>2, <2>3, <2>4, <3>2, <4>1, <4>2, Sets
    <3> QED
      BY <3>1, <3>2
  <2> QED
    BY <1>1, <2>1, <2>4, FillDrops
<1>11. TrackInv'
  <2>1. ASSUME NEW u \in Threads
        PROVE  /\ ctx'[u].pc = "insert" => slot'[ctx'[u].po].filled = 0
               /\ ctx'[u].pc = "place" => orders'[ctx'[u].oid] # Null
    <3>1. ctx'[u].pc \in {"insert", "place"} => ctx'[u] = ctx[u]
      BY <1>2
    <3>2. ctx[u].pc = "insert" => ctx[u].po \in Slots \ {po}
      BY <1>1 DEF IInv, Ownership, SubmitInv, PoolInv
    <3>3. ctx[u].pc = "place" => ctx[u].oid \in Oids \ {o}
      BY <1>4, CallIds DEF SubmitPcs, IInv, Ownership, RoleInv
    <3> QED
      BY <1>3, <1>4, <3>1, <3>2, <3>3 DEF FillInv, TrackInv
  <2>2. \A p \in Oids \ {o} : Cancellable(p) => Cancellable(p)'
    BY <1>3, <1>4 DEF Cancellable
  <2>3. Identified(o) /\ exch[<<o, 1>>].st = "live" => Cancellable(o)'
    <3> SUFFICES ASSUME Identified(o), exch[<<o, 1>>].st = "live" PROVE Cancellable(o)'
      OBVIOUS
    <3>1. slot[po].filled + ctx[t].qty < slot[po].qty
      BY <1>0, <1>1, NotComplete
    <3>2. slot'[po].sm = "PARTIAL"
      BY <1>1, <1>3, <3>1, Transitions DEF Cancellable
    <3>3. orders' = orders
      <4>1. transition(slot[po].sm, "PARTIAL") = "PARTIAL"
        BY <1>1, Transitions DEF Cancellable
      <4>2. ~ (slot[po].filled + ctx[t].qty >= slot[po].qty)
        BY <1>1, <3>1 DEF IInv, TypeOK, OrderRecord, CallRecord
      <4> QED
        BY <1>0, <4>1, <4>2 DEF FillUpdate, Terminal
    <3> QED
      BY <1>1, <3>2, <3>3, Sets DEF Cancellable
  <2>4. \A p \in Oids : rest'[p] \in {"sent", "accepted"} => orders'[p] # Null
    <3>1. \A p \in Oids : rest[p] # "idle" => ~ Paper
      BY DEF IInv, WorldInv
    <3> QED
      BY <1>1, <1>4, <3>1 DEF FillInv, TrackInv
  <2>5. \A p \in Oids : Identified(p) /\ rest'[p] = "acked" /\ exch'[<<p, 1>>].st = "live"
                          => Cancellable(p)'
    BY <1>1, <2>2, <2>3 DEF FillInv, TrackInv
  <2> QED
    BY <1>1, <2>1, <2>4, <2>5 DEF TrackInv, Identified
<1> QED
  BY <1>8, <1>9, <1>10, <1>11 DEF FillInv

LEMMA FillPublishes ==
  ASSUME IInv, IInv', FillInv, NEW t \in Threads, FillPublish(t)
  PROVE  FillInv'
<1>0. PICK e \in TradeIds : e = ctx[t].trade
  BY HeldTrade DEF FillPublish, OnFillPcs
<1>1. /\ UNCHANGED <<slot, orders, processed, forgotten, seq, request, rest, exch, trades>>
      /\ \A u \in Threads : u # t => ctx'[u] = ctx[u]
      /\ ctx[t].pc = "push" /\ ctx'[t] = Idle
      /\ published' = [published EXCEPT ![e] = @ + 1]
  BY <1>0 DEF FillPublish, omsState, world, IInv, TypeOK
<1>2. Idle.pc = "idle"
  BY DEF Idle
<1>3. \A f \in TradeIds, u \in Threads :
        /\ Holds(u, f, OnFillPcs)' <=> Holds(u, f, OnFillPcs) /\ u # t
        /\ Holds(u, f, ApplyPcs)' <=> Holds(u, f, ApplyPcs) /\ u # t
        /\ Holds(u, f, FillPcs)' <=> Holds(u, f, FillPcs)
  BY <1>1, <1>2 DEF Holds, OnFillPcs, FillPcs, ApplyPcs
<1>4. \A p \in Oids : Begun(p)' <=> Begun(p)
  BY <1>1, <1>2 DEF Begun
<1>5. Holds(t, e, ApplyPcs) /\ Holds(t, e, OnFillPcs)
  BY <1>0, <1>1 DEF Holds, ApplyPcs, OnFillPcs
<1>6. published \in [TradeIds -> Nat]
  BY DEF IInv, TypeOK
<1>7. DedupInv'
  <2> SUFFICES ASSUME NEW f \in TradeIds \ (Anonymous \cup forgotten')
               PROVE  DedupInv!(f)'
    BY DEF DedupInv
  <2>0. f[1][1] \in Oids
    BY TradeIdParts
  <2>1. CASE f # e
    <3>1. published'[f] = published[f] /\ (Known(f)' => Known(f))
      BY <1>1, <1>3, <1>6, <2>1 DEF Known
    <3> QED
      BY <1>1, <1>3, <1>4, <2>0, <3>1 DEF FillInv, DedupInv
  <2>2. CASE f = e
    <3>1. Known(e)
      BY <1>5 DEF Known
    <3>2. published[e] = 0 /\ published'[e] = 1
      BY <1>1, <1>5, <1>6, <2>2 DEF FillInv, DedupInv
    <3>3. \A u \in Threads : ~ Holds(u, e, ApplyPcs)'
      BY <1>1, <1>3, <1>5, <2>2 DEF FillInv, DedupInv
    <3>4. orders[e[1][1]] # Null => \A u \in Threads : ~ Holds(u, e, OnFillPcs)'
      BY <1>1, <1>3, <1>5, <2>2 DEF FillInv, DedupInv
    <3>5. Begun(e[1][1])' /\ (orders[e[1][1]] # Null => e \in processed)
      BY <1>1, <1>4, <2>0, <2>2, <3>1 DEF FillInv, DedupInv
    <3> QED
      BY <1>1, <2>2, <3>2, <3>3, <3>4, <3>5
  <2> QED
    BY <2>1, <2>2
<1>8. TradeInv'
  BY <1>1, <1>2 DEF FillInv, TradeInv, OnFillPcs, FillPcs
<1>9. QuantityInv'
  <2>1. \A f \in TradeIds : Due(f)' = Due(f)
    BY <1>1, <1>3 DEF Due
  <2>2. \A p \in Oids : RecordOf(p)' = RecordOf(p)
    BY <1>1 DEF RecordOf
  <2> QED
    BY <1>1, <2>1, <2>2, QuantityFrame DEF IInv, FillInv
<1>10. TrackInv'
  BY <1>1, <1>2 DEF FillInv, TrackInv, Cancellable, Identified
<1> QED
  BY <1>7, <1>8, <1>9, <1>10 DEF FillInv

-----------------------------------------------------------------------------
(* FillInv: the end of the day and the exchange *)

\* processed_ is emptied: what it forgets of an order in the table is in forgotten,
\* and an order that is not in the table does not come back.
LEMMA FillReset ==
  ASSUME IInv, IInv', FillInv, ResetForEod
  PROVE  FillInv'
<1>1. /\ UNCHANGED <<slot, orders, seq, ctx, published, request, rest, exch, trades>>
      /\ processed' = {}
      /\ forgotten' = forgotten \cup {e \in processed : orders[e[1][1]] # Null}
  BY DEF ResetForEod, world
<1>2. \A f, u, pcs : Holds(u, f, pcs)' <=> Holds(u, f, pcs)
  BY <1>1 DEF Holds
<1>3. DedupInv'
  <2> SUFFICES ASSUME NEW f \in TradeIds \ (Anonymous \cup forgotten')
               PROVE  DedupInv!(f)'
    BY DEF DedupInv
  <2>1. f \notin Anonymous \cup forgotten /\ (orders[f[1][1]] # Null => f \notin processed)
    BY <1>1
  <2>2. (Known(f)' <=> Known(f)) /\ (Begun(f[1][1])' <=> Begun(f[1][1]))
    BY <1>1, <1>2 DEF Known, Begun
  <2>3. Known(f) => orders[f[1][1]] = Null
    BY <2>1 DEF FillInv, DedupInv
  <2> QED
    BY <1>1, <1>2, <2>1, <2>2, <2>3 DEF FillInv, DedupInv
<1>4. \A o \in Oids : Identified(o)' => Identified(o)
  BY <1>1 DEF Identified
<1>5. TradeInv' /\ TrackInv'
  BY <1>1, <1>4 DEF FillInv, TradeInv, TrackInv, Cancellable
<1>6. QuantityInv'
  <2> SUFFICES ASSUME NEW o \in Oids, orders[o] # Null, ~ Paper
               PROVE  QuantityInv!(o)'
    BY <1>1 DEF QuantityInv
  <2>1. rest[o] \in {"idle", "sent", "accepted"} => RecordOf(o)'.filled = 0
    BY <1>1 DEF FillInv, QuantityInv, RecordOf
  <2>2. ASSUME Identified(o)', exch[<<o, 1>>].st # "none"
        PROVE  \E d \in [0 .. MaxTrades -> Nat] :
                 /\ Tally(<<o, 1>>, d)'
                 /\ RecordOf(o)'.filled + d[MaxTrades] + exch'[<<o, 1>>].left
                      <= request'[o].qty
    <3>1. PICK d \in [0 .. MaxTrades -> Nat] :
            /\ Tally(<<o, 1>>, d)
            /\ RecordOf(o).filled + d[MaxTrades] + exch[<<o, 1>>].left <= request[o].qty
      BY <1>4, <2>2 DEF FillInv, QuantityInv
    <3>2. ASSUME NEW n \in 1 .. MaxTrades PROVE Due(<<<<o, 1>>, n>>)' = Due(<<<<o, 1>>, n>>)
      <4>1. <<<<o, 1>>, n>> \in TradeIds /\ <<<<o, 1>>, n>>[1][1] = o
        BY TradeIdParts
      <4>2. <<<<o, 1>>, n>> \notin processed
        BY <1>1, <2>2, <4>1 DEF Identified
      <4> QED
        BY <1>1, <4>2 DEF Due
    <3>3. Tally(<<o, 1>>, d)'
      BY <3>1, <3>2 DEF Tally
    <3> QED
      BY <1>1, <3>1, <3>3 DEF RecordOf
  <2> QED
    BY <1>1, <2>1, <2>2
<1> QED
  BY <1>3, <1>5, <1>6 DEF FillInv

\* Steps of the exchange change nothing in the engine.
LEMMA FillExchangeFrame ==
  ASSUME FillInv,
         UNCHANGED <<slot, orders, processed, forgotten, seq, ctx, published, request>>
  PROVE  /\ DedupInv'
         /\ \A p \in Oids : /\ RecordOf(p)' = RecordOf(p)
                            /\ Cancellable(p)' <=> Cancellable(p)
         /\ \A f, u, pcs : Holds(u, f, pcs)' <=> Holds(u, f, pcs)
<1>1. \A f, u, pcs : Holds(u, f, pcs)' <=> Holds(u, f, pcs)
  BY DEF Holds
<1>2. \A p \in Oids : Begun(p) => Begun(p)'
  BY DEF Begun
<1>3. DedupInv'
  BY <1>1, <1>2, DedupFrame DEF FillInv
<1> QED
  BY <1>1, <1>3 DEF RecordOf, Cancellable

LEMMA FillAccept ==
  ASSUME IInv, IInv', FillInv, NEW o \in Oids, NEW a, ExchangeAccept(o, a)
  PROVE  FillInv'
<1> DEFINE q == request[o].qty
<1>1. /\ rest[o] = "sent" /\ a \in 1 .. q /\ q \in Nat
      /\ UNCHANGED <<slot, orders, processed, forgotten, seq, ctx, published, request, trades>>
      /\ \A p \in Oids : rest'[p] = IF p = o THEN "accepted" ELSE rest[p]
  BY DEF ExchangeAccept, omsState, IInv, TypeOK, RequestRecord
<1>2. \A x \in ExIds : exch'[x] =
        IF x = <<o, 1>> THEN [st |-> "live", left |-> a, n |-> 0]
        ELSE IF x = <<o, 2>> /\ a < q THEN [st |-> "live", left |-> q - a, n |-> 0]
        ELSE exch[x]
  BY DEF ExchangeAccept
<1>3. /\ DedupInv'
      /\ \A p \in Oids : /\ RecordOf(p)' = RecordOf(p)
                         /\ Cancellable(p)' <=> Cancellable(p)
      /\ \A f, u, pcs : Holds(u, f, pcs)' <=> Holds(u, f, pcs)
  BY <1>1, FillExchangeFrame
<1>4. \A x \in ExIds : x[1] = o => exch[x].st = "none" /\ exch[x].n = 0
  BY <1>1 DEF FillInv, TradeInv
<1>5. \A e \in TradeIds : e[1][1] = o => trades[e] = 0
  <2> SUFFICES ASSUME NEW e \in TradeIds, e[1][1] = o, trades[e] # 0 PROVE FALSE
    OBVIOUS
  <2>1. e[2] <= 0 /\ e[2] \in 1 .. MaxTrades
    BY <1>4, TradeIdParts DEF FillInv, TradeInv
  <2> QED
    BY <2>1, SizesAssumption
<1>6. TradeInv'
  <2>1. \A x \in ExIds : exch'[x] # exch[x] => x[1] = o /\ exch'[x].st = "live"
                                              /\ exch'[x].left > 0
    BY <1>1, <1>2
  <2>2. \A x \in ExIds : /\ exch'[x].st # "none" => rest'[x[1]] \notin {"idle", "sent"}
                         /\ exch'[x].st = "none" => exch'[x].n = 0
                         /\ exch'[x].st = "live" => exch'[x].left > 0
    BY <1>1, <2>1, Ids DEF FillInv, TradeInv
  <2>3. \A e \in TradeIds : trades'[e] # 0 => e[2] <= exch'[e[1]].n
    BY <1>1, <1>5, <2>1, TradeIdParts DEF FillInv, TradeInv
  <2> QED
    BY <1>1, <2>2, <2>3 DEF FillInv, TradeInv
<1>7. QuantityInv'
  <2> SUFFICES ASSUME NEW p \in Oids, orders'[p] # Null, ~ Paper PROVE QuantityInv!(p)!2'
    BY DEF QuantityInv
  <2>1. \A e \in TradeIds : Due(e)' = Due(e)
    BY <1>1, <1>3 DEF Due
  <2>2. rest'[p] \in {"idle", "sent", "accepted"} => RecordOf(p)'.filled = 0
    BY <1>1, <1>3 DEF FillInv, QuantityInv
  <2>3. \A n \in 1 .. MaxTrades : << <<p, 1>>, n>> \in TradeIds
                                  /\ << <<p, 1>>, n>>[1][1] = p
    BY TradeIdParts
  <2>4. CASE p = o
    <3> DEFINE z == [n \in 0 .. MaxTrades |-> 0]
    <3>1. \A n \in 1 .. MaxTrades : Due(<< <<o, 1>>, n>>)' = 0
      <4>1. \A n \in 1 .. MaxTrades : trades[<< <<o, 1>>, n>>] = 0
        BY <1>5, <2>3, <2>4
      <4> QED
        BY <1>1, <4>1 DEF Due
    <3>2. z \in [0 .. MaxTrades -> Nat] /\ Tally(<<o, 1>>, z)'
      BY <3>1, SizesAssumption DEF Tally
    <3>3. RecordOf(o)'.filled = 0 /\ exch'[<<o, 1>>].left = a
      BY <1>1, <1>2, <2>2, <2>4, TradeIdParts
    <3>4. RecordOf(o)'.filled + z[MaxTrades] + exch'[<<o, 1>>].left <= request'[o].qty
      BY <1>1, <3>3, SizesAssumption
    <3> QED
      BY <2>2, <2>4, <3>2, <3>4
  <2>5. CASE p # o
    <3>1. exch'[<<p, 1>>] = exch[<<p, 1>>]
      BY <1>2, <2>5, TradeIdParts
    <3>2. ASSUME Identified(p), exch'[<<p, 1>>].st # "none"
          PROVE  \E d \in [0 .. MaxTrades -> Nat] :
                   /\ Tally(<<p, 1>>, d)'
                   /\ RecordOf(p)'.filled + d[MaxTrades] + exch'[<<p, 1>>].left
                        <= request'[p].qty
      <4>1. PICK d \in [0 .. MaxTrades -> Nat] :
              /\ Tally(<<p, 1>>, d)
              /\ RecordOf(p).filled + d[MaxTrades] + exch[<<p, 1>>].left <= request[p].qty
        BY <1>1, <3>1, <3>2 DEF FillInv, QuantityInv
      <4>2. Tally(<<p, 1>>, d)'
        BY <2>1, <2>3, <4>1 DEF Tally
      <4> QED
        BY <1>1, <1>3, <3>1, <4>1, <4>2
    <3> QED
      BY <1>1, <2>2, <3>2 DEF Identified
  <2> QED
    BY <2>4, <2>5
<1>8. TrackInv'
  <2>1. \A p \in Oids : rest'[p] = "acked" => exch'[<<p, 1>>] = exch[<<p, 1>>]
                                             /\ rest[p] = "acked"
    BY <1>1, <1>2, TradeIdParts
  <2> QED
    BY <1>1, <1>3, <2>1 DEF FillInv, TrackInv, Identified
<1> QED
  BY <1>3, <1>6, <1>7, <1>8 DEF FillInv

\* A trade takes from what is left at the exchange what it makes due.
LEMMA FillTrade ==
  ASSUME IInv, IInv', FillInv, NEW x \in LiveIds, NEW q, ExchangeTrade(x, q)
  PROVE  FillInv'
<1>0. PICK k \in 1 .. MaxTrades : k = exch[x].n + 1
  <2>1. /\ x \in ExIds /\ exch[x].st = "live" /\ exch[x].n \in Nat /\ exch[x].n < MaxTrades
    BY Ids, SizesAssumption DEF ExchangeTrade, IInv, TypeOK, ExchangeRecord, WorldInv
  <2> QED
    BY <2>1, SizesAssumption
<1>1. PICK e \in TradeIds : e = <<x, k>> /\ e[1] = x /\ e[2] = k
  BY Ids, TradeIdParts
<1>2. /\ x \in ExIds /\ exch[x].st = "live" /\ exch[x].left \in Nat /\ exch[x].n \in Nat
      /\ q \in 1 .. exch[x].left /\ q \in Nat
      /\ UNCHANGED <<slot, orders, processed, forgotten, seq, ctx, published, request, rest>>
  BY Ids, SizesAssumption DEF ExchangeTrade, omsState, IInv, TypeOK, ExchangeRecord
<1>3. /\ \A f \in TradeIds : trades'[f] = IF f = e THEN q ELSE trades[f]
      /\ \A y \in ExIds : y # x => exch'[y] = exch[y]
      /\ exch'[x] = [st |-> IF q = exch[x].left THEN "filled" ELSE "live",
                     left |-> exch[x].left - q, n |-> exch[x].n + 1]
  BY <1>0, <1>1, <1>2 DEF ExchangeTrade, IInv, TypeOK
<1>4. /\ DedupInv'
      /\ \A p \in Oids : /\ RecordOf(p)' = RecordOf(p)
                         /\ Cancellable(p)' <=> Cancellable(p)
      /\ \A f, u, pcs : Holds(u, f, pcs)' <=> Holds(u, f, pcs)
  BY <1>2, FillExchangeFrame
<1>5. trades[e] = 0
  <2>1. trades[e] # 0 => e[2] <= exch[e[1]].n
    BY DEF FillInv, TradeInv
  <2> QED
    BY <1>0, <1>1, <1>2, <2>1
<1>6. TradeInv'
  <2>1. ASSUME NEW u \in Threads, ctx[u].pc \in OnFillPcs, ~ Paper
        PROVE  ctx[u].qty = trades'[ctx[u].trade]
    <3>1. ctx[u].trade \in TradeIds /\ trades[ctx[u].trade] # 0
          /\ ctx[u].qty = trades[ctx[u].trade]
      BY <2>1, HeldTrade DEF FillInv, TradeInv
    <3> QED
      BY <1>3, <1>5, <3>1
  <2>2. \A y \in ExIds : /\ exch'[y].st # "none" => exch[y].st # "none"
                         /\ exch'[y].st = "none" => exch'[y] = exch[y]
                         /\ exch'[y].st = "live" => exch'[y].left > 0
    <3>1. exch'[x].st \in {"filled", "live"}
          /\ (exch'[x].st = "live" => exch[x].left - q > 0 /\ exch'[x].left = exch[x].left - q)
      BY <1>2, <1>3
    <3> QED
      BY <1>2, <1>3, <3>1 DEF FillInv, TradeInv
  <2>3. \A f \in TradeIds : trades'[f] # 0 => f[2] <= exch'[f[1]].n
    <3> SUFFICES ASSUME NEW f \in TradeIds, trades'[f] # 0 PROVE f[2] <= exch'[f[1]].n
      OBVIOUS
    <3>0. exch'[x].n = exch[x].n + 1 /\ f[1] \in ExIds /\ f[2] \in Nat
      BY <1>3, TradeIdParts, SizesAssumption
    <3>1. CASE f = e
      BY <1>0, <1>1, <1>2, <3>0, <3>1
    <3>2. CASE f # e
      <4>1. f[2] <= exch[f[1]].n
        BY <1>3, <3>2 DEF FillInv, TradeInv
      <4>2. CASE f[1] = x
        BY <1>2, <3>0, <4>1, <4>2
      <4>3. CASE f[1] # x
        BY <1>3, <3>0, <4>1, <4>3
      <4> QED
        BY <4>2, <4>3
    <3> QED
      BY <3>1, <3>2
  <2> QED
    BY <1>2, <2>1, <2>2, <2>3 DEF FillInv, TradeInv
<1>7. QuantityInv'
  <2> SUFFICES ASSUME NEW p \in Oids, orders'[p] # Null, ~ Paper PROVE QuantityInv!(p)!2'
    BY DEF QuantityInv
  <2>1. \A f \in TradeIds : f # e => Due(f)' = Due(f)
    BY <1>2, <1>3, <1>4 DEF Due
  <2>2. Due(e) = 0 /\ Due(e)' \in Nat /\ Due(e)' <= q
    BY <1>2, <1>3, <1>5 DEF Due
  <2>3. rest'[p] \in {"idle", "sent", "accepted"} => RecordOf(p)'.filled = 0
    BY <1>2, <1>4 DEF FillInv, QuantityInv
  <2>4. <<p, 1>> \in ExIds /\ \A n \in 1 .. MaxTrades : << <<p, 1>>, n>> \in TradeIds
    BY TradeIdParts
  <2>5. ASSUME Identified(p), exch'[<<p, 1>>].st # "none"
        PROVE  \E d \in [0 .. MaxTrades -> Nat] :
                 /\ Tally(<<p, 1>>, d)'
                 /\ RecordOf(p)'.filled + d[MaxTrades] + exch'[<<p, 1>>].left
                      <= request'[p].qty
    <3>1. exch[<<p, 1>>].st # "none"
      BY <1>2, <1>3, <2>4, <2>5
    <3>2. PICK d \in [0 .. MaxTrades -> Nat] :
            /\ Tally(<<p, 1>>, d)
            /\ RecordOf(p).filled + d[MaxTrades] + exch[<<p, 1>>].left <= request[p].qty
      BY <1>2, <2>5, <3>1 DEF FillInv, QuantityInv
    <3>3. CASE x # <<p, 1>>
      <4>1. \A n \in 1 .. MaxTrades : << <<p, 1>>, n>> # e
        BY <1>1, <3>3
      <4>2. Tally(<<p, 1>>, d)'
        BY <2>1, <2>4, <3>2, <4>1 DEF Tally
      <4> QED
        BY <1>2, <1>3, <1>4, <2>4, <3>2, <3>3, <4>2
    <3>4. CASE x = <<p, 1>>
      <4>1. \A n \in 1 .. MaxTrades : n # k => << <<p, 1>>, n>> # e
        BY <1>1
      <4>2. \A n \in 1 .. MaxTrades : /\ Due(<< <<p, 1>>, n>>) \in Nat
                                      /\ Due(<< <<p, 1>>, n>>)' \in Nat
        BY <2>4, DueType DEF IInv, TypeOK, Due
      <4>3. PICK c \in [0 .. MaxTrades -> Nat] :
              /\ Tally(<<p, 1>>, c)'
              /\ c[MaxTrades] = d[MaxTrades] - Due(<< <<p, 1>>, k>>) + Due(<< <<p, 1>>, k>>)'
        BY <2>1, <2>4, <3>2, <4>1, <4>2, TallyChange
      <4>4. c[MaxTrades] = d[MaxTrades] - 0 + Due(e)'
        BY <1>1, <2>2, <3>4, <4>3
      <4>5. MaxTrades \in 0 .. MaxTrades
        BY SizesAssumption
      <4>6. PICK f \in Nat, l \in Nat, r \in Nat, b \in Nat, w \in Nat :
              /\ f = RecordOf(p).filled /\ l = exch[x].left /\ r = request[p].qty
              /\ b = d[MaxTrades] /\ w = Due(e)'
        <5>1. orders[p] \in Slots
          BY <1>2 DEF IInv, TypeOK
        <5>2. RecordOf(p).filled \in Nat /\ request[p].qty \in Nat
          BY <5>1 DEF RecordOf, IInv, TypeOK, OrderRecord, RequestRecord
        <5> QED
          BY <1>2, <2>2, <4>5, <5>2
      <4>7. f + b + l <= r /\ w <= q /\ c[MaxTrades] = b + w /\ exch'[x].left = l - q
        BY <1>3, <2>2, <3>2, <3>4, <4>4, <4>6
      <4>8. f + (b + w) + (l - q) <= r
        BY <1>2, <4>7
      <4>9. RecordOf(p)'.filled + c[MaxTrades] + exch'[<<p, 1>>].left <= request'[p].qty
        BY <1>2, <1>4, <3>4, <4>6, <4>7, <4>8
      <4> QED
        BY <4>3, <4>9
    <3> QED
      BY <3>3, <3>4
  <2> QED
    BY <1>2, <2>3, <2>5 DEF Identified
<1>8. TrackInv'
  <2>1. \A p \in Oids : exch'[<<p, 1>>].st = "live" => exch[<<p, 1>>].st = "live"
    BY <1>2, <1>3, TradeIdParts
  <2> QED
    BY <1>2, <1>4, <2>1 DEF FillInv, TrackInv, Identified
<1> QED
  BY <1>4, <1>6, <1>7, <1>8 DEF FillInv

\* An exchange order ends without a trade.
LEMMA FillExchangeEnds ==
  ASSUME IInv, IInv', FillInv, NEW x \in LiveIds, ExchangeReject(x) \/ ExchangeCancel(x)
  PROVE  FillInv'
<1>1. /\ UNCHANGED <<slot, orders, processed, forgotten, seq, ctx, published, request, rest, trades>>
      /\ x \in ExIds /\ exch[x].st = "live" /\ exch[x] \in ExchangeRecord
  BY Ids DEF ExchangeReject, ExchangeCancel, omsState, IInv, TypeOK
<1>2. PICK s \in {"rejected", "cancelled"} : exch' = [exch EXCEPT ![x].st = s]
  BY DEF ExchangeReject, ExchangeCancel
<1>3. \A y \in ExIds : /\ exch'[y].left = exch[y].left /\ exch'[y].n = exch[y].n
                       /\ exch'[y].st = IF y = x THEN s ELSE exch[y].st
  BY <1>1, <1>2 DEF IInv, TypeOK, ExchangeRecord
<1>4. /\ DedupInv'
      /\ \A p \in Oids : /\ RecordOf(p)' = RecordOf(p)
                         /\ Cancellable(p)' <=> Cancellable(p)
      /\ \A f, u, pcs : Holds(u, f, pcs)' <=> Holds(u, f, pcs)
  BY <1>1, FillExchangeFrame
<1>5. TradeInv'
  <2>1. \A y \in ExIds : /\ exch'[y].st # "none" => exch[y].st # "none"
                         /\ exch'[y].st = "none" => exch[y].st = "none"
                         /\ exch'[y].st = "live" => exch[y].st = "live"
    BY <1>1, <1>3
  <2> QED
    BY <1>1, <1>3, <2>1, Ids DEF FillInv, TradeInv
<1>6. QuantityInv'
  <2> SUFFICES ASSUME NEW p \in Oids, orders'[p] # Null, ~ Paper PROVE QuantityInv!(p)!2'
    BY DEF QuantityInv
  <2>1. \A e \in TradeIds : Due(e)' = Due(e)
    BY <1>1, <1>4 DEF Due
  <2>2. rest'[p] \in {"idle", "sent", "accepted"} => RecordOf(p)'.filled = 0
    BY <1>1, <1>4 DEF FillInv, QuantityInv
  <2>3. <<p, 1>> \in ExIds /\ \A n \in 1 .. MaxTrades : << <<p, 1>>, n>> \in TradeIds
    BY TradeIdParts
  <2>4. ASSUME Identified(p), exch'[<<p, 1>>].st # "none"
        PROVE  \E d \in [0 .. MaxTrades -> Nat] :
                 /\ Tally(<<p, 1>>, d)'
                 /\ RecordOf(p)'.filled + d[MaxTrades] + exch'[<<p, 1>>].left
                      <= request'[p].qty
    <3>1. exch[<<p, 1>>].st # "none"
      BY <1>1, <1>3, <2>3, <2>4
    <3>2. PICK d \in [0 .. MaxTrades -> Nat] :
            /\ Tally(<<p, 1>>, d)
            /\ RecordOf(p).filled + d[MaxTrades] + exch[<<p, 1>>].left <= request[p].qty
      BY <1>1, <2>4, <3>1 DEF FillInv, QuantityInv
    <3>3. Tally(<<p, 1>>, d)'
      BY <2>1, <2>3, <3>2 DEF Tally
    <3> QED
      BY <1>1, <1>3, <1>4, <2>3, <3>2, <3>3
  <2> QED
    BY <1>1, <2>2, <2>4 DEF Identified
<1>7. TrackInv'
  <2>1. \A p \in Oids : exch'[<<p, 1>>].st = "live" => exch[<<p, 1>>].st = "live"
    BY <1>3, TradeIdParts
  <2> QED
    BY <1>1, <1>4, <2>1 DEF FillInv, TrackInv, Identified
<1> QED
  BY <1>4, <1>5, <1>6, <1>7 DEF FillInv

-----------------------------------------------------------------------------
(* Theorems about fills *)

LEMMA FillInit == Init => FillInv
<1> SUFFICES ASSUME Init PROVE FillInv
  OBVIOUS
<1>1. /\ \A t \in Threads : ctx[t].pc = "idle"
      /\ \A o \in Oids : orders[o] = Null /\ rest[o] = "idle"
      /\ \A e \in TradeIds : published[e] = 0 /\ trades[e] = 0
      /\ \A x \in ExIds : exch[x].st = "none" /\ exch[x].n = 0
  BY DEF Init, Idle
<1>2. \A e \in TradeIds : ~ Known(e) /\ e[1][1] \in Oids
  BY <1>1, TradeIdParts DEF Known, Holds, OnFillPcs, FillPcs
<1>3. DedupInv
  BY <1>1, <1>2 DEF DedupInv, Holds, ApplyPcs, OnFillPcs, FillPcs
<1>4. TradeInv
  BY <1>1 DEF TradeInv, OnFillPcs, FillPcs
<1>5. QuantityInv /\ TrackInv
  BY <1>1 DEF QuantityInv, TrackInv
<1> QED
  BY <1>3, <1>4, <1>5 DEF FillInv

LEMMA FillInductive ==
  ASSUME IInv, IInv', FillInv, [Next]_vars
  PROVE  FillInv'
<1>1. ASSUME NEW t \in Threads, Continue(t) \/ FillPublish(t)
      PROVE  FillInv'
  <2>1. CASE SubmitInsert(t)
    BY <2>1, FillInsert
  <2>2. CASE PaperAck(t)
    BY <2>2, FillPaperAck
  <2>3. CASE PaperFill(t)
    BY <2>3, FillPaper
  <2>4. CASE SubmitPlace(t)
    BY <2>4, FillPlace
  <2>5. CASE FillLookup(t)
    BY <2>5, FillLooksUp
  <2>6. CASE FillBuild(t)
    BY <2>6, FillBuilds
  <2>7. CASE FillUpdate(t)
    BY <2>7, FillUpdates
  <2>8. CASE CancelSend(t)
    <3>1. /\ UNCHANGED <<slot, orders, processed, forgotten, seq, published, request, rest, exch, trades>>
          /\ ctx[t].pc = "cancel" /\ ctx'[t].pc = "idle"
          /\ \A u \in Threads : u # t => ctx'[u] = ctx[u]
      BY <2>8 DEF CancelSend, omsState, IInv, TypeOK, Idle
    <3> QED
      BY <3>1, FillQuiet
  <2>9. CASE FillPublish(t)
    BY <2>9, FillPublishes
  <2> QED
    BY <1>1, <2>1, <2>2, <2>3, <2>4, <2>5, <2>6, <2>7, <2>8, <2>9
    DEF Continue, Submit, SubmitRoute, FillStep
<1>2. ASSUME NEW t \in Threads, NEW o \in Oids, CancelFind(t, o)
      PROVE  FillInv'
  <2>1. /\ UNCHANGED <<slot, orders, processed, forgotten, seq, published, request, rest, exch, trades>>
        /\ ctx[t].pc = "idle" /\ ctx'[t].pc = "cancel"
        /\ \A u \in Threads : u # t => ctx'[u] = ctx[u]
    BY <1>2 DEF CancelFind, omsState, world, IInv, TypeOK, Idle
  <2> QED
    BY <2>1, FillQuiet
<1>3. ASSUME NEW t \in Strategies, StrategyCall(t)
      PROVE  FillInv'
  BY <1>2, <1>3, FillAcquire, Sets DEF StrategyCall, StrategyCancel
<1>4. ASSUME NEW t \in IOThreads, RestAnswer(t) \/ Feed(t)
      PROVE  FillInv'
  BY <1>4, FillRest, FillFeed, FillReject DEF RestAnswer, Feed
<1>5. ASSUME NEW o \in Oids, SweepCancel(o)
      PROVE  FillInv'
  <2>1. CASE CancelFind(Main, o)
    BY <1>2, <2>1, Sets
  <2>2. CASE UNCHANGED <<omsState, ctx, published, request, world>>
    BY <2>2, FillQuiet DEF omsState, world
  <2> QED
    BY <1>5, <2>1, <2>2 DEF SweepCancel
<1>6. CASE CancelAllOpen \/ UNCHANGED vars
  BY <1>6, FillQuiet DEF CancelAllOpen, vars, omsState, world
<1>7. CASE ResetForEod
  BY <1>7, FillReset
<1>8. CASE Exchange
  BY <1>8, FillAccept, FillTrade, FillExchangeEnds DEF Exchange
<1> QED
  BY <1>1, <1>3, <1>4, <1>5, <1>6, <1>7, <1>8 DEF Next, NextButPublish

LEMMA FillInvariance ==
  ASSUME SingleIOThread
  PROVE  Spec => [](IInv /\ FillInv)
<1>1. IInv /\ FillInv /\ [Next]_vars => IInv' /\ FillInv'
  BY InductiveInvariant, FillInductive
<1>2. Init => IInv /\ FillInv
  BY InitInvariant, FillInit
<1> QED
  BY <1>1, <1>2, PTL DEF Spec

\* However often the order feed repeats a trade, and however many threads run
\* on_fill, the trade is published once, also across any number of calls of
\* reset_for_eod, unless its order was still in orders_ when one of them forgot it.
THEOREM FillsAppliedOnce ==
  ASSUME SingleIOThread
  PROVE  Spec => []AppliedOnce
<1>1. IInv /\ FillInv => AppliedOnce
  BY DEF FillInv, DedupInv, AppliedOnce
<1> QED
  BY <1>1, FillInvariance, PTL

\* An acknowledged order that still works at the exchange is in both maps: no fill
\* that precedes its last trade completes and releases it, in any slicing, order of
\* callbacks and REST fault.
THEOREM WorkingOrdersTracked ==
  ASSUME SingleIOThread
  PROVE  Spec => []LiveOrderTracked
<1>1. IInv /\ FillInv => LiveOrderTracked
  <2> SUFFICES ASSUME IInv, FillInv, NEW o \in Oids, Identified(o), rest[o] = "acked",
                      exch[<<o, 1>>].st = "live"
               PROVE  orders[o] # Null /\ exchange_to_internal[<<o, 1>>] = o
    BY DEF LiveOrderTracked
  <2>1. Cancellable(o) /\ ~ Paper
    BY DEF FillInv, TrackInv, IInv, WorldInv
  <2> QED
    BY <2>1 DEF Cancellable, IInv, Ownership, MapInv, OwnId
<1> QED
  BY <1>1, FillInvariance, PTL
=============================================================================
