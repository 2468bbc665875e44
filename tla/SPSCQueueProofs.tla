-------------------------- MODULE SPSCQueueProofs --------------------------
(***************************************************************************)
(* For every capacity: used by one producer, or by several whose pushes do *)
(* not overlap, the ring buffer has no data race and implements a bounded  *)
(* queue.  No lock orders the accesses to data_; what does is QueueInv, in *)
(* which each side knows enough about the other one's next step.           *)
(***************************************************************************)
EXTENDS SPSCQueue, TLAPS

SingleProducer == \A p, q \in Producers : p = q

\* Two pushes never overlap, whoever makes them.
PushesApart ==
  \A p, q \in Producers : prod[p].pc # "idle" /\ prod[q].pc # "idle" => p = q

\* A push in progress holds the current write position, and from its check on
\* there is room; its slot holds the element when it stores the position.
ProducerInv ==
  \A p \in Producers :
    /\ prod[p].pc # "idle" => prod[p].w = write_pos /\ prod[p].item \in Items
    /\ prod[p].pc \in {"write", "store"} => NextPos(write_pos) # read_pos
    /\ prod[p].pc = "store" => data[write_pos] = prod[p].item

\* A pop in progress holds the current read position, the queue stays nonempty
\* under it, and its copy stays equal to the slot.
ConsumerInv ==
  /\ cons.pc # "idle" => cons.r = read_pos /\ read_pos # write_pos
  /\ cons.pc = "store" => cons.item = data[read_pos]

QueueInv == QueueTypeOK /\ ProducerInv /\ ConsumerInv

-----------------------------------------------------------------------------
(* Positions *)

LEMMA NextPosInjective ==
  ASSUME NEW i \in Positions, NEW j \in Positions, NextPos(i) = NextPos(j)
  PROVE  i = j
  BY CapacityAssumption DEF Positions, NextPos

LEMMA NextPosType ==
  ASSUME NEW i \in Positions
  PROVE  NextPos(i) \in Positions
  BY CapacityAssumption DEF Positions, NextPos

LEMMA DistanceType ==
  ASSUME NEW w \in Positions, NEW r \in Positions
  PROVE  /\ Distance(w, r) \in 0 .. Capacity - 1
         /\ Distance(w, r) = 0 <=> w = r
         /\ Distance(w, r) = Capacity - 1 <=> NextPos(w) = r
  BY CapacityAssumption DEF Positions, NextPos, Distance

LEMMA SlotOfType ==
  ASSUME NEW w \in Positions, NEW r \in Positions, NEW i \in 1 .. Distance(w, r)
  PROVE  SlotOf(r, i) \in Positions /\ SlotOf(r, i) # w
  BY CapacityAssumption DEF Positions, Distance, SlotOf

-----------------------------------------------------------------------------
(* The elements between two positions *)

LEMMA BetweenType ==
  ASSUME NEW w \in Positions, NEW r \in Positions,
         NEW S, NEW d \in [Positions -> S]
  PROVE  Between(w, r, d) \in Seq(S) /\ Len(Between(w, r, d)) = Distance(w, r)
<1>1. Distance(w, r) \in Nat
  BY DistanceType, CapacityAssumption
<1>2. \A i \in 1 .. Distance(w, r) : d[SlotOf(r, i)] \in S
  BY SlotOfType
<1>3. Between(w, r, d) \in [1 .. Distance(w, r) -> S]
  BY <1>2 DEF Between
<1> QED
  BY <1>1, <1>3

\* Storing write_pos_ appends the element of the slot it passes.
LEMMA BetweenAppend ==
  ASSUME NEW w \in Positions, NEW r \in Positions,
         NEW S, NEW d \in [Positions -> S], NextPos(w) # r
  PROVE  Between(NextPos(w), r, d) = Append(Between(w, r, d), d[w])
<1>1. Distance(NextPos(w), r) = Distance(w, r) + 1
  BY CapacityAssumption DEF Positions, NextPos, Distance
<1>2. SlotOf(r, Distance(w, r) + 1) = w
  BY CapacityAssumption DEF Positions, SlotOf, Distance
<1>3. Distance(w, r) \in Nat
  BY DistanceType, CapacityAssumption
<1>4. Between(w, r, d) \in Seq(S) /\ Len(Between(w, r, d)) = Distance(w, r)
  BY BetweenType
<1>5. /\ DOMAIN Append(Between(w, r, d), d[w]) = 1 .. Distance(w, r) + 1
      /\ \A i \in 1 .. Distance(w, r) :
           Append(Between(w, r, d), d[w])[i] = d[SlotOf(r, i)]
      /\ Append(Between(w, r, d), d[w])[Distance(w, r) + 1] = d[w]
  BY <1>3, <1>4 DEF Between
<1>6. \A i \in 1 .. Distance(w, r) + 1 :
        Append(Between(w, r, d), d[w])[i] = d[SlotOf(r, i)]
  BY <1>2, <1>3, <1>5
<1>7. Append(Between(w, r, d), d[w]) =
        [i \in 1 .. Distance(w, r) + 1 |-> Append(Between(w, r, d), d[w])[i]]
  BY <1>3, <1>4
<1> QED
  BY <1>1, <1>6, <1>7 DEF Between

\* Storing read_pos_ drops the element of the slot it passes.
LEMMA BetweenTail ==
  ASSUME NEW w \in Positions, NEW r \in Positions,
         NEW S, NEW d \in [Positions -> S], w # r
  PROVE  /\ Between(w, r, d) # << >>
         /\ Head(Between(w, r, d)) = d[r]
         /\ Between(w, NextPos(r), d) = Tail(Between(w, r, d))
<1>1. Distance(w, r) \in Nat \ {0} /\ Distance(w, NextPos(r)) = Distance(w, r) - 1
  BY CapacityAssumption DEF Positions, NextPos, Distance
<1>2. \A i \in 1 .. Distance(w, r) - 1 : SlotOf(NextPos(r), i) = SlotOf(r, i + 1)
  BY <1>1, CapacityAssumption DEF Positions, NextPos, SlotOf, Distance
<1>3. SlotOf(r, 1) = r
  BY CapacityAssumption DEF Positions, SlotOf
<1>4. Between(w, r, d) \in Seq(S) /\ Len(Between(w, r, d)) = Distance(w, r)
  BY BetweenType
<1>5. Between(w, r, d) # << >> /\ Head(Between(w, r, d)) = d[r]
  BY <1>1, <1>3, <1>4 DEF Between
<1>6. /\ Tail(Between(w, r, d)) =
           [i \in 1 .. Distance(w, r) - 1 |-> Between(w, r, d)[i + 1]]
      /\ \A i \in 1 .. Distance(w, r) - 1 :
           Between(w, r, d)[i + 1] = d[SlotOf(r, i + 1)]
  BY <1>1, <1>4 DEF Between
<1> QED
  BY <1>1, <1>2, <1>5, <1>6 DEF Between

\* Writing the free slot does not disturb them.
LEMMA BetweenWrite ==
  ASSUME NEW w \in Positions, NEW r \in Positions, NEW d, NEW e,
         \A i \in Positions : i # w => e[i] = d[i]
  PROVE  Between(w, r, e) = Between(w, r, d)
  BY SlotOfType DEF Between

-----------------------------------------------------------------------------
(* The inductive invariant *)

LEMMA InitQueueInv == QueueInit => QueueInv
  BY CapacityAssumption
  DEF QueueInit, QueueInv, QueueTypeOK, ProducerInv, ConsumerInv, Positions,
      IdleProducer, IdleConsumer

LEMMA NextQueueInv ==
  ASSUME PushesApart, QueueInv, [QueueNext]_queueVars
  PROVE  QueueInv'
<1> USE DEF QueueInv
<1>1. ASSUME NEW p \in Producers, NEW v \in Items, PushLoad(p, v)
      PROVE  QueueInv'
  BY <1>1 DEF PushLoad, QueueTypeOK, ProducerInv, ConsumerInv
<1>2. ASSUME NEW p \in Producers, PushFull(p)
      PROVE  QueueInv'
  BY <1>2, CapacityAssumption
  DEF PushFull, QueueTypeOK, ProducerInv, ConsumerInv, IdleProducer, Positions
<1>3. ASSUME NEW p \in Producers, PushRoom(p)
      PROVE  QueueInv'
  BY <1>3 DEF PushRoom, QueueTypeOK, ProducerInv, ConsumerInv
<1>4. ASSUME NEW p \in Producers, PushWrite(p)
      PROVE  QueueInv'
  BY <1>4 DEF PushWrite, QueueTypeOK, ProducerInv, ConsumerInv, PushesApart
<1>5. ASSUME NEW p \in Producers, PushStore(p)
      PROVE  QueueInv'
  <2>1. write_pos' \in Positions
    BY <1>5, NextPosType DEF PushStore, QueueTypeOK
  <2>2. QueueTypeOK'
    BY <1>5, <2>1, CapacityAssumption
    DEF PushStore, QueueTypeOK, IdleProducer, Positions
  <2>3. ProducerInv'
    BY <1>5 DEF PushStore, QueueTypeOK, ProducerInv, IdleProducer, PushesApart
  <2>4. ConsumerInv'
    BY <1>5 DEF PushStore, QueueTypeOK, ProducerInv, ConsumerInv
  <2> QED
    BY <2>2, <2>3, <2>4
<1>6. ASSUME PopEmpty
      PROVE  QueueInv'
  BY <1>6 DEF PopEmpty, QueueTypeOK, ProducerInv, ConsumerInv
<1>7. ASSUME PopCheck
      PROVE  QueueInv'
  BY <1>7 DEF PopCheck, QueueTypeOK, ProducerInv, ConsumerInv
<1>8. ASSUME PopRead
      PROVE  QueueInv'
  BY <1>8 DEF PopRead, QueueTypeOK, ProducerInv, ConsumerInv
<1>9. ASSUME PopStore
      PROVE  QueueInv'
  <2>1. read_pos' \in Positions
    BY <1>9, NextPosType DEF PopStore, QueueTypeOK
  <2>2. QueueTypeOK'
    BY <1>9, <2>1, CapacityAssumption
    DEF PopStore, QueueTypeOK, IdleConsumer, Positions
  <2>3. NextPos(write_pos) # read_pos'
    BY <1>9, NextPosInjective DEF PopStore, QueueTypeOK, ConsumerInv
  <2>4. ProducerInv'
    BY <1>9, <2>3 DEF PopStore, QueueTypeOK, ProducerInv
  <2>5. ConsumerInv'
    BY <1>9 DEF PopStore, ConsumerInv, IdleConsumer
  <2> QED
    BY <2>2, <2>4, <2>5
<1>10. ASSUME UNCHANGED queueVars
       PROVE  QueueInv'
  BY <1>10 DEF queueVars, QueueTypeOK, ProducerInv, ConsumerInv
<1> QED
  BY <1>1, <1>2, <1>3, <1>4, <1>5, <1>6, <1>7, <1>8, <1>9, <1>10
  DEF QueueNext, PushStep, PopStep

\* Of the queue alone: QueueInv needs of its callers that pushes do not overlap.
THEOREM QueueInvariant == QueueSpec /\ []PushesApart => []QueueInv
<1>1. PushesApart /\ QueueInv /\ [QueueNext]_queueVars => QueueInv'
  BY NextQueueInv
<1> QED
  BY InitQueueInv, <1>1, PTL DEF QueueSpec

LEMMA OneProducerApart == ASSUME SingleProducer PROVE QueueSpec => []PushesApart
<1>1. PushesApart
  BY DEF SingleProducer, PushesApart
<1> QED
  BY <1>1, PTL

\* While pushes do not overlap, no slot of data_ is accessed by two threads at once.
THEOREM ApartRaceFree == QueueSpec /\ []PushesApart => []NoDataRace
<1>1. QueueInv /\ PushesApart => NoDataRace
  BY DEF QueueInv, ProducerInv, ConsumerInv, NoDataRace, PushesApart
<1> QED
  BY <1>1, QueueInvariant, PTL

\* With one producer and one consumer no slot of data_ is accessed by both sides
\* at once, for every capacity.
THEOREM RaceFree == ASSUME SingleProducer PROVE QueueSpec => []NoDataRace
  BY OneProducerApart, ApartRaceFree, PTL

-----------------------------------------------------------------------------
(* Refinement *)

LEMMA InitRefines == QueueInit => Abstract!FIFOInit
<1>1. QueueInit => Contents = << >>
  BY CapacityAssumption DEF QueueInit, Contents, Between, Distance
<1> QED
  BY <1>1 DEF QueueInit, Abstract!FIFOInit

LEMMA NextRefines ==
  ASSUME QueueInv, [QueueNext]_queueVars
  PROVE  [Abstract!FIFONext]_Abstract!fifoVars
<1> DEFINE S == Items \cup {Nil}
<1>0. /\ write_pos \in Positions /\ read_pos \in Positions
      /\ data \in [Positions -> S]
      /\ Contents \in Seq(S) /\ Len(Contents) = size
      /\ size \in 0 .. Capacity - 1
  <2>1. /\ write_pos \in Positions /\ read_pos \in Positions
        /\ data \in [Positions -> S]
    BY DEF QueueInv, QueueTypeOK
  <2>2. Contents \in Seq(S) /\ Len(Contents) = size
    BY <2>1, BetweenType DEF Contents, size
  <2> QED
    BY <2>1, <2>2, DistanceType DEF size
<1>1. ASSUME NEW p \in Producers, NEW v \in Items, PushLoad(p, v)
      PROVE  UNCHANGED Abstract!fifoVars
  BY <1>1 DEF PushLoad, Abstract!fifoVars, Contents
<1>2. ASSUME NEW p \in Producers, PushFull(p)
      PROVE  Abstract!PutRefused
  BY <1>0, <1>2, DistanceType
  DEF PushFull, Abstract!PutRefused, QueueInv, ProducerInv, Contents, size
<1>3. ASSUME NEW p \in Producers, PushRoom(p)
      PROVE  UNCHANGED Abstract!fifoVars
  BY <1>3 DEF PushRoom, Abstract!fifoVars, Contents
<1>4. ASSUME NEW p \in Producers, PushWrite(p)
      PROVE  UNCHANGED Abstract!fifoVars
  <2>1. \A i \in Positions : i # write_pos => data'[i] = data[i]
    BY <1>0, <1>4 DEF PushWrite, QueueInv, ProducerInv
  <2>2. Between(write_pos, read_pos, data') = Between(write_pos, read_pos, data)
    BY <1>0, <2>1, BetweenWrite
  <2> QED
    BY <1>4, <2>2 DEF PushWrite, Abstract!fifoVars, Contents
<1>5. ASSUME NEW p \in Producers, PushStore(p)
      PROVE  \E v \in Items : Abstract!Put(v)
  <2>1. /\ write_pos' = NextPos(write_pos) /\ NextPos(write_pos) # read_pos
        /\ data[write_pos] \in Items
        /\ UNCHANGED <<read_pos, data, got>> /\ answer' = "ok"
    BY <1>5 DEF PushStore, QueueInv, ProducerInv
  <2>2. Contents' = Append(Contents, data[write_pos])
    BY <1>0, <2>1, BetweenAppend DEF Contents
  <2>3. Len(Contents) < Capacity - 1
    BY <1>0, <2>1, DistanceType, CapacityAssumption DEF size
  <2> QED
    BY <2>1, <2>2, <2>3 DEF Abstract!Put
<1>6. ASSUME PopEmpty
      PROVE  Abstract!GetNothing
  <2>1. Len(Contents) = 0
    BY <1>0, <1>6, DistanceType DEF PopEmpty, size
  <2>2. Contents = << >>
    BY <1>0, <2>1
  <2> QED
    BY <1>6, <2>2 DEF PopEmpty, Abstract!GetNothing, Contents
<1>7. ASSUME PopCheck
      PROVE  UNCHANGED Abstract!fifoVars
  BY <1>7 DEF PopCheck, Abstract!fifoVars, Contents
<1>8. ASSUME PopRead
      PROVE  UNCHANGED Abstract!fifoVars
  BY <1>8 DEF PopRead, Abstract!fifoVars, Contents
<1>9. ASSUME PopStore
      PROVE  Abstract!Get
  <2>1. /\ read_pos' = NextPos(read_pos) /\ read_pos # write_pos
        /\ got' = data[read_pos]
        /\ UNCHANGED <<write_pos, data, answer>>
    BY <1>9 DEF PopStore, QueueInv, ConsumerInv
  <2> QED
    BY <1>0, <2>1, BetweenTail DEF Abstract!Get, Contents
<1>10. ASSUME UNCHANGED queueVars
       PROVE  UNCHANGED Abstract!fifoVars
  BY <1>10 DEF queueVars, Abstract!fifoVars, Contents
<1> QED
  BY <1>1, <1>2, <1>3, <1>4, <1>5, <1>6, <1>7, <1>8, <1>9, <1>10
  DEF QueueNext, PushStep, PopStep, Abstract!FIFONext

\* The two together, for whoever calls the queue: while pushes do not overlap, a step
\* keeps the invariant and is one of the bounded queue.
LEMMA CalledQueue ==
  /\ QueueInit => QueueInv /\ Abstract!FIFOInit
  /\ PushesApart /\ QueueInv /\ [QueueNext]_queueVars
       => QueueInv' /\ [Abstract!FIFONext]_Abstract!fifoVars
  /\ PushesApart /\ QueueInv => NoDataRace
<1>1. PushesApart /\ QueueInv => NoDataRace
  BY DEF QueueInv, ProducerInv, ConsumerInv, NoDataRace, PushesApart
<1> QED
  BY <1>1, InitQueueInv, InitRefines, NextQueueInv, NextRefines

\* For every capacity: while pushes do not overlap, push and pop look like the
\* one-step operations of a bounded queue, whichever thread pushes.
THEOREM ApartImplementsFIFO == QueueSpec /\ []PushesApart => ImplementsFIFO
<1>1. QueueInv /\ [QueueNext]_queueVars => [Abstract!FIFONext]_Abstract!fifoVars
  BY NextRefines
<1> QED
  BY InitRefines, <1>1, QueueInvariant, PTL DEF QueueSpec, ImplementsFIFO, Abstract!FIFOSpec

\* For every capacity, the ring buffer used by one producer and one consumer
\* implements a bounded queue: its calls are linearizable.
THEOREM ImplementsBoundedFIFO == ASSUME SingleProducer PROVE QueueSpec => ImplementsFIFO
  BY OneProducerApart, ApartImplementsFIFO, PTL
=============================================================================
