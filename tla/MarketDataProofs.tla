-------------------------- MODULE MarketDataProofs --------------------------
(***************************************************************************)
(* What the strategies see of the disruptor, for every size of the ring    *)
(* and any number of consumers; and that the whole market data path keeps  *)
(* this, and builds candles that hold every tick once, in order, and show  *)
(* what is in them.                                                        *)
(***************************************************************************)
EXTENDS MarketData, FiniteSetTheorems, TLAPS

\* Slot i is being written for producer_seq.
InWork(i) == pub.pc \in {"writing", "written"} /\ i = SlotOf(producer_seq)

\* The publisher has the last tick of the history in hand, and its number is not
\* yet in the slot.
PublisherInv ==
  /\ Len(history) = producer_seq + 1
  /\ pub.pc # "idle" =>
       /\ producer_seq >= 0
       /\ pub.tick = history[producer_seq + 1]
       /\ slot_sequence[SlotOf(producer_seq)] < producer_seq

\* A slot holds the tick of its number, and only numbers that belong there.
SlotInv ==
  \A i \in Ring :
    /\ slot_sequence[i] >= 0 => SlotOf(slot_sequence[i]) = i
    /\ slot_sequence[i] >= 0 /\ ~ InWork(i) =>
         slot_tick[i] = history[slot_sequence[i] + 1]
    /\ InWork(i) => slot_tick[i] = IF pub.pc = "writing" THEN Torn ELSE pub.tick

\* A consumer that saw its tick published finds it, or a later one, in the slot.
ConsumerInv ==
  \A c \in Consumers :
    /\ c \notin lapped => producer_seq - cursor[c] <= BUFFER_SIZE
    /\ take[c].pc \in {"ready", "reading"} =>
         slot_sequence[SlotOf(NextSeq(c))] >= NextSeq(c)
    /\ take[c].pc = "reading" /\ c \notin lapped =>
         take[c].out = history[NextSeq(c) + 1]
    /\ take[c].pc = "taken" => cursor[c] >= 0
    /\ take[c].pc = "reading" /\ take[c].out # Torn =>
         \E n \in DOMAIN history : n > NextSeq(c) /\ take[c].out = history[n]

DisruptorInv ==
  DisruptorTypeOK /\ PublisherInv /\ SlotInv /\ ConsumerInv
    /\ DeliveredInOrder /\ NeverOutdated

-----------------------------------------------------------------------------
\* Two numbers less than a lap apart share a slot only if they are equal.
LEMMA SameSlot ==
  ASSUME NEW a \in Nat, NEW b \in Nat, a <= b, b - a < BUFFER_SIZE,
         SlotOf(a) = SlotOf(b)
  PROVE  a = b
<1> DEFINE N == BUFFER_SIZE
           k == b \div N - a \div N
<1>1. N \in Nat /\ N > 0
  BY RingAssumption
<1>2. /\ a = N * (a \div N) + (a % N)
      /\ b = N * (b \div N) + (b % N)
      /\ a \div N \in Int /\ b \div N \in Int
      /\ a % N = b % N /\ a % N \in Int
  BY <1>1 DEF SlotOf
<1>3. k \in Int /\ b - a = N * (b \div N) - N * (a \div N)
  BY <1>2, <1>1
<1>4. N * k = N * (b \div N) - N * (a \div N)
  BY <1>1, <1>2
<1> HIDE DEF k
<1>5. b - a = N * k
  BY <1>3, <1>4
<1>6. k >= 1 => N * k >= N
  BY <1>1, <1>3
<1>7. k <= -1 => N * k <= -N
  BY <1>1, <1>3
<1>8. k = 0
  BY <1>1, <1>3, <1>5, <1>6, <1>7
<1> QED
  BY <1>1, <1>5, <1>8

\* Every sequence number has its slot.
LEMMA SlotInRing == ASSUME NEW seq \in Nat PROVE SlotOf(seq) \in Ring
  BY RingAssumption DEF SlotOf, Ring

\* Init
LEMMA InitInv == DisruptorInit => DisruptorInv
<1> SUFFICES ASSUME DisruptorInit PROVE DisruptorInv
  OBVIOUS
<1> USE RingAssumption DEF DisruptorInit
<1>1. DisruptorTypeOK
  BY DEF DisruptorTypeOK
<1>2. PublisherInv
  BY DEF PublisherInv
<1>3. SlotInv
  BY DEF SlotInv, InWork
<1>4. ConsumerInv
  BY DEF ConsumerInv
<1>5. DeliveredInOrder /\ NeverOutdated
  BY DEF DeliveredInOrder, NeverOutdated
<1> QED
  BY <1>1, <1>2, <1>3, <1>4, <1>5 DEF DisruptorInv

-----------------------------------------------------------------------------
\* What a consumer is about to read has been claimed.
LEMMA ReadyRange ==
  ASSUME DisruptorInv, NEW c \in Consumers, take[c].pc \in {"ready", "reading"}
  PROVE  /\ NextSeq(c) \in 0 .. producer_seq
         /\ SlotOf(NextSeq(c)) \in Ring
         /\ slot_sequence[SlotOf(NextSeq(c))] \in NextSeq(c) .. producer_seq
<1>1. DisruptorTypeOK /\ ConsumerInv
  BY DEF DisruptorInv
<1>2. NextSeq(c) \in Nat /\ producer_seq \in Int
  BY <1>1 DEF NextSeq, DisruptorTypeOK
<1>3. SlotOf(NextSeq(c)) \in Ring
  BY <1>2, SlotInRing
<1>4. slot_sequence[SlotOf(NextSeq(c))] \in -1 .. producer_seq
  BY <1>1, <1>3 DEF DisruptorTypeOK
<1> QED
  BY <1>1, <1>2, <1>3, <1>4 DEF ConsumerInv

\* The publisher is not at the slot that a consumer which was never lapped reads,
\* and the slot holds the consumer's tick.
LEMMA UnlappedSlot ==
  ASSUME DisruptorInv, NEW c \in Consumers, take[c].pc \in {"ready", "reading"},
         c \notin lapped
  PROVE  /\ slot_tick[SlotOf(NextSeq(c))] = history[NextSeq(c) + 1]
         /\ pub.pc # "idle" => SlotOf(NextSeq(c)) # SlotOf(producer_seq)
<1> DEFINE next == NextSeq(c)
           i    == SlotOf(next)
<1>1. DisruptorTypeOK /\ PublisherInv /\ SlotInv /\ ConsumerInv
  BY DEF DisruptorInv
<1>2. next \in 0 .. producer_seq /\ i \in Ring /\ slot_sequence[i] \in next .. producer_seq
  BY ReadyRange
<1>3. producer_seq - next < BUFFER_SIZE /\ next \in Nat /\ producer_seq \in Nat
  BY <1>1, <1>2, RingAssumption DEF ConsumerInv, NextSeq, DisruptorTypeOK
<1>4. slot_sequence[i] = next
  <2>1. SlotOf(slot_sequence[i]) = SlotOf(next)
    BY <1>1, <1>2 DEF SlotInv
  <2>2. slot_sequence[i] \in Nat /\ next <= slot_sequence[i] /\ slot_sequence[i] - next < BUFFER_SIZE
    BY <1>2, <1>3, RingAssumption
  <2> HIDE DEF next, i
  <2> QED
    BY <2>1, <2>2, <1>3, SameSlot
<1>5. pub.pc # "idle" => i # SlotOf(producer_seq)
  <2> SUFFICES ASSUME pub.pc # "idle", i = SlotOf(producer_seq) PROVE FALSE
    OBVIOUS
  <2>1. next = producer_seq
    <3> HIDE DEF next
    <3> QED
      BY <1>2, <1>3, SameSlot
  <2> QED
    BY <2>1, <1>1, <1>4, <1>3 DEF PublisherInv
<1>6. ~ InWork(i)
  BY <1>5 DEF InWork
<1>7. slot_tick[i] = history[slot_sequence[i] + 1]
  BY <1>6, <1>1, <1>2 DEF SlotInv
<1> QED
  BY <1>4, <1>5, <1>7

\* Any consumer finds its tick, a later one, or one in pieces.
LEMMA SlotNotOlder ==
  ASSUME DisruptorInv, NEW c \in Consumers, take[c].pc \in {"ready", "reading"},
         slot_tick[SlotOf(NextSeq(c))] # Torn
  PROVE  \E n \in DOMAIN history :
           n > NextSeq(c) /\ slot_tick[SlotOf(NextSeq(c))] = history[n]
<1> DEFINE next == NextSeq(c)
           i    == SlotOf(next)
<1>1. DisruptorTypeOK /\ PublisherInv /\ SlotInv
  BY DEF DisruptorInv
<1>2. next \in 0 .. producer_seq /\ i \in Ring /\ slot_sequence[i] \in next .. producer_seq
  BY ReadyRange
<1>3. DOMAIN history = 1 .. producer_seq + 1 /\ producer_seq \in Int
  BY <1>1 DEF DisruptorTypeOK, PublisherInv
<1>4. CASE InWork(i)
  <2>1. pub.pc = "written" /\ slot_tick[i] = history[producer_seq + 1]
    BY <1>1, <1>2, <1>4 DEF InWork, SlotInv, PublisherInv
  <2>2. producer_seq + 1 \in DOMAIN history /\ producer_seq + 1 > next
    BY <1>2, <1>3
  <2> QED
    BY <2>1, <2>2
<1>5. CASE ~ InWork(i)
  <2>1. slot_tick[i] = history[slot_sequence[i] + 1]
    BY <1>1, <1>2, <1>5 DEF SlotInv
  <2>2. slot_sequence[i] + 1 \in DOMAIN history /\ slot_sequence[i] + 1 > next
    BY <1>2, <1>3
  <2> QED
    BY <2>1, <2>2
<1> QED
  BY <1>4, <1>5

-----------------------------------------------------------------------------
\* A claim extends the history; numbers that exist keep their ticks.
LEMMA ClaimPreserves ==
  ASSUME DisruptorInv, NEW tick \in Ticks, ClaimNext(tick)
  PROVE  DisruptorInv'
<1> USE DEF ClaimNext
<1>1. /\ DisruptorTypeOK /\ PublisherInv /\ SlotInv /\ ConsumerInv
      /\ DeliveredInOrder /\ NeverOutdated
  BY DEF DisruptorInv
<1>2. /\ producer_seq \in Nat \cup {-1} /\ producer_seq' = producer_seq + 1
      /\ history \in Seq(Ticks) /\ Len(history) = producer_seq + 1
      /\ history' = Append(history, tick)
  BY <1>1 DEF DisruptorTypeOK, PublisherInv
<1>3. /\ history' \in Seq(Ticks) /\ Len(history') = producer_seq' + 1
      /\ history'[producer_seq' + 1] = tick
      /\ \A n \in DOMAIN history : n \in DOMAIN history' /\ history'[n] = history[n]
      /\ \A n \in 0 .. producer_seq : history'[n + 1] = history[n + 1]
      /\ DOMAIN history = 1 .. producer_seq + 1
      /\ DOMAIN history' = 1 .. producer_seq' + 1
  BY <1>2
<1>4. DisruptorTypeOK'
  BY <1>1, <1>2, <1>3 DEF DisruptorTypeOK
<1>5. PublisherInv'
  <2>1. SlotOf(producer_seq') \in Ring
    BY <1>2, SlotInRing
  <2>2. slot_sequence[SlotOf(producer_seq')] < producer_seq'
    BY <2>1, <1>1, <1>2 DEF DisruptorTypeOK
  <2> QED
    BY <2>2, <1>2, <1>3 DEF PublisherInv, SlotOf
<1>6. SlotInv'
  <2> SUFFICES ASSUME NEW i \in Ring
               PROVE  /\ slot_sequence[i] >= 0 => SlotOf(slot_sequence[i]) = i
                      /\ slot_sequence[i] >= 0 => slot_tick[i] = history'[slot_sequence[i] + 1]
    BY DEF SlotInv, InWork, SlotOf
  <2>1. ~ InWork(i)
    BY DEF InWork
  <2>2. slot_sequence[i] \in -1 .. producer_seq
    BY <1>1 DEF DisruptorTypeOK
  <2> QED
    BY <2>1, <2>2, <1>1, <1>2, <1>3 DEF SlotInv
<1>7. ConsumerInv' /\ DeliveredInOrder' /\ NeverOutdated'
  <2> SUFFICES ASSUME NEW c \in Consumers
               PROVE  /\ c \notin lapped' => producer_seq' - cursor[c] <= BUFFER_SIZE
                      /\ take[c].pc \in {"ready", "reading"} =>
                           slot_sequence[SlotOf(NextSeq(c))] >= NextSeq(c)
                      /\ take[c].pc = "reading" /\ c \notin lapped' =>
                           take[c].out = history'[NextSeq(c) + 1]
                      /\ take[c].pc = "taken" => cursor[c] >= 0
                      /\ take[c].pc = "reading" /\ take[c].out # Torn =>
                           \E n \in DOMAIN history' : n > NextSeq(c) /\ take[c].out = history'[n]
                      /\ take[c].pc = "taken" /\ c \notin lapped' =>
                           /\ cursor[c] + 1 \in DOMAIN history'
                           /\ take[c].out = history'[cursor[c] + 1]
                      /\ take[c].pc = "taken" /\ take[c].out # Torn =>
                           \E n \in DOMAIN history' : n > cursor[c] /\ take[c].out = history'[n]
    BY DEF ConsumerInv, DeliveredInOrder, NeverOutdated, NextSeq, SlotOf
  <2>1. cursor[c] \in -1 .. producer_seq
    BY <1>1 DEF DisruptorTypeOK
  <2>2. c \notin lapped' => c \notin lapped /\ producer_seq' - cursor[c] <= BUFFER_SIZE
    BY <2>1, <1>2, RingAssumption
  <2>3. take[c].pc \in {"ready", "reading"} => NextSeq(c) \in 0 .. producer_seq
    BY ReadyRange
  <2>4. /\ take[c].pc \in {"ready", "reading"} =>
             slot_sequence[SlotOf(NextSeq(c))] >= NextSeq(c)
        /\ take[c].pc = "taken" => cursor[c] >= 0
    BY <1>1 DEF ConsumerInv
  <2>5. take[c].pc = "reading" /\ c \notin lapped' =>
          take[c].out = history'[NextSeq(c) + 1]
    BY <2>2, <2>3, <1>1, <1>3 DEF ConsumerInv
  <2>6. take[c].pc = "reading" /\ take[c].out # Torn =>
          \E n \in DOMAIN history' : n > NextSeq(c) /\ take[c].out = history'[n]
    BY <1>1, <1>3 DEF ConsumerInv
  <2>7. take[c].pc = "taken" /\ c \notin lapped' =>
          cursor[c] + 1 \in DOMAIN history' /\ take[c].out = history'[cursor[c] + 1]
    BY <2>2, <1>1, <1>3 DEF DeliveredInOrder
  <2>8. take[c].pc = "taken" /\ take[c].out # Torn =>
          \E n \in DOMAIN history' : n > cursor[c] /\ take[c].out = history'[n]
    BY <1>1, <1>3 DEF NeverOutdated
  <2> QED
    BY <2>2, <2>4, <2>5, <2>6, <2>7, <2>8
<1> QED
  BY <1>4, <1>5, <1>6, <1>7 DEF DisruptorInv

-----------------------------------------------------------------------------
\* The steps of publish concern one slot, which no consumer that was never lapped
\* is reading.
LEMMA PublishPreserves ==
  ASSUME DisruptorInv, Publish
  PROVE  DisruptorInv'
<1>1. /\ DisruptorTypeOK /\ PublisherInv /\ SlotInv /\ ConsumerInv
      /\ DeliveredInOrder /\ NeverOutdated
  BY DEF DisruptorInv
<1>2. /\ producer_seq \in Nat /\ SlotOf(producer_seq) \in Ring
      /\ pub.pc # "idle" /\ pub.tick = history[producer_seq + 1]
      /\ slot_sequence[SlotOf(producer_seq)] < producer_seq
      /\ Len(history) = producer_seq + 1 /\ history \in Seq(Ticks)
      /\ UNCHANGED <<producer_seq, cursor, take, history, lapped>>
  <2>1. pub.pc # "idle" /\ UNCHANGED <<producer_seq, cursor, take, history, lapped>>
    BY DEF Publish, PublishBegin, PublishTick, PublishStore
  <2>2. producer_seq \in Nat
    BY <2>1, <1>1 DEF PublisherInv, DisruptorTypeOK
  <2> QED
    BY <2>1, <2>2, <1>1, SlotInRing DEF PublisherInv, DisruptorTypeOK
<1>3. pub.tick \in Ticks
  BY <1>2
<1> DEFINE j == SlotOf(producer_seq)
<1>4. \A i \in Ring :
        /\ i # j => slot_tick'[i] = slot_tick[i] /\ slot_sequence'[i] = slot_sequence[i]
        /\ slot_sequence'[i] >= slot_sequence[i]
  BY <1>1, <1>2 DEF Publish, PublishBegin, PublishTick, PublishStore, DisruptorTypeOK
<1>5. DisruptorTypeOK'
  <2>1. CASE PublishBegin
    BY <2>1, <1>1, <1>2, <1>3 DEF PublishBegin, DisruptorTypeOK
  <2>2. CASE PublishTick
    BY <2>2, <1>1, <1>2, <1>3 DEF PublishTick, DisruptorTypeOK
  <2>3. CASE PublishStore
    <3>1. slot_sequence' \in [Ring -> -1 .. producer_seq]
      BY <2>3, <1>1, <1>2 DEF PublishStore, DisruptorTypeOK
    <3>2. pub' \in [pc : {"idle", "claimed", "writing", "written"}, tick : Ticks \cup {Torn}]
      BY <2>3 DEF PublishStore
    <3> QED
      BY <3>1, <3>2, <2>3, <1>1, <1>2 DEF PublishStore, DisruptorTypeOK
  <2> QED
    BY <2>1, <2>2, <2>3 DEF Publish
<1>6. PublisherInv'
  <2>1. SlotOf(producer_seq)' = j
    BY <1>2 DEF SlotOf
  <2> QED
    BY <2>1, <1>1, <1>2 DEF Publish, PublishBegin, PublishTick, PublishStore, PublisherInv, DisruptorTypeOK
<1>7. SlotInv'
  <2> SUFFICES ASSUME NEW i \in Ring
               PROVE  /\ slot_sequence'[i] >= 0 => SlotOf(slot_sequence'[i]) = i
                      /\ slot_sequence'[i] >= 0 /\ ~ InWork(i)' =>
                           slot_tick'[i] = history[slot_sequence'[i] + 1]
                      /\ InWork(i)' => slot_tick'[i] = IF pub'.pc = "writing" THEN Torn ELSE pub'.tick
    BY <1>2 DEF SlotInv, SlotOf
  <2>1. InWork(i)' <=> pub'.pc \in {"writing", "written"} /\ i = j
    BY <1>2 DEF InWork, SlotOf
  <2>2. InWork(i) <=> pub.pc \in {"writing", "written"} /\ i = j
    BY DEF InWork
  <2>3. CASE i # j
    BY <2>1, <2>2, <2>3, <1>1, <1>4 DEF SlotInv
  <2>4. CASE i = j /\ PublishBegin
    BY <2>1, <2>4, <1>1, <1>2 DEF SlotInv, PublishBegin, DisruptorTypeOK
  <2>5. CASE i = j /\ PublishTick
    BY <2>1, <2>5, <1>1, <1>2 DEF SlotInv, PublishTick, DisruptorTypeOK
  <2>6. CASE i = j /\ PublishStore
    BY <2>1, <2>2, <2>6, <1>1, <1>2 DEF SlotInv, PublishStore, DisruptorTypeOK
  <2> QED
    BY <2>3, <2>4, <2>5, <2>6 DEF Publish
<1>8. ConsumerInv'
  <2> SUFFICES ASSUME NEW c \in Consumers, take[c].pc \in {"ready", "reading"}
               PROVE  slot_sequence'[SlotOf(NextSeq(c))] >= NextSeq(c)
    BY <1>1, <1>2 DEF ConsumerInv, NextSeq, SlotOf
  <2>1. SlotOf(NextSeq(c)) \in Ring /\ slot_sequence[SlotOf(NextSeq(c))] >= NextSeq(c)
        /\ NextSeq(c) \in Int /\ slot_sequence[SlotOf(NextSeq(c))] \in Int
    BY ReadyRange, <1>2
  <2>2. slot_sequence'[SlotOf(NextSeq(c))] \in Int
    BY <2>1, <1>5 DEF DisruptorTypeOK
  <2> QED
    BY <2>1, <2>2, <1>4
<1>9. DeliveredInOrder' /\ NeverOutdated'
  BY <1>1, <1>2 DEF DeliveredInOrder, NeverOutdated
<1> QED
  BY <1>5, <1>6, <1>7, <1>8, <1>9 DEF DisruptorInv

-----------------------------------------------------------------------------
\* A consumer's step changes its cursor and its locals; only the copy of a slot
\* needs to know what is in it.
LEMMA ConsumePreserves ==
  ASSUME DisruptorInv, NEW c \in Consumers, Consume(c) \/ ConsumeReturn(c)
  PROVE  DisruptorInv'
<1>1. /\ DisruptorTypeOK /\ PublisherInv /\ SlotInv /\ ConsumerInv
      /\ DeliveredInOrder /\ NeverOutdated
  BY DEF DisruptorInv
<1>2. UNCHANGED <<producer_seq, slot_tick, slot_sequence, pub, history, lapped>>
  BY DEF Consume, ConsumeCheck, ConsumeBegin, ConsumeEnd, ConsumeReturn
<1>3. PublisherInv' /\ SlotInv'
  BY <1>1, <1>2 DEF PublisherInv, SlotInv, InWork, SlotOf
<1>4. \A d \in Consumers : d # c => cursor'[d] = cursor[d] /\ take'[d] = take[d]
  BY <1>1 DEF Consume, ConsumeCheck, ConsumeBegin, ConsumeEnd, ConsumeReturn, DisruptorTypeOK
<1> DEFINE next == NextSeq(c)
           tick == slot_tick[SlotOf(next)]
<1>5. SUFFICES
        /\ cursor' \in [Consumers -> -1 .. producer_seq]
        /\ take' \in [Consumers -> [pc : {"idle", "ready", "reading", "taken"},
                                    out : Ticks \cup {Torn}]]
        /\ c \notin lapped => producer_seq - cursor'[c] <= BUFFER_SIZE
        /\ take'[c].pc \in {"ready", "reading"} =>
             slot_sequence[SlotOf(cursor'[c] + 1)] >= cursor'[c] + 1
        /\ take'[c].pc = "reading" /\ c \notin lapped =>
             take'[c].out = history[cursor'[c] + 2]
        /\ take'[c].pc = "taken" => cursor'[c] >= 0
        /\ take'[c].pc = "reading" /\ take'[c].out # Torn =>
             \E n \in DOMAIN history : n > cursor'[c] + 1 /\ take'[c].out = history[n]
        /\ take'[c].pc = "taken" /\ c \notin lapped =>
             /\ cursor'[c] + 1 \in DOMAIN history
             /\ take'[c].out = history[cursor'[c] + 1]
        /\ take'[c].pc = "taken" /\ take'[c].out # Torn =>
             \E n \in DOMAIN history : n > cursor'[c] /\ take'[c].out = history[n]
  <2>1. DisruptorTypeOK'
    BY <1>1, <1>2, <1>5 DEF DisruptorTypeOK
  <2>2. ConsumerInv'
    <3> SUFFICES ASSUME NEW d \in Consumers
                 PROVE  /\ d \notin lapped => producer_seq - cursor'[d] <= BUFFER_SIZE
                        /\ take'[d].pc \in {"ready", "reading"} =>
                             slot_sequence[SlotOf(cursor'[d] + 1)] >= cursor'[d] + 1
                        /\ take'[d].pc = "reading" /\ d \notin lapped =>
                             take'[d].out = history[cursor'[d] + 1 + 1]
                        /\ take'[d].pc = "taken" => cursor'[d] >= 0
                        /\ take'[d].pc = "reading" /\ take'[d].out # Torn =>
                             \E n \in DOMAIN history :
                               n > cursor'[d] + 1 /\ take'[d].out = history[n]
      BY <1>2 DEF ConsumerInv, NextSeq, SlotOf
    <3>1. CASE d # c
      BY <3>1, <1>1, <1>4 DEF ConsumerInv, NextSeq
    <3>2. CASE d = c
      <4>1. cursor'[c] \in Int
        BY <1>5, <1>1 DEF DisruptorTypeOK
      <4>2. cursor'[c] + 1 + 1 = cursor'[c] + 2
        BY <4>1
      <4> QED
        BY <3>2, <4>2, <1>5
    <3> QED
      BY <3>1, <3>2
  <2>3. DeliveredInOrder' /\ NeverOutdated'
    BY <1>1, <1>2, <1>4, <1>5 DEF DeliveredInOrder, NeverOutdated
  <2> QED
    BY <2>1, <2>2, <2>3, <1>3 DEF DisruptorInv
<1>6. /\ cursor[c] \in -1 .. producer_seq /\ producer_seq \in Int
      /\ DOMAIN history = 1 .. producer_seq + 1
      /\ next = cursor[c] + 1 /\ next \in Nat
  BY <1>1 DEF DisruptorTypeOK, PublisherInv, NextSeq
<1>7. tick \in Ticks \cup {Torn}
  BY <1>6, <1>1, SlotInRing DEF DisruptorTypeOK
<1>8. CASE ConsumeCheck(c)
  BY <1>8, <1>1, <1>6 DEF ConsumeCheck, ConsumerInv, DisruptorTypeOK, NextSeq
<1>9. CASE ConsumeBegin(c)
  <2>1. take[c].pc = "ready" /\ cursor' = cursor /\ take'[c] = [pc |-> "reading", out |-> tick]
    BY <1>9, <1>1 DEF ConsumeBegin, DisruptorTypeOK
  <2>2. c \notin lapped => tick = history[next + 1]
    BY <2>1, UnlappedSlot
  <2>3. tick # Torn => \E n \in DOMAIN history : n > next /\ tick = history[n]
    BY <2>1, SlotNotOlder
  <2>4. take' \in [Consumers -> [pc : {"idle", "ready", "reading", "taken"},
                                 out : Ticks \cup {Torn}]]
    BY <1>9, <1>1, <1>7 DEF ConsumeBegin, DisruptorTypeOK
  <2>5. slot_sequence[SlotOf(next)] >= next /\ (c \notin lapped => producer_seq - cursor[c] <= BUFFER_SIZE)
    BY <2>1, <1>1 DEF ConsumerInv
  <2>6. next + 1 = cursor[c] + 2
    BY <1>6
  <2> HIDE DEF next, tick
  <2> QED
    BY <2>1, <2>2, <2>3, <2>4, <2>5, <2>6, <1>6, <1>1 DEF DisruptorTypeOK
<1>10. CASE ConsumeEnd(c)
  <2> DEFINE out == IF tick = take[c].out THEN tick ELSE Torn
  <2>1. /\ take[c].pc = "reading" /\ cursor' = [cursor EXCEPT ![c] = next]
        /\ take' = [take EXCEPT ![c] = [pc |-> "taken", out |-> out]]
    BY <1>10 DEF ConsumeEnd
  <2>2. next \in 0 .. producer_seq
    BY <2>1, ReadyRange
  <2>3. cursor'[c] = next /\ take'[c] = [pc |-> "taken", out |-> out]
    BY <2>1, <1>1 DEF DisruptorTypeOK
  <2>4. c \notin lapped => out = history[next + 1] /\ producer_seq - next <= BUFFER_SIZE
    <3>1. c \notin lapped => tick = history[next + 1]
      BY <2>1, UnlappedSlot
    <3>2. c \notin lapped => take[c].out = history[next + 1] /\ producer_seq - cursor[c] <= BUFFER_SIZE
      BY <2>1, <1>1 DEF ConsumerInv
    <3> QED
      BY <3>1, <3>2, <1>6, RingAssumption
  <2>5. out # Torn => \E n \in DOMAIN history : n > next /\ out = history[n]
    BY <2>1, SlotNotOlder
  <2>6. out \in Ticks \cup {Torn}
    BY <1>7
  <2>7. next + 1 \in DOMAIN history
    BY <2>2, <1>6
  <2> HIDE DEF next, tick, out
  <2>8. /\ cursor' \in [Consumers -> -1 .. producer_seq]
        /\ take' \in [Consumers -> [pc : {"idle", "ready", "reading", "taken"},
                                    out : Ticks \cup {Torn}]]
    BY <2>1, <2>2, <2>6, <1>1, <1>6 DEF DisruptorTypeOK
  <2> QED
    BY <2>2, <2>3, <2>4, <2>5, <2>7, <2>8
<1>11. CASE ConsumeReturn(c)
  BY <1>11, <1>1, <1>6 DEF ConsumeReturn, ConsumerInv, DisruptorTypeOK
<1> QED
  BY <1>8, <1>9, <1>10, <1>11 DEF Consume

-----------------------------------------------------------------------------
LEMMA DisruptorStep == DisruptorInv /\ [DisruptorNext]_disruptorVars => DisruptorInv'
<1> SUFFICES ASSUME DisruptorInv, [DisruptorNext]_disruptorVars PROVE DisruptorInv'
  OBVIOUS
<1>1. ASSUME NEW tick \in Ticks, ClaimNext(tick) PROVE DisruptorInv'
  BY <1>1, ClaimPreserves
<1>2. CASE Publish
  BY <1>2, PublishPreserves
<1>3. ASSUME NEW c \in Consumers, Consume(c) \/ ConsumeReturn(c) PROVE DisruptorInv'
  BY <1>3, ConsumePreserves
<1>4. CASE UNCHANGED disruptorVars
  BY <1>4 DEF disruptorVars, DisruptorInv, DisruptorTypeOK, PublisherInv, SlotInv,
              ConsumerInv, DeliveredInOrder, NeverOutdated, InWork, NextSeq, SlotOf
<1> QED
  BY <1>1, <1>2, <1>3, <1>4 DEF DisruptorNext

\* The inductive invariant of the disruptor.
THEOREM DisruptorInvariant == DisruptorSpec => []DisruptorInv
  BY InitInv, DisruptorStep, PTL DEF DisruptorSpec

\* Types, and nobody is ahead of the publisher: try_consume never answers with a
\* slot that was not published for the cursor.
THEOREM DisruptorTypeCorrect == DisruptorSpec => []DisruptorTypeOK
<1>1. DisruptorInv => DisruptorTypeOK
  BY DEF DisruptorInv
<1> QED
  BY <1>1, DisruptorInvariant, PTL

\* For every size of the ring and any number of strategies, one that never falls
\* more than BUFFER_SIZE behind gets all ticks in order and in one piece.
THEOREM UnlappedSeesAll == DisruptorSpec => []DeliveredInOrder
<1>1. DisruptorInv => DeliveredInOrder
  BY DEF DisruptorInv
<1> QED
  BY <1>1, DisruptorInvariant, PTL

\* What a strategy gets in one piece is never older than its cursor, lapped or not.
THEOREM LappedSeesNewer == DisruptorSpec => []NeverOutdated
<1>1. DisruptorInv => NeverOutdated
  BY DEF DisruptorInv
<1> QED
  BY <1>1, DisruptorInvariant, PTL

-----------------------------------------------------------------------------
(* The market data path: the invariant *)

\* n is the largest, the smallest element of S.
Highest(S, n) == n \in S /\ \A m \in S : m <= n
Lowest(S, n) == n \in S /\ \A m \in S : n <= m

Prices(bar) == {bar.seen[i].ltp : i \in DOMAIN bar.seen}
Volumes(bar) == {bar.seen[i].volume : i \in DOMAIN bar.seen}

MarketTypes ==
  /\ now \in 0 .. MaxTime
  /\ received \in 0 .. MaxMessages
  /\ raw_queue \in Seq(Ticks)
  /\ norm \in [pc : {"pop", "push", "candles"}, tick : Ticks \cup {Torn}]
  /\ open_bars \in [Keys -> Bars \cup {None}]
  /\ candle \in [Keys -> CandleRecords \cup {None}]
  /\ candled \in [Keys -> Nat]
  /\ late \subseteq Keys

\* A tick past validate has a price; none is in work when the strategies stop.
NormInv ==
  /\ norm.pc # "pop" => norm.tick \in Ticks /\ norm.tick.ltp > 0
  /\ phase \in {"stopped", "flushed"} => norm.pc = "pop"

\* What a bar of length interval shows of its ticks
Shows(bar, interval) ==
  /\ bar.seen # << >>
  /\ bar.open = bar.seen[1].ltp /\ bar.open > 0
  /\ bar.close = bar.seen[Len(bar.seen)].ltp
  /\ Highest(Prices(bar), bar.high)
  /\ Lowest(Prices(bar), bar.low)
  /\ Highest(Volumes(bar), bar.volume)
  /\ \A i \in DOMAIN bar.seen : BarStart(bar.seen[i], interval) = bar.start

BarInv ==
  \A k \in Keys :
    /\ open_bars[k] # None => Shows(open_bars[k], k[2])
    /\ candle[k] # None => Shows(candle[k].bar, k[2])

\* A tick in the history is in a candle, in the open bar, or about to get there.
InBar(k) == IF open_bars[k] = None THEN 0 ELSE Len(open_bars[k].seen)
InHand(k) == IF norm.pc = "candles" /\ norm.tick.token = k[1] THEN 1 ELSE 0

CountInv == \A k \in Keys : candled[k] + InBar(k) + InHand(k) = Cardinality(Fanned(k))

\* The open bar follows the last candle; only flush_all leaves a candle and no bar.
OrderInv ==
  \A k \in Keys :
    /\ open_bars[k] = None /\ phase # "flushed" => candle[k] = None
    /\ k \notin late /\ open_bars[k] # None /\ candle[k] # None =>
         open_bars[k].start > candle[k].close_ts

MarketInv ==
  DisruptorInv /\ MarketTypes /\ NormInv /\ BarInv /\ CountInv /\ OrderInv

-----------------------------------------------------------------------------
(* Bars *)

LEMMA HighestIsMax ==
  ASSUME NEW S, S \subseteq Int, NEW n, Highest(S, n)
  PROVE  Max(S) = n
<1>1. n \in S /\ \A m \in S : n >= m
  BY DEF Highest
<1>2. Max(S) \in S /\ \A m \in S : Max(S) >= m
  BY <1>1 DEF Max
<1>3. n \in Int /\ Max(S) \in Int /\ n >= Max(S) /\ Max(S) >= n
  BY <1>1, <1>2
<1> QED
  BY <1>3

LEMMA LowestIsMin ==
  ASSUME NEW S, S \subseteq Int, NEW n, Lowest(S, n)
  PROVE  Min(S) = n
<1>1. n \in S /\ \A m \in S : n =< m
  BY DEF Lowest
<1>2. Min(S) \in S /\ \A m \in S : Min(S) =< m
  BY <1>1 DEF Min
<1>3. n \in Int /\ Min(S) \in Int /\ n =< Min(S) /\ Min(S) =< n
  BY <1>1, <1>2
<1> QED
  BY <1>3

LEMMA OfTwo ==
  ASSUME NEW a \in Int, NEW b \in Int
  PROVE  /\ Max({a, b}) = IF a >= b THEN a ELSE b
         /\ Min({a, b}) = IF a <= b THEN a ELSE b
         /\ Max({a, b}) \in Int /\ Min({a, b}) \in Int
<1>1. Highest({a, b}, IF a >= b THEN a ELSE b) /\ Lowest({a, b}, IF a <= b THEN a ELSE b)
  BY DEF Highest, Lowest
<1>2. {a, b} \subseteq Int
  OBVIOUS
<1>3. Max({a, b}) = IF a >= b THEN a ELSE b
  BY <1>1, <1>2, HighestIsMax
<1>4. Min({a, b}) = IF a <= b THEN a ELSE b
  BY <1>1, <1>2, LowestIsMin
<1> QED
  BY <1>3, <1>4

\* A larger set, by one element
LEMMA OneMore ==
  ASSUME NEW S, S \subseteq Int, NEW n \in Int, NEW v \in Int, NEW T, T = S \cup {v}
  PROVE  /\ Highest(S, n) => Highest(T, Max({n, v}))
         /\ Lowest(S, n) => Lowest(T, Min({n, v}))
<1>1. PICK h \in Int : h = Max({n, v}) /\ h = IF n >= v THEN n ELSE v
  BY OfTwo
<1>2. PICK l \in Int : l = Min({n, v}) /\ l = IF n <= v THEN n ELSE v
  BY OfTwo
<1>3. Highest(S, n) => Highest(T, h)
  BY <1>1 DEF Highest
<1>4. Lowest(S, n) => Lowest(T, l)
  BY <1>2 DEF Lowest
<1> QED
  BY <1>1, <1>2, <1>3, <1>4

LEMMA KeyParts ==
  ASSUME NEW k \in Keys
  PROVE  k[2] \in INTERVALS /\ k[2] \in Nat /\ k[2] > 0
<1>1. k[2] \in INTERVALS
  BY DEF Keys
<1>2. k[2] \in Nat /\ k[2] # 0
  BY <1>1, IntervalsAssumption
<1> QED
  BY <1>1, <1>2

\* The boundaries of bars are multiples of the interval.
LEMMA BarStarts ==
  ASSUME NEW tick \in Ticks, NEW interval \in Nat, interval > 0
  PROVE  \E m \in Int : BarStart(tick, interval) = m * interval
<1>1. tick.exchange_ts \in Int /\ tick.recv_ts \in Int
  BY FeedAssumption
<1>2. PICK ts \in Int : ts = IF tick.exchange_ts > 0 THEN tick.exchange_ts ELSE tick.recv_ts
  BY <1>1
<1>3. ts \div interval \in Int
  BY <1>2
<1>4. BarStart(tick, interval) = (ts \div interval) * interval
  BY <1>2 DEF BarStart
<1> QED
  BY <1>3, <1>4

LEMMA BarStartType ==
  ASSUME NEW tick \in Ticks, NEW interval \in Nat, interval > 0
  PROVE  BarStart(tick, interval) \in Int
<1>1. PICK m \in Int : BarStart(tick, interval) = m * interval
  BY BarStarts
<1> QED
  BY <1>1

\* A later bar begins no earlier than the end of this one.
LEMMA LaterBar ==
  ASSUME NEW a \in Ticks, NEW b \in Ticks, NEW interval \in Nat, interval > 0,
         BarStart(a, interval) > BarStart(b, interval)
  PROVE  BarStart(a, interval) > BarStart(b, interval) + interval - 1
<1>1. PICK m \in Int : BarStart(a, interval) = m * interval
  BY BarStarts
<1>2. PICK n \in Int : BarStart(b, interval) = n * interval
  BY BarStarts
<1>3. m * interval > n * interval
  BY <1>1, <1>2
<1>4. m > n
  <2>1. m <= n => m * interval <= n * interval
    OBVIOUS
  <2>2. m * interval \in Int /\ n * interval \in Int
    OBVIOUS
  <2> QED
    BY <1>3, <2>1, <2>2
<1>5. PICK d \in Int : d = m - n
  OBVIOUS
<1>6. d >= 1 /\ m = n + d
  BY <1>4, <1>5
<1>7. m * interval = n * interval + d * interval
  BY <1>6
<1>8. d * interval >= interval /\ d * interval \in Int
  BY <1>6
<1>9. n * interval \in Int
  OBVIOUS
<1> QED
  BY <1>1, <1>2, <1>7, <1>8, <1>9

LEMMA NewBarShows ==
  ASSUME NEW tick \in Ticks, tick.ltp > 0, NEW interval \in Nat, interval > 0
  PROVE  /\ NewBar(tick, interval) \in Bars
         /\ Shows(NewBar(tick, interval), interval)
         /\ Len(NewBar(tick, interval).seen) = 1
         /\ NewBar(tick, interval).start = BarStart(tick, interval)
<1> DEFINE bar == NewBar(tick, interval)
<1>1. tick.ltp \in Int /\ tick.volume \in Int
  BY FeedAssumption
<1>2. BarStart(tick, interval) \in Int
  BY BarStartType
<1>3. <<tick>> \in Seq(Ticks) /\ Len(<<tick>>) = 1 /\ <<tick>>[1] = tick
      /\ DOMAIN <<tick>> = {1} /\ <<tick>> # << >>
  OBVIOUS
<1>4. bar \in Bars
  BY <1>1, <1>2, <1>3 DEF NewBar, Bars
<1>5. /\ bar.start = BarStart(tick, interval) /\ bar.open = tick.ltp
      /\ bar.high = tick.ltp /\ bar.low = tick.ltp /\ bar.close = tick.ltp
      /\ bar.volume = tick.volume /\ bar.seen = <<tick>>
  BY DEF NewBar
<1> HIDE DEF bar
<1>6. Prices(bar) = {tick.ltp} /\ Volumes(bar) = {tick.volume}
  BY <1>3, <1>5 DEF Prices, Volumes
<1>7. Highest(Prices(bar), bar.high) /\ Lowest(Prices(bar), bar.low)
      /\ Highest(Volumes(bar), bar.volume)
  BY <1>1, <1>5, <1>6 DEF Highest, Lowest
<1>8. Shows(bar, interval)
  BY <1>3, <1>5, <1>7 DEF Shows
<1> QED
  BY <1>3, <1>4, <1>5, <1>8 DEF bar

LEMMA BarTicks ==
  ASSUME NEW bar \in Bars
  PROVE  /\ bar.seen \in Seq(Ticks) /\ Prices(bar) \subseteq Int /\ Volumes(bar) \subseteq Int
         /\ \A i \in DOMAIN bar.seen : bar.seen[i] \in Ticks
<1>1. bar.seen \in Seq(Ticks)
  BY DEF Bars
<1>2. \A i \in DOMAIN bar.seen : bar.seen[i] \in Ticks
  BY <1>1
<1>3. \A i \in DOMAIN bar.seen : bar.seen[i].ltp \in Int /\ bar.seen[i].volume \in Int
  BY <1>2, FeedAssumption
<1> QED
  BY <1>1, <1>2, <1>3 DEF Prices, Volumes

LEMMA UpdatedBarShows ==
  ASSUME NEW bar \in Bars, NEW interval, Shows(bar, interval), NEW tick \in Ticks,
         BarStart(tick, interval) = bar.start
  PROVE  /\ UpdatedBar(bar, tick) \in Bars
         /\ Shows(UpdatedBar(bar, tick), interval)
         /\ Len(UpdatedBar(bar, tick).seen) = Len(bar.seen) + 1
         /\ UpdatedBar(bar, tick).start = bar.start
<1> DEFINE new == UpdatedBar(bar, tick)
<1>1. tick.ltp \in Int /\ tick.volume \in Int
  BY FeedAssumption
<1>2. /\ bar.start \in Int /\ bar.open \in Int /\ bar.high \in Int /\ bar.low \in Int
      /\ bar.close \in Int /\ bar.volume \in Int
  BY DEF Bars
<1>3. /\ bar.seen \in Seq(Ticks) /\ Prices(bar) \subseteq Int /\ Volumes(bar) \subseteq Int
  BY BarTicks
<1>4. PICK n \in Nat : n = Len(bar.seen) /\ n > 0 /\ DOMAIN bar.seen = 1 .. n
  BY <1>3 DEF Shows
<1>5. /\ Append(bar.seen, tick) \in Seq(Ticks) /\ Append(bar.seen, tick) # << >>
      /\ Len(Append(bar.seen, tick)) = n + 1
      /\ DOMAIN Append(bar.seen, tick) = 1 .. n + 1
      /\ \A i \in 1 .. n : Append(bar.seen, tick)[i] = bar.seen[i]
      /\ Append(bar.seen, tick)[n + 1] = tick
  BY <1>3, <1>4
<1>6. /\ Max({bar.high, tick.ltp}) \in Int /\ Min({bar.low, tick.ltp}) \in Int
      /\ Max({bar.volume, tick.volume}) \in Int
  BY <1>1, <1>2, OfTwo
<1>7. /\ new.start = bar.start /\ new.open = bar.open /\ new.close = tick.ltp
      /\ new.high = Max({bar.high, tick.ltp}) /\ new.low = Min({bar.low, tick.ltp})
      /\ new.volume = Max({bar.volume, tick.volume})
      /\ new.seen = Append(bar.seen, tick)
      /\ new \in Bars
  BY <1>1, <1>2, <1>5, <1>6 DEF UpdatedBar, Bars
<1> HIDE DEF new
<1>8. Prices(new) = Prices(bar) \cup {tick.ltp} /\ Volumes(new) = Volumes(bar) \cup {tick.volume}
  <2>1. \A i \in 1 .. n : i \in 1 .. n + 1
    BY <1>4
  <2>2. n + 1 \in 1 .. n + 1 /\ \A i \in 1 .. n + 1 : i \in 1 .. n \/ i = n + 1
    BY <1>4
  <2> QED
    BY <1>4, <1>5, <1>7, <2>1, <2>2 DEF Prices, Volumes
<1>9. /\ Highest(Prices(new), new.high) /\ Lowest(Prices(new), new.low)
      /\ Highest(Volumes(new), new.volume)
  <2>1. /\ Highest(Prices(bar), bar.high) /\ Lowest(Prices(bar), bar.low)
        /\ Highest(Volumes(bar), bar.volume)
    BY DEF Shows
  <2>2. Highest(Prices(new), Max({bar.high, tick.ltp}))
    BY <1>1, <1>2, <1>3, <1>8, <2>1, OneMore
  <2>3. Lowest(Prices(new), Min({bar.low, tick.ltp}))
    BY <1>1, <1>2, <1>3, <1>8, <2>1, OneMore
  <2>4. Highest(Volumes(new), Max({bar.volume, tick.volume}))
    BY <1>1, <1>2, <1>3, <1>8, <2>1, OneMore
  <2> QED
    BY <1>7, <2>2, <2>3, <2>4
<1>10. \A i \in DOMAIN new.seen : BarStart(new.seen[i], interval) = new.start
  <2>1. \A i \in 1 .. n + 1 : i \in 1 .. n \/ i = n + 1
    BY <1>4
  <2> QED
    BY <1>4, <1>5, <1>7, <2>1 DEF Shows
<1>11. new.seen[1] = bar.seen[1] /\ new.seen[Len(new.seen)] = tick
  BY <1>4, <1>5, <1>7
<1>12. Shows(new, interval)
  BY <1>5, <1>7, <1>9, <1>10, <1>11 DEF Shows
<1> QED
  BY <1>4, <1>5, <1>7, <1>12 DEF new

-----------------------------------------------------------------------------
(* The steps *)

LEMMA FannedFinite ==
  ASSUME DisruptorInv, NEW k
  PROVE  IsFiniteSet(Fanned(k)) /\ Cardinality(Fanned(k)) \in Nat
<1>1. PICK n \in Nat : DOMAIN history = 1 .. n
  BY DEF DisruptorInv, DisruptorTypeOK
<1>2. Fanned(k) \subseteq 1 .. n
  BY <1>1 DEF Fanned
<1>3. IsFiniteSet(1 .. n)
  BY FS_Interval
<1>4. IsFiniteSet(Fanned(k))
  BY <1>2, <1>3, FS_Subset
<1> QED
  BY <1>4, FS_CardinalityType

LEMMA MarketInitInv == MarketInit => MarketInv
<1> SUFFICES ASSUME MarketInit PROVE MarketInv
  OBVIOUS
<1>1. DisruptorInv
  BY InitInv DEF MarketInit
<1>2. /\ \A k \in Keys : open_bars[k] = None /\ candle[k] = None /\ candled[k] = 0
      /\ norm.pc = "pop" /\ history = << >> /\ phase = "up"
  BY DEF MarketInit, CandlesInit, DisruptorInit
<1>3. MarketTypes
  BY FeedAssumption DEF MarketInit, CandlesInit, MarketTypes
<1>4. NormInv /\ BarInv /\ OrderInv
  BY <1>2 DEF NormInv, BarInv, OrderInv
<1>5. CountInv
  <2> SUFFICES ASSUME NEW k \in Keys
               PROVE  candled[k] + InBar(k) + InHand(k) = Cardinality(Fanned(k))
    BY DEF CountInv
  <2>1. Fanned(k) = {}
    BY <1>2 DEF Fanned
  <2>2. Cardinality(Fanned(k)) = 0
    BY <2>1, FS_EmptySet
  <2> QED
    BY <1>2, <2>2 DEF InBar, InHand
<1> QED
  BY <1>1, <1>3, <1>4, <1>5 DEF MarketInv

\* The disruptor inside the market data path takes steps of its own specification.
LEMMA MarketIsDisruptor ==
  ASSUME MarketInv, [MarketNext]_marketVars
  PROVE  [DisruptorNext]_disruptorVars
<1>1. CASE PushTick
  BY <1>1 DEF PushTick, DisruptorNext, MarketInv, NormInv
<1>2. CASE PublishTicks
  BY <1>2 DEF PublishTicks, DisruptorNext
<1>3. ASSUME NEW c \in Consumers, StrategyStep(c)
      PROVE  [DisruptorNext]_disruptorVars
  BY <1>3 DEF StrategyStep, DisruptorNext
<1>4. CASE UNCHANGED disruptorVars
  BY <1>4
<1>5. \/ PushTick \/ PublishTicks \/ (\E c \in Consumers : StrategyStep(c))
      \/ UNCHANGED disruptorVars
  BY DEF MarketNext, OnFrame, Normalize, PopTick, BuildCandles, HaltStrategy, Shutdown,
         StopNormalizer, StopAll, FlushAll, Clock, Stopped, marketVars
<1> QED
  BY <1>1, <1>2, <1>3, <1>4, <1>5

\* The steps that neither push a tick nor touch the candles
LEMMA QuietMarketStep ==
  ASSUME MarketInv, UNCHANGED <<open_bars, candle, candled, late, history>>,
         norm' = norm \/ (norm.pc = "pop" /\ norm'.pc # "candles"),
         phase' = phase \/ (phase # "flushed" /\ phase' # "flushed")
  PROVE  BarInv' /\ CountInv' /\ OrderInv'
<1>1. BarInv' /\ OrderInv'
  BY DEF MarketInv, BarInv, OrderInv
<1>2. \A k : InBar(k)' = InBar(k) /\ InHand(k)' = InHand(k) /\ Fanned(k)' = Fanned(k)
  BY DEF InBar, InHand, Fanned
<1>3. CountInv'
  BY <1>2 DEF MarketInv, CountInv
<1> QED
  BY <1>1, <1>3

LEMMA PushTickStep ==
  ASSUME MarketInv, PushTick
  PROVE  MarketTypes' /\ NormInv' /\ BarInv' /\ CountInv' /\ OrderInv'
<1>0. DisruptorInv /\ MarketTypes /\ NormInv /\ BarInv /\ CountInv /\ OrderInv
  BY DEF MarketInv
<1>1. /\ norm.pc = "push" /\ norm' = [norm EXCEPT !.pc = "candles"]
      /\ history' = Append(history, norm.tick) /\ phase' = phase
      /\ UNCHANGED <<open_bars, candle, candled, late, now, received, raw_queue>>
  BY DEF PushTick, ClaimNext, candleVars
<1>2. norm.tick \in Ticks /\ norm.tick.ltp > 0
  BY <1>0, <1>1 DEF NormInv
<1>3. norm'.pc = "candles" /\ norm'.tick = norm.tick
  BY <1>0, <1>1 DEF MarketTypes
<1>4. MarketTypes' /\ NormInv' /\ BarInv' /\ OrderInv'
  <2>1. MarketTypes'
    BY <1>0, <1>1 DEF MarketTypes
  <2>2. NormInv'
    BY <1>0, <1>1, <1>2, <1>3 DEF NormInv
  <2>3. BarInv' /\ OrderInv'
    BY <1>0, <1>1 DEF BarInv, OrderInv
  <2> QED
    BY <2>1, <2>2, <2>3
<1>5. CountInv'
  <2> SUFFICES ASSUME NEW k \in Keys
               PROVE  (candled[k] + InBar(k) + InHand(k) = Cardinality(Fanned(k)))'
    BY DEF CountInv
  <2>1. candled'[k] = candled[k] /\ InBar(k)' = InBar(k) /\ InHand(k) = 0
    BY <1>1 DEF InBar, InHand
  <2>2. InHand(k)' = IF norm.tick.token = k[1] THEN 1 ELSE 0
    BY <1>3 DEF InHand
  <2>3. candled[k] + InBar(k) = Cardinality(Fanned(k))
    <3>1. candled[k] \in Nat /\ InBar(k) \in Nat
      BY <1>0 DEF MarketTypes, InBar, Bars
    <3> QED
      BY <1>0, <2>1, <3>1 DEF CountInv
  <2>4. PICK n \in Nat : /\ history \in Seq(Ticks) /\ Len(history) = n
                         /\ DOMAIN history = 1 .. n
    BY <1>0 DEF DisruptorInv, DisruptorTypeOK
  <2>5. /\ DOMAIN history' = 1 .. n + 1 /\ history'[n + 1] = norm.tick
        /\ \A i \in 1 .. n : history'[i] = history[i]
    BY <1>1, <1>2, <2>4
  <2>6. \A i : i \in 1 .. n + 1 <=> i \in 1 .. n \/ i = n + 1
    BY <2>4
  <2>7. n + 1 \notin Fanned(k)
    BY <2>4 DEF Fanned
  <2>8. CASE norm.tick.token = k[1]
    <3>1. Fanned(k)' = Fanned(k) \cup {n + 1}
      BY <2>4, <2>5, <2>6, <2>8 DEF Fanned
    <3>2. Cardinality(Fanned(k)') = Cardinality(Fanned(k)) + 1
      BY <1>0, <2>7, <3>1, FannedFinite, FS_AddElement
    <3> QED
      BY <2>1, <2>2, <2>3, <2>8, <3>2
  <2>9. CASE norm.tick.token # k[1]
    <3>1. Fanned(k)' = Fanned(k)
      BY <2>4, <2>5, <2>6, <2>9 DEF Fanned
    <3>2. Cardinality(Fanned(k)') = Cardinality(Fanned(k))
      BY <3>1
    <3>3. Cardinality(Fanned(k)) \in Nat
      BY <1>0, FannedFinite
    <3> QED
      BY <2>1, <2>2, <2>3, <2>9, <3>2, <3>3
  <2> QED
    BY <2>8, <2>9
<1> QED
  BY <1>4, <1>5

\* One key of on_tick: its bar takes the tick, or is closed and replaced.
LEMMA CandleOfTick ==
  ASSUME MarketInv, BuildCandles, NEW k \in Keys
  PROVE  /\ (open_bars[k] # None => Shows(open_bars[k], k[2]))'
         /\ (candle[k] # None => Shows(candle[k].bar, k[2]))'
         /\ open_bars'[k] \in Bars \cup {None} /\ candle'[k] \in CandleRecords \cup {None}
         /\ candled'[k] \in Nat
         /\ candled'[k] + InBar(k)' = candled[k] + InBar(k) + InHand(k)
         /\ open_bars'[k] = None => open_bars[k] = None /\ candle'[k] = candle[k]
         /\ k \notin late' /\ open_bars'[k] # None /\ candle'[k] # None =>
              open_bars'[k].start > candle'[k].close_ts
         /\ k \notin late' /\ candle[k] # None /\ candle'[k] # candle[k] =>
              candle'[k].bar.start > candle[k].close_ts
<1> DEFINE tick == norm.tick
           bar == open_bars[k]
<1>0. DisruptorInv /\ MarketTypes /\ NormInv /\ BarInv /\ CountInv /\ OrderInv
  BY DEF MarketInv
<1>1. norm.pc = "candles" /\ on_tick(tick) /\ phase # "flushed"
  BY <1>0 DEF BuildCandles, NormInv
<1>2. tick \in Ticks /\ tick.ltp > 0 /\ k[2] \in Nat /\ k[2] > 0
  BY <1>0, <1>1, KeyParts DEF NormInv
<1>3. bar \in Bars \cup {None} /\ candle[k] \in CandleRecords \cup {None} /\ candled[k] \in Nat
  BY <1>0 DEF MarketTypes
<1>4. InHand(k) = IF k[1] = tick.token THEN 1 ELSE 0
  BY <1>1 DEF InHand
<1>5. /\ bar # None => Shows(bar, k[2])
      /\ candle[k] # None => Shows(candle[k].bar, k[2])
      /\ bar = None => candle[k] = None
      /\ k \notin late /\ bar # None /\ candle[k] # None => bar.start > candle[k].close_ts
  BY <1>0, <1>1 DEF BarInv, OrderInv
<1>6. late \subseteq late'
  BY <1>1 DEF on_tick
<1>7. CASE k[1] # tick.token
  <2>1. open_bars'[k] = bar /\ candle'[k] = candle[k] /\ candled'[k] = candled[k]
    BY <1>1, <1>7 DEF on_tick
  <2>2. InBar(k)' = InBar(k) /\ InBar(k) \in Nat
    BY <1>3, <2>1 DEF InBar, Bars
  <2> QED
    BY <1>3, <1>4, <1>5, <1>6, <1>7, <2>1, <2>2
<1>8. CASE k[1] = tick.token /\ bar = None
  <2>1. /\ open_bars'[k] = NewBar(tick, k[2]) /\ candle'[k] = candle[k]
        /\ candled'[k] = candled[k]
    BY <1>1, <1>8 DEF on_tick, update_bar, Closes
  <2>2. /\ open_bars'[k] \in Bars /\ Shows(open_bars'[k], k[2])
        /\ Len(open_bars'[k].seen) = 1 /\ open_bars'[k] # None
    BY <1>2, <2>1, NewBarShows, NoneAssumption
  <2>3. InBar(k)' = 1 /\ InBar(k) = 0 /\ InHand(k) = 1
    BY <1>4, <1>8, <2>2 DEF InBar
  <2> QED
    BY <1>3, <1>5, <1>8, <2>1, <2>2, <2>3
<1>9. CASE k[1] = tick.token /\ bar # None /\ ~ Closes(k, tick)
  <2>1. /\ open_bars'[k] = UpdatedBar(bar, tick) /\ candle'[k] = candle[k]
        /\ candled'[k] = candled[k]
    BY <1>1, <1>9 DEF on_tick, update_bar
  <2>2. bar.start = BarStart(tick, k[2])
    BY <1>9 DEF Closes
  <2>3. /\ open_bars'[k] \in Bars /\ Shows(open_bars'[k], k[2])
        /\ Len(open_bars'[k].seen) = Len(bar.seen) + 1 /\ open_bars'[k].start = bar.start
        /\ open_bars'[k] # None
    BY <1>2, <1>3, <1>5, <1>9, <2>1, <2>2, UpdatedBarShows, NoneAssumption
  <2>4. InBar(k) = Len(bar.seen) /\ InBar(k)' = InBar(k) + 1 /\ InHand(k) = 1
        /\ InBar(k) \in Nat
    BY <1>3, <1>4, <1>9, <2>3 DEF InBar, Bars
  <2> QED
    BY <1>3, <1>5, <1>6, <1>9, <2>1, <2>3, <2>4
<1>10. CASE k[1] = tick.token /\ Closes(k, tick)
  <2>1. bar # None /\ bar.start # BarStart(tick, k[2]) /\ bar \in Bars /\ Shows(bar, k[2])
    BY <1>3, <1>5, <1>10 DEF Closes
  <2>2. bar.open > 0
    BY <2>1 DEF Shows
  <2>3. /\ open_bars'[k] = NewBar(tick, k[2])
        /\ candle'[k] = [bar |-> bar, close_ts |-> bar.start + k[2] - 1]
        /\ candled'[k] = candled[k] + Len(bar.seen)
        /\ BarStart(tick, k[2]) < bar.start => k \in late'
    BY <1>1, <1>10, <2>2 DEF on_tick, update_bar, Candle, CloseTs
  <2>4. /\ open_bars'[k] \in Bars /\ Shows(open_bars'[k], k[2])
        /\ Len(open_bars'[k].seen) = 1 /\ open_bars'[k] # None
        /\ open_bars'[k].start = BarStart(tick, k[2])
    BY <1>2, <2>3, NewBarShows, NoneAssumption
  <2>5. InBar(k) = Len(bar.seen) /\ InBar(k)' = 1 /\ InHand(k) = 1 /\ InBar(k) \in Nat
    BY <1>4, <1>10, <2>1, <2>4 DEF InBar, Bars
  <2>6. /\ candle'[k] \in CandleRecords /\ candle'[k] # None
        /\ candle'[k].bar = bar /\ candle'[k].close_ts = bar.start + k[2] - 1
    BY <1>2, <2>1, <2>3, NoneAssumption DEF CandleRecords, Bars
  <2>7. k \notin late' => BarStart(tick, k[2]) > bar.start + k[2] - 1
    <3> SUFFICES ASSUME k \notin late'
                 PROVE  BarStart(tick, k[2]) > bar.start + k[2] - 1
      OBVIOUS
    <3>1. BarStart(tick, k[2]) \in Int /\ bar.start \in Int
      BY <1>2, <2>1, BarStartType DEF Bars
    <3>2. BarStart(tick, k[2]) > bar.start
      BY <2>1, <2>3, <3>1
    <3>3. bar.seen[1] \in Ticks /\ BarStart(bar.seen[1], k[2]) = bar.start
      <4>1. bar.seen \in Seq(Ticks) /\ bar.seen # << >>
        BY <2>1 DEF Bars, Shows
      <4>2. 1 \in DOMAIN bar.seen
        BY <4>1
      <4> QED
        BY <2>1, <4>1, <4>2 DEF Shows
    <3> QED
      BY <1>2, <3>2, <3>3, LaterBar
  <2>8. k \notin late' /\ candle[k] # None => bar.start > candle[k].close_ts
    BY <1>5, <1>6, <2>1
  <2> QED
    BY <1>3, <2>1, <2>3, <2>4, <2>5, <2>6, <2>7, <2>8
<1> QED
  BY <1>7, <1>8, <1>9, <1>10

LEMMA BuildCandlesStep ==
  ASSUME MarketInv, BuildCandles
  PROVE  MarketTypes' /\ NormInv' /\ BarInv' /\ CountInv' /\ OrderInv'
<1>0. DisruptorInv /\ MarketTypes /\ NormInv /\ BarInv /\ CountInv /\ OrderInv
  BY DEF MarketInv
<1>1. /\ norm.pc = "candles" /\ norm' = [pc |-> "pop", tick |-> Torn] /\ on_tick(norm.tick)
      /\ UNCHANGED <<history, now, received, raw_queue, phase>>
  BY DEF BuildCandles, disruptorVars
<1>2. MarketTypes'
  <2>1. /\ DOMAIN open_bars' = Keys /\ DOMAIN candle' = Keys /\ DOMAIN candled' = Keys
        /\ open_bars' = [k \in Keys |-> open_bars'[k]]
        /\ candle' = [k \in Keys |-> candle'[k]] /\ candled' = [k \in Keys |-> candled'[k]]
        /\ late' \subseteq Keys
    BY <1>0, <1>1 DEF on_tick, MarketTypes
  <2>2. /\ open_bars' \in [Keys -> Bars \cup {None}]
        /\ candle' \in [Keys -> CandleRecords \cup {None}] /\ candled' \in [Keys -> Nat]
    BY <2>1, CandleOfTick
  <2> QED
    BY <1>0, <1>1, <2>1, <2>2 DEF MarketTypes
<1>3. NormInv'
  BY <1>1 DEF NormInv
<1>4. BarInv'
  BY CandleOfTick DEF BarInv
<1>5. CountInv'
  <2> SUFFICES ASSUME NEW k \in Keys
               PROVE  (candled[k] + InBar(k) + InHand(k) = Cardinality(Fanned(k)))'
    BY DEF CountInv
  <2>1. InHand(k)' = 0
    BY <1>1 DEF InHand
  <2>2. Cardinality(Fanned(k))' = Cardinality(Fanned(k)) /\ Cardinality(Fanned(k)) \in Nat
    BY <1>0, <1>1, FannedFinite DEF Fanned
  <2>3. candled'[k] + InBar(k)' = Cardinality(Fanned(k))
    BY <1>0, CandleOfTick DEF CountInv
  <2> QED
    BY <2>1, <2>2, <2>3
<1>6. OrderInv'
  <2> SUFFICES ASSUME NEW k \in Keys
               PROVE  (/\ open_bars[k] = None /\ phase # "flushed" => candle[k] = None
                       /\ k \notin late /\ open_bars[k] # None /\ candle[k] # None =>
                            open_bars[k].start > candle[k].close_ts)'
    BY DEF OrderInv
  <2>1. open_bars'[k] = None => open_bars[k] = None /\ candle'[k] = candle[k]
    BY CandleOfTick
  <2>2. k \notin late' /\ open_bars'[k] # None /\ candle'[k] # None =>
          open_bars'[k].start > candle'[k].close_ts
    BY CandleOfTick
  <2> QED
    BY <1>0, <1>1, <2>1, <2>2 DEF OrderInv
<1> QED
  BY <1>2, <1>3, <1>4, <1>5, <1>6

\* One key of flush_all: the open bar becomes the last candle.
LEMMA CandleOfFlush ==
  ASSUME MarketInv, FlushAll, NEW k \in Keys
  PROVE  /\ open_bars'[k] = None
         /\ candle'[k] \in CandleRecords \cup {None} /\ candled'[k] \in Nat
         /\ candle'[k] # None => Shows(candle'[k].bar, k[2])
         /\ candled'[k] = candled[k] + InBar(k)
         /\ k \notin late' /\ candle[k] # None /\ candle'[k] # candle[k] =>
              candle'[k].bar.start > candle[k].close_ts
<1>0. MarketTypes /\ BarInv /\ OrderInv
  BY DEF MarketInv
<1>1. flush_all(EpochStart + now)
  BY DEF FlushAll
<1>2. /\ open_bars[k] \in Bars \cup {None} /\ candle[k] \in CandleRecords \cup {None}
      /\ candled[k] \in Nat /\ EpochStart + now \in Int
  BY <1>0, FeedAssumption DEF MarketTypes
<1>3. open_bars'[k] = None /\ late' = late
  BY <1>1 DEF flush_all
<1>4. CASE open_bars[k] = None
  <2>1. candle'[k] = candle[k] /\ candled'[k] = candled[k] /\ InBar(k) = 0
    BY <1>1, <1>4 DEF flush_all, InBar
  <2> QED
    BY <1>0, <1>2, <1>3, <2>1 DEF BarInv
<1>5. CASE open_bars[k] # None
  <2>1. open_bars[k] \in Bars /\ Shows(open_bars[k], k[2])
    BY <1>0, <1>2, <1>5 DEF BarInv
  <2>2. open_bars[k].open > 0
    BY <2>1 DEF Shows
  <2>3. /\ candle'[k] = [bar |-> open_bars[k], close_ts |-> EpochStart + now]
        /\ candled'[k] = candled[k] + Len(open_bars[k].seen)
        /\ InBar(k) = Len(open_bars[k].seen) /\ InBar(k) \in Nat
    BY <1>1, <1>5, <2>1, <2>2 DEF flush_all, Candle, InBar, Bars
  <2>4. candle'[k] \in CandleRecords /\ candle'[k].bar = open_bars[k]
    BY <1>2, <2>1, <2>3 DEF CandleRecords
  <2> QED
    BY <1>0, <1>2, <1>3, <1>5, <2>1, <2>3, <2>4 DEF OrderInv
<1> QED
  BY <1>4, <1>5

LEMMA FlushAllStep ==
  ASSUME MarketInv, FlushAll
  PROVE  MarketTypes' /\ NormInv' /\ BarInv' /\ CountInv' /\ OrderInv'
<1>0. DisruptorInv /\ MarketTypes /\ NormInv /\ BarInv /\ CountInv /\ OrderInv
  BY DEF MarketInv
<1>1. /\ phase = "stopped" /\ phase' = "flushed" /\ flush_all(EpochStart + now)
      /\ UNCHANGED <<history, now, received, raw_queue, norm>>
  BY DEF FlushAll, disruptorVars
<1>2. MarketTypes'
  <2>1. /\ open_bars' = [k \in Keys |-> None]
        /\ candle' = [k \in Keys |-> candle'[k]] /\ candled' = [k \in Keys |-> candled'[k]]
        /\ late' \subseteq Keys
    BY <1>0, <1>1 DEF flush_all, MarketTypes
  <2>2. /\ candle' \in [Keys -> CandleRecords \cup {None}] /\ candled' \in [Keys -> Nat]
    BY <2>1, CandleOfFlush
  <2> QED
    BY <1>0, <1>1, <2>1, <2>2 DEF MarketTypes
<1>3. NormInv'
  BY <1>0, <1>1 DEF NormInv
<1>4. BarInv' /\ OrderInv'
  BY <1>1, CandleOfFlush DEF BarInv, OrderInv
<1>5. CountInv'
  <2> SUFFICES ASSUME NEW k \in Keys
               PROVE  (candled[k] + InBar(k) + InHand(k) = Cardinality(Fanned(k)))'
    BY DEF CountInv
  <2>1. InHand(k)' = 0 /\ InHand(k) = 0
    BY <1>0, <1>1 DEF InHand, NormInv
  <2>2. Cardinality(Fanned(k))' = Cardinality(Fanned(k)) /\ Cardinality(Fanned(k)) \in Nat
    BY <1>0, <1>1, FannedFinite DEF Fanned
  <2>3. candled'[k] = candled[k] + InBar(k) /\ InBar(k)' = 0 /\ candled'[k] \in Nat
    BY CandleOfFlush DEF InBar
  <2> QED
    BY <1>0, <2>1, <2>2, <2>3 DEF CountInv
<1> QED
  BY <1>2, <1>3, <1>4, <1>5

LEMMA PopTickStep ==
  ASSUME MarketInv, PopTick
  PROVE  MarketTypes' /\ NormInv' /\ BarInv' /\ CountInv' /\ OrderInv'
<1>0. MarketTypes /\ NormInv
  BY DEF MarketInv
<1> DEFINE tick == Head(raw_queue)
<1>1. /\ norm.pc = "pop" /\ phase = "up" /\ phase' = phase /\ raw_queue # << >>
      /\ raw_queue' = Tail(raw_queue)
      /\ norm' = norm \/ (norm' = [pc |-> "push", tick |-> tick] /\ ~ Insane(tick))
      /\ UNCHANGED <<open_bars, candle, candled, late, history, now, received>>
  BY DEF PopTick, candleVars, disruptorVars
<1>2. tick \in Ticks /\ Tail(raw_queue) \in Seq(Ticks)
  BY <1>0, <1>1 DEF MarketTypes
<1>3. ~ Insane(tick) => tick.ltp > 0
  BY <1>2, FeedAssumption DEF Insane
<1>4. BarInv' /\ CountInv' /\ OrderInv'
  BY <1>1, QuietMarketStep
<1>5. MarketTypes'
  BY <1>0, <1>1, <1>2 DEF MarketTypes
<1>6. NormInv'
  BY <1>0, <1>1, <1>2, <1>3 DEF NormInv
<1> QED
  BY <1>4, <1>5, <1>6

LEMMA OtherMarketSteps ==
  ASSUME MarketInv,
         \/ \E msg \in Messages : OnFrame(msg)
         \/ PublishTicks
         \/ \E c \in Consumers : StrategyStep(c) \/ HaltStrategy(c)
         \/ StopNormalizer \/ StopAll \/ Clock \/ UNCHANGED marketVars
  PROVE  MarketTypes' /\ NormInv' /\ BarInv' /\ CountInv' /\ OrderInv'
<1>0. MarketTypes /\ NormInv
  BY DEF MarketInv
<1>1. /\ UNCHANGED <<open_bars, candle, candled, late, history, norm>>
      /\ phase' = phase \/ (phase = "up" /\ phase' = "stopping")
         \/ (phase = "stopping" /\ phase' = "stopped" /\ norm.pc = "pop")
  BY DEF OnFrame, PublishTicks, Publish, PublishBegin, PublishTick, PublishStore,
         StrategyStep, Consume, ConsumeCheck, ConsumeBegin, ConsumeEnd, ConsumeReturn,
         HaltStrategy, StopNormalizer, StopAll, Clock, marketVars, candleVars, disruptorVars
<1>2. BarInv' /\ CountInv' /\ OrderInv'
  BY <1>1, QuietMarketStep
<1>3. NormInv'
  BY <1>0, <1>1 DEF NormInv
<1> DEFINE InputsTyped == /\ now' \in 0 .. MaxTime /\ received' \in 0 .. MaxMessages
                          /\ raw_queue' \in Seq(Ticks)
<1>4. InputsTyped
  <2>1. ASSUME NEW msg \in Messages, OnFrame(msg)
        PROVE  InputsTyped
    <3>1. Decode(msg, now, received) \in Ticks
      BY <1>0, FeedAssumption DEF MarketTypes
    <3>2. /\ received < MaxMessages /\ received' = received + 1 /\ now' = now
          /\ raw_queue' = raw_queue \/ raw_queue' = Append(raw_queue, Decode(msg, now, received))
      BY <2>1 DEF OnFrame
    <3> QED
      BY <1>0, <3>1, <3>2, FeedAssumption DEF MarketTypes
  <2>2. CASE Clock
    BY <1>0, <2>2, FeedAssumption DEF MarketTypes, Clock
  <2>3. CASE UNCHANGED <<now, received, raw_queue>>
    BY <1>0, <2>3 DEF MarketTypes
  <2>4. \/ \E msg \in Messages : OnFrame(msg)
        \/ Clock
        \/ UNCHANGED <<now, received, raw_queue>>
    BY DEF PublishTicks, StrategyStep, HaltStrategy, StopNormalizer, StopAll, marketVars
  <2> QED
    BY <2>1, <2>2, <2>3, <2>4
<1>5. MarketTypes'
  BY <1>0, <1>1, <1>4 DEF MarketTypes
<1> QED
  BY <1>2, <1>3, <1>5

LEMMA MarketInductive == MarketInv /\ [MarketNext]_marketVars => MarketInv'
<1> SUFFICES ASSUME MarketInv, [MarketNext]_marketVars PROVE MarketInv'
  OBVIOUS
<1>1. DisruptorInv'
  BY MarketIsDisruptor, DisruptorStep DEF MarketInv
<1>2. MarketTypes' /\ NormInv' /\ BarInv' /\ CountInv' /\ OrderInv'
  BY PushTickStep, BuildCandlesStep, FlushAllStep, PopTickStep, OtherMarketSteps
  DEF MarketNext, Normalize, Shutdown, Stopped
<1> QED
  BY <1>1, <1>2 DEF MarketInv

-----------------------------------------------------------------------------
(* Theorems about the market data path *)

LEMMA MarketInvariance == MarketSpec => []MarketInv
  BY MarketInitInv, MarketInductive, PTL DEF MarketSpec

\* The normalizer, the strategy threads and the shutdown use the ring as it is meant
\* to be used: every step of the path is a step of the disruptor or leaves it alone.
THEOREM MarketImplementsDisruptor == MarketSpec => DisruptorSpec
<1>1. MarketInit => DisruptorInit
  BY DEF MarketInit
<1>2. MarketInv /\ [MarketNext]_marketVars => [DisruptorNext]_disruptorVars
  BY MarketIsDisruptor
<1> QED
  BY <1>1, <1>2, MarketInvariance, PTL DEF MarketSpec, DisruptorSpec

\* Nothing that the feed, the normalizer, the strategies and the shutdown do
\* together breaks the disruptor's promises: a strategy that keeps up gets all ticks
\* in order, one that was lapped gets none that is outdated.
THEOREM StrategiesSeeTicks == MarketSpec => [](DeliveredInOrder /\ NeverOutdated)
<1>1. MarketInv => DeliveredInOrder /\ NeverOutdated
  BY DEF MarketInv, DisruptorInv
<1> QED
  BY <1>1, MarketInvariance, PTL

\* For any instruments, intervals and order of ticks, a bar and a candle show the
\* first, highest, lowest and last price of the ticks in them, all of their stretch.
THEOREM BarsShowTicks == MarketSpec => []BarsSummarise
<1>1. MarketInv => BarsSummarise
  <2> SUFFICES ASSUME MarketInv, NEW k \in Keys, NEW bar, bar # None,
                      bar = open_bars[k] \/ (candle[k] # None /\ bar = candle[k].bar)
               PROVE  /\ Summarises(bar)
                      /\ \A i \in DOMAIN bar.seen : BarStart(bar.seen[i], k[2]) = bar.start
    BY DEF BarsSummarise
  <2>1. bar \in Bars /\ Shows(bar, k[2])
    BY DEF MarketInv, MarketTypes, CandleRecords, BarInv
  <2>2. Prices(bar) \subseteq Int /\ Volumes(bar) \subseteq Int
    BY <2>1, BarTicks
  <2>3. /\ Highest(Prices(bar), bar.high) /\ Lowest(Prices(bar), bar.low)
        /\ Highest(Volumes(bar), bar.volume)
    BY <2>1 DEF Shows
  <2>4. Max(Prices(bar)) = bar.high /\ Max(Volumes(bar)) = bar.volume
    BY <2>2, <2>3, HighestIsMax
  <2>5. Min(Prices(bar)) = bar.low
    BY <2>2, <2>3, LowestIsMin
  <2> QED
    BY <2>1, <2>4, <2>5 DEF Shows, Summarises, Prices, Volumes
<1> QED
  BY <1>1, MarketInvariance, PTL

\* The two fan-outs of the normalizer agree: between two ticks the candles and the
\* open bar hold every tick that went to the strategies exactly once.
THEOREM CandlesHoldEveryTick == MarketSpec => []CandlesComplete
<1>1. MarketInv => CandlesComplete
  <2> SUFFICES ASSUME MarketInv, norm.pc = "pop", NEW k \in Keys
               PROVE  candled[k] + InBar(k) = Cardinality(Fanned(k))
    BY DEF CandlesComplete, InBar
  <2>1. InHand(k) = 0
    BY DEF InHand
  <2>2. candled[k] \in Nat /\ InBar(k) \in Nat
    BY DEF MarketInv, MarketTypes, InBar, Bars
  <2>3. candled[k] + InBar(k) + InHand(k) = Cardinality(Fanned(k))
    BY DEF MarketInv, CountInv
  <2> QED
    BY <2>1, <2>2, <2>3
<1> QED
  BY <1>1, MarketInvariance, PTL

\* While no tick is late, the candles of a key follow one another without overlap,
\* across flush_all too.
THEOREM CandlesFollow == MarketSpec => CandlesOrdered
<1> DEFINE Follows == \A k \in Keys :
                        /\ k \notin late'
                        /\ candle[k] # None
                        /\ candle'[k] # candle[k]
                        => candle'[k].bar.start > candle[k].close_ts
<1>1. MarketInv /\ [MarketNext]_marketVars => [Follows]_candleVars
  <2> SUFFICES ASSUME MarketInv, [MarketNext]_marketVars, candleVars' # candleVars
               PROVE  Follows
    OBVIOUS
  <2>1. BuildCandles \/ FlushAll
    BY DEF MarketNext, OnFrame, Normalize, PopTick, PushTick, PublishTicks, StrategyStep,
           HaltStrategy, Shutdown, StopNormalizer, StopAll, Clock, Stopped, marketVars
  <2> QED
    BY <2>1, CandleOfTick, CandleOfFlush
<1> QED
  BY <1>1, MarketInvariance, PTL DEF MarketSpec, CandlesOrdered
=============================================================================
