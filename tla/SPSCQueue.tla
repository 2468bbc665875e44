----------------------------- MODULE SPSCQueue -----------------------------
(***************************************************************************)
(* The lock-free ring buffer of common/spsc_queue.hpp, one action per      *)
(* access to a shared location: push loads write_pos_, loads read_pos_,    *)
(* writes data_[w], stores write_pos_; pop loads both positions, reads     *)
(* data_[r], stores read_pos_.  One slot always stays empty, so a queue of *)
(* Capacity slots holds Capacity - 1 elements.                             *)
(*                                                                         *)
(* The class is written for one producer.  Producers is the set of threads *)
(* that call push, so that the same module shows what the contract buys    *)
(* and what happens when the engine breaks it.                             *)
(***************************************************************************)
EXTENDS Naturals, Sequences

CONSTANTS
  Capacity,   \* the template parameter
  Items,      \* the elements pushed
  Nil,        \* an empty slot, std::nullopt
  Producers   \* the threads that call push

ASSUME CapacityAssumption == Capacity \in Nat /\ Capacity > 0
ASSUME NilAssumption == Nil \notin Items

VARIABLES
  write_pos,  \* std::atomic<size_t> write_pos_
  read_pos,   \* std::atomic<size_t> read_pos_
  data,       \* std::array<T, Capacity> data_
  prod,       \* per producer: the locals of a push in progress
  cons,       \* the locals of the pop in progress
  answer,     \* what the last push to return answered
  got         \* what the last pop to return answered

queueVars == <<write_pos, read_pos, data, prod, cons, answer, got>>

Positions == 0 .. Capacity - 1

\* (i + 1) & mask_, for a Capacity that is a power of 2 and i a position
NextPos(i) == IF i + 1 = Capacity THEN 0 ELSE i + 1

\* (w - r) & mask_
Distance(w, r) == IF w >= r THEN w - r ELSE w - r + Capacity

IdleProducer == [pc |-> "idle", w |-> 0, item |-> Nil]
IdleConsumer == [pc |-> "idle", r |-> 0, item |-> Nil]

QueueInit ==
  /\ write_pos = 0
  /\ read_pos = 0
  /\ data = [i \in Positions |-> Nil]
  /\ prod = [p \in Producers |-> IdleProducer]
  /\ cons = IdleConsumer
  /\ answer = "none"
  /\ got = Nil

-----------------------------------------------------------------------------
(* push(item), run by thread p *)

\* w = write_pos_.load(relaxed)
PushLoad(p, v) ==
  /\ prod[p].pc = "idle"
  /\ prod' = [prod EXCEPT ![p] = [pc |-> "check", w |-> write_pos, item |-> v]]
  /\ UNCHANGED <<write_pos, read_pos, data, cons, answer, got>>

\* next_w == read_pos_.load(acquire): the queue is full, push returns false
PushFull(p) ==
  /\ prod[p].pc = "check"
  /\ NextPos(prod[p].w) = read_pos
  /\ prod' = [prod EXCEPT ![p] = IdleProducer]
  /\ answer' = "full"
  /\ UNCHANGED <<write_pos, read_pos, data, cons, got>>

\* mutant: write_pos_ is stored before data_[w] is written
PushRoomPublishesFirst(p) ==
  /\ prod[p].pc = "check"
  /\ NextPos(prod[p].w) # read_pos
  /\ write_pos' = NextPos(prod[p].w)
  /\ prod' = [prod EXCEPT ![p].pc = "write"]
  /\ UNCHANGED <<read_pos, data, cons, answer, got>>

PushRoom(p) ==
  /\ prod[p].pc = "check"
  /\ NextPos(prod[p].w) # read_pos
  /\ prod' = [prod EXCEPT ![p].pc = "write"]
  /\ UNCHANGED <<write_pos, read_pos, data, cons, answer, got>>

\* mutant: the element goes to the slot of the next push
PushWriteNextSlot(p) ==
  /\ prod[p].pc = "write"
  /\ data' = [data EXCEPT ![NextPos(prod[p].w)] = prod[p].item]
  /\ prod' = [prod EXCEPT ![p].pc = "store"]
  /\ UNCHANGED <<write_pos, read_pos, cons, answer, got>>

\* data_[w] = item
PushWrite(p) ==
  /\ prod[p].pc = "write"
  /\ data' = [data EXCEPT ![prod[p].w] = prod[p].item]
  /\ prod' = [prod EXCEPT ![p].pc = "store"]
  /\ UNCHANGED <<write_pos, read_pos, cons, answer, got>>

\* write_pos_.store(next_w, release); push returns true
PushStore(p) ==
  /\ prod[p].pc = "store"
  /\ write_pos' = NextPos(prod[p].w)
  /\ prod' = [prod EXCEPT ![p] = IdleProducer]
  /\ answer' = "ok"
  /\ UNCHANGED <<read_pos, data, cons, got>>

-----------------------------------------------------------------------------
(* pop() and try_pop(out), run by the one consumer, which alone stores     *)
(* read_pos_: its relaxed load of it always gives its own last store.      *)

\* r == write_pos_.load(acquire): the queue is empty
PopEmpty ==
  /\ cons.pc = "idle"
  /\ read_pos = write_pos
  /\ got' = Nil
  /\ UNCHANGED <<write_pos, read_pos, data, prod, cons, answer>>

PopCheck ==
  /\ cons.pc = "idle"
  /\ read_pos # write_pos
  /\ cons' = [pc |-> "read", r |-> read_pos, item |-> Nil]
  /\ UNCHANGED <<write_pos, read_pos, data, prod, answer, got>>

\* item = data_[r]
PopRead ==
  /\ cons.pc = "read"
  /\ cons' = [cons EXCEPT !.pc = "store", !.item = data[cons.r]]
  /\ UNCHANGED <<write_pos, read_pos, data, prod, answer, got>>

\* read_pos_.store((r + 1) & mask_, release); pop returns the item
PopStore ==
  /\ cons.pc = "store"
  /\ read_pos' = NextPos(cons.r)
  /\ got' = cons.item
  /\ cons' = IdleConsumer
  /\ UNCHANGED <<write_pos, data, prod, answer>>

-----------------------------------------------------------------------------
PushStep(p) == PushFull(p) \/ PushRoom(p) \/ PushWrite(p) \/ PushStore(p)
PopStep == PopEmpty \/ PopCheck \/ PopRead \/ PopStore

QueueNext ==
  \/ \E p \in Producers : \/ \E v \in Items : PushLoad(p, v)
                          \/ PushStep(p)
  \/ PopStep

QueueSpec == QueueInit /\ [][QueueNext]_queueVars

-----------------------------------------------------------------------------
(* The elements between the two positions, oldest first: the refinement    *)
(* mapping of the abstract queue.                                          *)

SlotOf(r, i) == IF r + i - 1 < Capacity THEN r + i - 1 ELSE r + i - 1 - Capacity

Between(w, r, d) == [i \in 1 .. Distance(w, r) |-> d[SlotOf(r, i)]]

size == Distance(write_pos, read_pos)
Contents == Between(write_pos, read_pos, data)

Abstract == INSTANCE BoundedFIFO
              WITH Bound <- Capacity - 1, queue <- Contents,
                   answer <- answer, got <- got

-----------------------------------------------------------------------------
\* Every location holds a value of its C++ type, and positions stay in range.
QueueTypeOK ==
  /\ write_pos \in Positions
  /\ read_pos \in Positions
  /\ data \in [Positions -> Items \cup {Nil}]
  /\ prod \in [Producers -> [pc : {"idle", "check", "write", "store"},
                             w : Positions, item : Items \cup {Nil}]]
  /\ cons \in [pc : {"idle", "read", "store"}, r : Positions,
               item : Items \cup {Nil}]
  /\ answer \in {"none", "ok", "full"}
  /\ got \in Items \cup {Nil}

\* No two threads are about to access one slot of data_, one of them to write
\* it (data_[w] = item in push, item = data_[r] in pop): the copies of a Fill
\* or a tick are never torn, although no lock protects them.
NoDataRace ==
  /\ \A p \in Producers :
       prod[p].pc = "write" => ~(cons.pc = "read" /\ cons.r = prod[p].w)
  /\ \A p, q \in Producers :
       p # q /\ prod[p].pc = "write" /\ prod[q].pc = "write"
         => prod[p].w # prod[q].w

\* push and pop, interleaved at every atomic access, look like the one-step
\* operations of a queue of Capacity - 1 elements: nothing is lost, repeated,
\* reordered or overwritten, "full" is only answered by a full queue and
\* "empty" only by an empty one.
ImplementsFIFO == Abstract!FIFOSpec
=============================================================================
