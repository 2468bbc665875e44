---------------------------- MODULE BoundedFIFO ----------------------------
(***************************************************************************)
(* What a non-blocking bounded queue promises to its callers, whatever its *)
(* implementation: an element is added at the tail or refused because the  *)
(* queue is full, and taken from the head or not because it is empty; each *)
(* call takes effect in one step.  SPSCQueue (common/spsc_queue.hpp) is    *)
(* shown to implement it when one thread pushes and one thread pops.       *)
(***************************************************************************)
EXTENDS Naturals, Sequences

CONSTANTS
  Items,  \* the elements
  Nil,    \* "no element": std::nullopt
  Bound   \* how many elements the queue holds when it is full

VARIABLES
  queue,  \* the elements, oldest first
  answer, \* what the last push returned: "none" before the first one
  got     \* what the last pop returned

fifoVars == <<queue, answer, got>>

FIFOInit ==
  /\ queue = << >>
  /\ answer = "none"
  /\ got = Nil

Put(v) ==
  /\ Len(queue) < Bound
  /\ queue' = Append(queue, v)
  /\ answer' = "ok"
  /\ UNCHANGED got

PutRefused ==
  /\ Len(queue) = Bound
  /\ answer' = "full"
  /\ UNCHANGED <<queue, got>>

Get ==
  /\ queue # << >>
  /\ got' = Head(queue)
  /\ queue' = Tail(queue)
  /\ UNCHANGED answer

GetNothing ==
  /\ queue = << >>
  /\ got' = Nil
  /\ UNCHANGED <<queue, answer>>

FIFONext ==
  \/ \E v \in Items : Put(v)
  \/ PutRefused
  \/ Get
  \/ GetNothing

FIFOSpec == FIFOInit /\ [][FIFONext]_fifoVars
=============================================================================
