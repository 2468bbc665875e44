--------------------------- MODULE TickDisruptor ---------------------------
(***************************************************************************)
(* common/disruptor.hpp: one publisher, many consumers, a ring of slots    *)
(* with a sequence number each.  Every consumer has a cursor of its own    *)
(* and gets every tick.  The publisher looks at no cursor: it overwrites   *)
(* what a slow consumer has not read, or is reading.                       *)
(*                                                                         *)
(* A tick is copied in two steps on both sides, and a copy at whose two    *)
(* ends the slot holds different things is Torn: the code's copies are     *)
(* unsynchronised when the publisher laps a consumer, and Torn is any      *)
(* mixture of two ticks.                                                   *)
(***************************************************************************)
EXTENDS Integers, Sequences

CONSTANTS
  BUFFER_SIZE,
  Consumers,     \* the strategies' threads
  Ticks,         \* contents of a slot
  Torn           \* a tick that was not published, or no tick at all

ASSUME RingAssumption == BUFFER_SIZE \in Nat \ {0} /\ Torn \notin Ticks

VARIABLES
  producer_seq,
  slot_tick, slot_sequence,   \* buffer_
  pub,           \* the publisher's locals
  cursor,        \* per consumer: consumer_seq
  take,          \* per consumer: its try_consume, and out
  history,       \* ghost: what was pushed
  lapped         \* ghost: consumers that fell more than BUFFER_SIZE behind

disruptorVars == <<producer_seq, slot_tick, slot_sequence, pub, cursor, take,
                   history, lapped>>

Ring == 0 .. BUFFER_SIZE - 1
SlotOf(seq) == seq % BUFFER_SIZE

\* next of try_consume
NextSeq(c) == cursor[c] + 1

DisruptorInit ==
  /\ producer_seq = -1
  /\ slot_tick = [i \in Ring |-> Torn]
  /\ slot_sequence = [i \in Ring |-> -1]
  /\ pub = [pc |-> "idle", tick |-> Torn]
  /\ cursor = [c \in Consumers |-> -1]
  /\ take = [c \in Consumers |-> [pc |-> "idle", out |-> Torn]]
  /\ history = << >>
  /\ lapped = {}

-----------------------------------------------------------------------------
(* push *)

\* With one publisher, seq of publish is producer_seq until the next claim.
ClaimNext(tick) ==
  /\ pub.pc = "idle"
  /\ producer_seq' = producer_seq + 1
  /\ pub' = [pc |-> "claimed", tick |-> tick]
  /\ history' = Append(history, tick)
  /\ lapped' = lapped \cup {c \in Consumers : producer_seq' - cursor[c] > BUFFER_SIZE}
  /\ UNCHANGED <<slot_tick, slot_sequence, cursor, take>>

\* mutant: the sequence number is stored before the tick is written
PublishBeginStoresFirst ==
  /\ pub.pc = "claimed"
  /\ pub' = [pub EXCEPT !.pc = "writing"]
  /\ slot_tick' = [slot_tick EXCEPT ![SlotOf(producer_seq)] = Torn]
  /\ slot_sequence' = [slot_sequence EXCEPT ![SlotOf(producer_seq)] = producer_seq]
  /\ UNCHANGED <<producer_seq, cursor, take, history, lapped>>

\* slot.tick = tick begins ...
PublishBegin ==
  /\ pub.pc = "claimed"
  /\ pub' = [pub EXCEPT !.pc = "writing"]
  /\ slot_tick' = [slot_tick EXCEPT ![SlotOf(producer_seq)] = Torn]
  /\ UNCHANGED <<producer_seq, slot_sequence, cursor, take, history, lapped>>

\* ... and ends.
PublishTick ==
  /\ pub.pc = "writing"
  /\ pub' = [pub EXCEPT !.pc = "written"]
  /\ slot_tick' = [slot_tick EXCEPT ![SlotOf(producer_seq)] = pub.tick]
  /\ UNCHANGED <<producer_seq, slot_sequence, cursor, take, history, lapped>>

PublishStore ==
  /\ pub.pc = "written"
  /\ pub' = [pc |-> "idle", tick |-> Torn]
  /\ slot_sequence' = [slot_sequence EXCEPT ![SlotOf(producer_seq)] = producer_seq]
  /\ UNCHANGED <<producer_seq, slot_tick, cursor, take, history, lapped>>

Publish == PublishBegin \/ PublishTick \/ PublishStore

-----------------------------------------------------------------------------
(* try_consume, of consumer c; it answers false, and changes nothing, while *)
(* the sequence number of its slot is smaller than next                     *)

\* mutant: a slot that was ever published will do
ConsumeCheckPublished(c) ==
  /\ take[c].pc = "idle"
  /\ slot_sequence[SlotOf(NextSeq(c))] >= 0
  /\ take' = [take EXCEPT ![c].pc = "ready"]
  /\ UNCHANGED <<producer_seq, slot_tick, slot_sequence, pub, cursor, history, lapped>>

\* mutant: only the very tick the cursor names is taken
ConsumeCheckEqual(c) ==
  /\ take[c].pc = "idle"
  /\ slot_sequence[SlotOf(NextSeq(c))] = NextSeq(c)
  /\ take' = [take EXCEPT ![c].pc = "ready"]
  /\ UNCHANGED <<producer_seq, slot_tick, slot_sequence, pub, cursor, history, lapped>>

ConsumeCheck(c) ==
  /\ take[c].pc = "idle"
  /\ slot_sequence[SlotOf(NextSeq(c))] >= NextSeq(c)
  /\ take' = [take EXCEPT ![c].pc = "ready"]
  /\ UNCHANGED <<producer_seq, slot_tick, slot_sequence, pub, cursor, history, lapped>>

\* out = slot.tick begins ...
ConsumeBegin(c) ==
  /\ take[c].pc = "ready"
  /\ take' = [take EXCEPT ![c] = [pc |-> "reading",
                                  out |-> slot_tick[SlotOf(NextSeq(c))]]]
  /\ UNCHANGED <<producer_seq, slot_tick, slot_sequence, pub, cursor, history, lapped>>

\* ... and ends, and the cursor moves on.
ConsumeEnd(c) ==
  LET tick == slot_tick[SlotOf(NextSeq(c))]
  IN /\ take[c].pc = "reading"
     /\ cursor' = [cursor EXCEPT ![c] = NextSeq(c)]
     /\ take' = [take EXCEPT ![c] = [pc |-> "taken",
                                     out |-> IF tick = take[c].out THEN tick ELSE Torn]]
     /\ UNCHANGED <<producer_seq, slot_tick, slot_sequence, pub, history, lapped>>

\* The caller is done with the tick.
ConsumeReturn(c) ==
  /\ take[c].pc = "taken"
  /\ take' = [take EXCEPT ![c] = [pc |-> "idle", out |-> Torn]]
  /\ UNCHANGED <<producer_seq, slot_tick, slot_sequence, pub, cursor, history, lapped>>

Consume(c) == ConsumeCheck(c) \/ ConsumeBegin(c) \/ ConsumeEnd(c)

DisruptorNext ==
  \/ \E tick \in Ticks : ClaimNext(tick)
  \/ Publish
  \/ \E c \in Consumers : Consume(c) \/ ConsumeReturn(c)

DisruptorSpec == DisruptorInit /\ [][DisruptorNext]_disruptorVars

-----------------------------------------------------------------------------
\* Every variable has its type, and nobody is ahead of the publisher.
DisruptorTypeOK ==
  /\ producer_seq \in Nat \cup {-1}
  /\ slot_tick \in [Ring -> Ticks \cup {Torn}]
  /\ slot_sequence \in [Ring -> -1 .. producer_seq]
  /\ pub \in [pc : {"idle", "claimed", "writing", "written"}, tick : Ticks \cup {Torn}]
  /\ cursor \in [Consumers -> -1 .. producer_seq]
  /\ take \in [Consumers -> [pc : {"idle", "ready", "reading", "taken"},
                             out : Ticks \cup {Torn}]]
  /\ history \in Seq(Ticks)
  /\ lapped \subseteq Consumers

\* A strategy that never falls more than BUFFER_SIZE ticks behind gets every tick,
\* once, in the order of publication and in one piece, although the publisher does
\* not know where it is: what try_consume hands out is the tick its cursor names.
DeliveredInOrder ==
  \A c \in Consumers :
    take[c].pc = "taken" /\ c \notin lapped
      => /\ cursor[c] + 1 \in DOMAIN history
         /\ take[c].out = history[cursor[c] + 1]

\* A strategy that was lapped may miss ticks, see one twice or in pieces, but what
\* it sees in one piece is never older than the tick its cursor names.
NeverOutdated ==
  \A c \in Consumers :
    take[c].pc = "taken" /\ take[c].out # Torn
      => \E n \in DOMAIN history : n > cursor[c] /\ take[c].out = history[n]
=============================================================================
