--------------------------- MODULE KafkaPublisher ---------------------------
(***************************************************************************)
(* transport/kafka_publisher.cpp over librdkafka (external): produce puts  *)
(* a copy of the message into a bounded queue that all topics share, the   *)
(* library delivers it or gives it up, and a message holds its place until *)
(* its delivery report was served, which the poll thread does.  Messages   *)
(* are only counted; published_ and errors_, which nobody reads, are left  *)
(* out.                                                                    *)
(***************************************************************************)
EXTENDS Naturals

CONSTANT KafkaRoom   \* queue.buffering.max.messages

ASSUME RoomAssumption == KafkaRoom \in Nat \ {0}

VARIABLES
  healthy,     \* healthy_, set by the constructor only
  outbox,      \* messages that wait for the broker
  reports,     \* delivery reports that wait for poll
  polling      \* delivery_poll_loop runs

kafkaVars == <<healthy, outbox, reports, polling>>

\* The constructor, with a producer or without
KafkaInit ==
  /\ healthy \in BOOLEAN
  /\ outbox = 0
  /\ reports = 0
  /\ polling = healthy

Full == outbox + reports = KafkaRoom

\* publish_tick, publish_fill, publish_portfolio, publish_alert.  produce's answer
\* is not looked at: with the queue full the new message is gone.
Produce ==
  /\ outbox' = IF healthy /\ ~ Full THEN outbox + 1 ELSE outbox
  /\ UNCHANGED <<healthy, reports, polling>>

\* librdkafka delivers a message, or gives it up after message.timeout.ms.
Transmit ==
  /\ outbox > 0
  /\ outbox' = outbox - 1
  /\ reports' = reports + 1
  /\ UNCHANGED <<healthy, polling>>

\* mutant: delivery reports are never polled
PollNothing ==
  /\ polling /\ reports > 0
  /\ UNCHANGED kafkaVars

\* delivery_poll_loop: poll serves the reports, DrCb counts the failures.
Poll ==
  /\ polling /\ reports > 0
  /\ reports' = 0
  /\ UNCHANGED <<healthy, outbox, polling>>

\* ~KafkaPublisher: the poll thread is joined; flush serves the reports that come
\* within five seconds.
KafkaDestroy ==
  /\ polling' = FALSE
  /\ UNCHANGED <<healthy, outbox, reports>>
=============================================================================
