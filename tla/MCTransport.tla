---------------------------- MODULE MCTransport ----------------------------
(* Transport with a back-off of one doubling and a Kafka queue of one place. *)
EXTENDS Transport
=============================================================================
