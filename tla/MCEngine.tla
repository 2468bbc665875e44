------------------------------ MODULE MCEngine ------------------------------
(* Engine with two strategies, so that one is stopped while the other runs. *)
EXTENDS Engine
=============================================================================
