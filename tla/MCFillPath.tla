---------------------------- MODULE MCFillPath ----------------------------
(* FillPath on small instances; the constants are in the configurations. *)
EXTENDS FillPath
===========================================================================
