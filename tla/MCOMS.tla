------------------------------- MODULE MCOMS -------------------------------
(* OMS on small instances. *)
EXTENDS OMS

\* The first order's trades are reported without a trade id.
FirstOrderAnonymous == {e \in TradeIds : e[1][1] = 1}
=============================================================================
