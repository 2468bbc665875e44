----------------------------- MODULE MCMomentum -----------------------------
(* Momentum with two instruments and one permitted position, orders of two      *)
(* shares, which may be filled in two parts, and time for two signals of one    *)
(* instrument.                                                                  *)
EXTENDS Momentum, TLC

\* The instruments are treated alike.
InstrumentSymmetry == Permutations(Instruments)
=============================================================================
