---------------------------- MODULE MCSPSCQueue ----------------------------
(* SPSCQueue on a ring of 4 slots. *)
EXTENDS SPSCQueue

\* static_assert((Capacity & (Capacity - 1)) == 0), and what makes NextPos and
\* Distance the masked arithmetic of the code
ASSUME CapacityIsPowerOf2 == \E k \in 0 .. Capacity : Capacity = 2 ^ k
ASSUME MaskedArithmetic ==
  \A i, j \in Positions : /\ NextPos(i) = (i + 1) % Capacity
                          /\ Distance(i, j) = (i + Capacity - j) % Capacity
=============================================================================
