---------------------------- MODULE MCAdmission ----------------------------
(* The run starts at a minute of the UTC week before the answer of is_open *)
(* changes.  Neither strategies nor threads differ in what they do.        *)
EXTENDS Admission, TLC

MondayAt(hour, min) == 1440 + hour * 60 + min
LateMorning == MondayAt(4, 28)

Symmetry == Permutations(Strategies) \cup Permutations(Callers)
=============================================================================
