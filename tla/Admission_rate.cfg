SPECIFICATION AdmissionSpec
CONSTANTS
  Strategies = {s1, s2}
  Callers = {own, normalizer}
  max_rate = 1
  burst = 2
  Unit = 2
  StartMinute <- LateMorning
  MaxTime = 4
INVARIANTS
  RateBound
  KillSwitchBounds
SYMMETRY Symmetry
