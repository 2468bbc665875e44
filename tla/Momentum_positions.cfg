SPECIFICATION MomentumSpec
CONSTANTS
  Instruments = {x, y}
  NoInstrument = none
  COOLDOWN = 2
  max_positions = 1
  Quantities = {0, 2}
  MaxOrders = 2
  MaxTime = 4
SYMMETRY InstrumentSymmetry
INVARIANTS
  EntriesSpaced
  OneExitPerThread
