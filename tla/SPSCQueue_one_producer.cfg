SPECIFICATION QueueSpec
CONSTANTS
  Capacity = 4
  Items = {a, b}
  Nil = Nil
  Producers = {p1}
INVARIANTS
  NoDataRace
PROPERTIES
  ImplementsFIFO
