SPECIFICATION Spec
CONSTANTS
  Cap = 4
  Laps = 3
  Items = {i1, i2}
  NoItem = NoItem
INVARIANTS TypeOK NoSlotRace
PROPERTY ImplementsQueue
