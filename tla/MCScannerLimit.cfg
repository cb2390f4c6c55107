CONSTANTS
  r1 = r1
  r2 = r2
  r3 = r3
  r4 = r4
  Requests = {r1, r2, r3, r4}
  MaxActive = 2
  MaxId = 9
  Announced = {1, 4}
  MaxDrops = 1
SPECIFICATION Spec
SYMMETRY Sym
INVARIANTS
  SlotsAreTransmitted
  WithinTwsLimitButZero
  TickersUnique
  NoIdleSlot
PROPERTIES
  OldestFirst
  ImplementsService
