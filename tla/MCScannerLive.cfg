CONSTANTS
  r1 = r1
  r2 = r2
  r3 = r3
  r4 = r4
  Requests = {r1, r2, r3}
  MaxActive = 2
  MaxId = 6
  Announced = {2}
  MaxDrops = 1
SPECIFICATION FairSpec
PROPERTIES
  PostponedServed
