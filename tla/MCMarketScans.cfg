CONSTANTS
  f1 = f1
  f2 = f2
  Farms = {f1, f2}
  Scans = {"gain", "lose"}
  MaxListed = 3
  MaxDrops = 2
  MaxBad = 1
SPECIFICATION FairSpec
INVARIANTS
  UpIsListed
  PumpIsPrimed
  SubscriptionBound
PROPERTIES
  ScansGetGoing
