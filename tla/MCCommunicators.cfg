CONSTANTS
  f1 = f1
  f2 = f2
  be = be
  Fronts = {f1, f2}
  Back = be
SPECIFICATION FairSpec
INVARIANTS
  OnePath
  CachedIsListed
  CountCovers
PROPERTIES
  PathsArePolled
  ImplementsService
CHECK_DEADLOCK FALSE
