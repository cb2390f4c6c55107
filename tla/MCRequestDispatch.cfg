CONSTANTS
  Issued <- AllKinds
  Made <- OwnKinds
  Ids = {1, 2, 3}
  MaxActive = 1
  MaxMsgs = 3
  MaxDrops = 1
SPECIFICATION Spec
INVARIANTS
  NoneStuck
PROPERTIES
  CancelLeavesNone
  OthersKeepRunning
