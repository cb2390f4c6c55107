CONSTANTS
  c1 = c1
  c2 = c2
  worker = worker
  tracker = tracker
  none = none
  Conns = {c1, c2}
  Worker = worker
  Tracker = tracker
  None = none
SPECIFICATION FairSpec
INVARIANTS
  FindsItself
PROPERTIES
  AllEndTogether
CHECK_DEADLOCK FALSE
