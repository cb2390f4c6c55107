CONSTANTS
  t1 = t1
  t2 = t2
  t3 = t3
  Threads = {t1, t2, t3}
  Width = 4
  Valid = {0, 1, 2}
  MaxCalls = 7
SPECIFICATION Spec
INVARIANTS
  NoIdTwice
PROPERTIES
  ImplementsService
CHECK_DEADLOCK FALSE
