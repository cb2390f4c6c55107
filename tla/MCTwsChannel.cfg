CONSTANTS
  LogTraffic = TRUE
  MaxOpens = 4
SPECIFICATION Spec
CHECK_DEADLOCK FALSE
INVARIANTS
  OneConnection
  WrittenInTime
  MisreadOnce
  FakeAnswers
