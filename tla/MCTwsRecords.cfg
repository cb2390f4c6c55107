CONSTANTS
  MaxBlocks = 4
SPECIFICATION RecordsSpec
INVARIANTS
  SentAsGiven
  NothingLeaks
