SPECIFICATION FairSpec
CONSTANTS
  Airs <- MCAirs
  CQ_MAX_AIR_US = 2
  CQ_MAX_BLOCKS = 2
  MaxSeq = 2
  MaxAgain = 2
  None = None
INVARIANTS AirBounded Conserved
PROPERTIES WireInOrder RetxFirst NothingStalls
CHECK_DEADLOCK FALSE
