SPECIFICATION FairDelivery
CONSTANTS
  MaxId = 3
  IdMod = 16
  AHEAD = 2
  BEHIND = 4
  Holds <- HoldsV
  MaxAge = 2
  MaxBatch = 2
  None = None
  Data <- DataV
  Parity <- ParityV
  KEEP = 3
  DONE = 2
  LAG = 2
  QUIET = 1
  PARTIAL_MAX = 2
  PartialOk = TRUE
  NACK_SPAN = 3
  NACK_CAP = 1
  NACK_FRESH = 1
  NACK_KEEP = 1
INVARIANT Accounted
PROPERTIES
  KeepsPromise
  FramesLeave
  VanishedExplained
CHECK_DEADLOCK FALSE
