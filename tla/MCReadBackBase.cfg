SPECIFICATION Spec
CONSTANTS
  MaxSeq = 7
  MOD = 6
  HALF = 3
  FAR = 2
  NACK_SPAN = 2
  NACK_CAP = 1
  ARQ_CACHE = 6
  MAX_RETX = 1
  Uncached <- MCBase
  Rows <- MCRows
  LongestLoss = 1
  LatestRetry = 3
  Dup = FALSE
  MaxQueued = 1
  MaxNacks = 1
  None = None
  SoftMod = 8
  SoftHalf = 4
  SoftFar = 3
  SoftSpan = 3
  SoftNacks = 2
  SoftCache = 4
  SoftRetx = 2
  HARQ_CAP = 1
  DELIVERED_CAP = 5
  SUBFRAMES = 2
  FRAME = 2
  MaxBlocks = 6
  MaxOnAir = 3
  MaxBad = 2
  MaxRestarts = 1
  LIST_MAX = 2
  TEXT_MAX = 3
  TLM_MAX = 2
  LIMIT = 2
  MAX_BODY = 64
  PAYLOAD = 70
  MaxSent = 2
  Channels = {1, 2}
  Widths = {1, 2}
  Full = 1
  Saves = {"s1", "s2"}
  MaxSets = 1
INVARIANT ReadAsItself
CHECK_DEADLOCK FALSE
