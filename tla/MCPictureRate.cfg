SPECIFICATION Spec
CONSTANTS
  Need <- MCNeed
  Caps = {9, 16, 60}
  UP = 1
  DOWN = 1
  CRASH = 1
  DWELL = 2
  TIER_BACKOFF = 2
  TIER_BACKOFF_MAX = 4
  TIER_SETTLED = 4
  SMOOTH_WIN = 5
  SMOOTH_IDR_N = 2
  SMOOTH_UP_MAX = 1
  SMOOTH_FLOOR_TIER = 1
  SMOOTH_UP_HOLD = 3
  SMOOTH_UP_QUIET = 2
  MaxLost = 2
  Blocks = 10
  Steps = 6
  GapMax = 3
  Cameras = {"cam1", "cam2"}
  NoUrl = "none"
  Marked = {"cam2"}
  Own <- MCOwn
  Accepts <- MCAccepts
  Top = 3
  CAM_MIN_KBPS = 1
  Ceilings = {0}
INVARIANT NeverAbove
PROPERTIES OneBurstOneRung Settles OnlyLossCuts Follows
