SPECIFICATION Spec
CONSTANTS
  Conceal = FALSE
  Ltr = TRUE
  LTR_MAX_TRIES = 2
  STREAK = 2
  Top = 3
  Start = 2
  Thresh <- ThreshV
  Weight <- WeightV
  Fresh = 4
  StableFor = 8
  MemFor = 4
  RetryMin = 2
  RetryMax = 5
  CLIMB_FAIL_S = 4
  CLIMB_OK_S = 6
  REP2_OUT_N = 12
  REP2_OUT_WIN = 3
  BlindFloor = 1
  BlindHold = FALSE
  Profiles <- ProfilesV
  FirstProfiles <- FirstV
  DeadLimit = 11
  MaxChanges = 2
INVARIANT LeavesDead
PROPERTIES Recovers RepairEnds Settles RepeatEnds
