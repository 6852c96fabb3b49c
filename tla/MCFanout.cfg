CONSTANTS
  t1 = t1
  t2 = t2
  Tenants = {t1, t2}
  Workers = {w1, w2}
  w1 = w1
  w2 = w2
  Occ <- MCOcc
  Schedules <- MCSchedules
  Digest <- MCDigest
  Lags <- MCLags
  BatchSize = 1
  LOCK_SECONDS = 1
  TZ_GRACE_SECONDS = 2
  FANOUT_PERIOD = 2
  None = None
  MaxTime = 7
  MaxQueue = 3
  MaxFaults = 1
SPECIFICATION Spec
INVARIANTS
  WatermarkHonest
  OneFreshWave
  SelfHeals
  OnceWhenPaced
PROPERTY
  WatermarkMonotone
SYMMETRY Symmetry
CHECK_DEADLOCK FALSE
