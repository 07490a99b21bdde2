CONSTANTS
  r1 = r1
  r2 = r2
  r3 = r3
  t1 = t1
  t2 = t2
  w1 = w1
  w2 = w2
  Run = {r1, r2, r3}
  Target = {t1, t2}
  Worker = {w1, w2}
  NoRun = NoRun
  TargetOf <- MCTargetOf
  WorkerOf <- MCWorkerOf
  Ahead <- MCAhead
  BaseRate = 500
  BaseConc = 1
  Burst = 2
  MinRate = 250
  RateStep = 250
  Unit = 1000
  HealthyRun = 1
  Threshold = 1
  ShortPause = 1
  LongPause = 2
  RetryAfter = {0}
  FetchTimeout = 1
  Grace = 2
  Outcomes = {"changed", "rate_limited", "auth_error", "transient_error"}
  MaxNow = 3
  Minute = 1
  Classes <- LiveClasses
  RetryAfters <- Waits
  InFlight = FALSE
  MaxSeeds = 2
SPECIFICATION ControlSpec
INVARIANTS
  RateBound SingleFetchesBounded
  
PROPERTY PauseRespected
CHECK_DEADLOCK FALSE
