CONSTANTS
  w1 = w1
  w2 = w2
  a = a
  b = b
  t1 = t1
  Target = {t1}
  Worker = {w1, w2}
  NoWorker = NoWorker
  Content = {a, b}
  NoContent = NoContent
  LeaseDuration = 1
  Ahead <- MCAhead
  Delay = {0, 2}
  OrphanAge = 0
  FarFuture = 1
  KeepVersions = 1
  MaxGen = 1
  MaxRev = 2
  Body <- MCBody
  Fault = {}
  Activity = {}
SPECIFICATION DueSpec
INVARIANT DueRequestKept
