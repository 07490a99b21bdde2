CONSTANTS
  Target = {t1}
  Client = {c1}
  MaxCommitted = 2
  IngressDepth = 1
  QueueDepth = 1
  MaxConns = 1
  MaxBreaks = 2
  Student = {s1}
  Loop = {w1, w2}
  MaxChanges = 2
  MaxStarts = 2
  Request = {r1, r2}
  MaxActivity = 3
  Stops = TRUE
SPECIFICATION UpdateSpec
INVARIANTS NoGapOnceReady NoIdleUnderLease
PROPERTIES CommitsArrive   ActivityServed RoomsGoQuiet
CHECK_DEADLOCK FALSE
