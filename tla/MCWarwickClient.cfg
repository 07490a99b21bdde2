CONSTANTS
  Caller = {c1, c2}
  Session = {1}
  Tier = {"teacher"}
  TierOf <- MCTierOf
  MaxBackoff = 2
  MaxLogins = 3
  Waiter = {a1, a2}
  MaxCalls = 3
  Worker = {w1, w2}
  MaxRows = 7
  PageSize = 2
  MaxChanges = 2
SPECIFICATION ClientSpec
INVARIANTS
  SessionInOnePlace
  NoForeignCancellation OneLiveProducer
  AcceptedWasServed
PROPERTIES EveryCallEnds EveryCallerAnswered
CHECK_DEADLOCK FALSE
