CONSTANTS
  MaxWorker = 1
  MaxWrites = 1
  MaxAttempts = 1
  Uses <- StopAllUse
CHECK_DEADLOCK FALSE
SPECIFICATION FairRoomSpec
PROPERTY StopAllReturns
