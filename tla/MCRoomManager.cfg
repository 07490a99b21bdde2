CONSTANTS
  MaxWorker = 2
  MaxWrites = 1
  MaxAttempts = 1
  Uses <- MCUses
CHECK_DEADLOCK FALSE
SPECIFICATION RoomSpec
INVARIANTS OneLiveWorker
 
