SPECIFICATION Spec
CONSTANTS
  IDLE_RESET = 4
  MaxChunk = 3
  MaxTime = 16
INVARIANT RateIsKept
INVARIANT BurstIsBounded
CHECK_DEADLOCK FALSE
