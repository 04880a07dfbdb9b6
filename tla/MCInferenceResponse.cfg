SPECIFICATION RequestSpec
CONSTANTS
  Tools = {1}
  MaxAttempts = 4
  MaxContent = 1
INVARIANT MessageStartsOnce
CHECK_DEADLOCK FALSE
