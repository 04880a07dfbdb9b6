SPECIFICATION Spec
CONSTANTS
  Sessions = {p1, p2, r}
  Runners = {r}
  MaxAttempts = 2
  Slots = 2
  NONE = NONE
INVARIANT LeaderIsAlive
CHECK_DEADLOCK FALSE
