SPECIFICATION AccountSpec
CONSTANTS
  NONE = NONE
  Processes = {p1, p2}
  MaxIssued = 3
INVARIANTS RefreshIsDeduplicated
CHECK_DEADLOCK FALSE
