SPECIFICATION MCSpec
CONSTANTS
  NONE = NONE
  Users = {u1, u2}
  Runtimes = {1, 2, 3}
  Supervisors = {1, 2}
  MaxVersion = 1
  MaxRestarts = 2
  Runs = {r1, r2}
  Ids = {i1, i2}
  Tools = {1, 2}
  MaxAttempts = 4
  MaxContent = 2
  Opens = {o1}
  Keys = {k1, k2}
  Slots = 2
  RateLimit = 1
  MaxFailures = 2
CHECK_DEADLOCK FALSE
INVARIANTS LeasedStaysOpen RetiredIsAccountedFor ClosedMeansClean RestartsAreServed NoOrphans
INVARIANTS ContractKept LeaseOutlivesStream HedgeSlotsReturn
PROPERTIES EachGenerationIsLeased WaitsEnd RequestEnds
