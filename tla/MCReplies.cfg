SPECIFICATION MCSpec
CONSTANTS
  NONE = NONE
  Items = {1, 2}
  MaxAttempts = 3
  MaxContent = 3
  MaxBlocks = 2
  MaxBuffered = 7
  MaxRedirects = 2
  Indices = {1, 2}
  MaxEvents = 4
  Requests = {1, 2, 3, 4}
  MaxStored = 2
  MaxRounds = 2
  MaxCalls = 2
  MaxSends = 3
  MaxFrames = 3
  Pages = {p1, p2}
  p1 = p1
  p2 = p2
  ModelRefs = {m1, m2}
  m1 = m1
  m2 = m2
  Routes = {m2}
  MaxEdits = 2
  MaxHands = 1
  Polls = {1, 2}
  Clicks = {1, 2}
  MaxInstances = 3
  Gets = {1, 2}
  MaxOrders = 3
  Rungs = 2
  MaxScans = 1
  MaxSegments = 3
  MaxBlockSize = 6
SYMMETRY Symmetry
CHECK_DEADLOCK FALSE
INVARIANTS StreamsAreLegal EachRequestIsAnswered ContinuationsAreServed
PROPERTIES RequestsAreReplayable OperatorIsServed
