SPECIFICATION MCSpec
CONSTANTS
  p1 = p1
  p2 = p2
  r = r
  Sessions = {p1, p2, r}
  Runners = {r}
  MaxAttempts = 2
  Slots = 2
  NONE = NONE
  Providers = {codex, other}
  Account = codex
  Syncs = {s1, s2}
  MaxRevision = 2
  Missing = Missing
  Processes = {host}
  MaxIssued = 3
  MaxMessages = 4
  MaxBlocks = 2
  Attempts = 4
INVARIANTS ProbeLeadsEpisode WaitersAreLed SlotsAccounted
INVARIANTS CatalogIsUsable HistoryIsReplayed
PROPERTIES StaleOutcomeIsInert CoalescedFailTogether EveryCallReturns CancelledLoginStaysOut
CHECK_DEADLOCK FALSE
