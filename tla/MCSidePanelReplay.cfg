SPECIFICATION PanelSpec
CONSTANTS
  MaxRounds = 2
  MaxCalls = 2
  MaxSends = 3
CHECK_DEADLOCK FALSE
PROPERTIES SentResultsFollowCalls
