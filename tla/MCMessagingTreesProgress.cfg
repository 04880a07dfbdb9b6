SPECIFICATION OrderedFairSpec
CONSTANTS
  n1 = n1
  n2 = n2
  n3 = n3
  chat1 = chat1
  chat2 = chat2
  NONE = NONE
  Nodes = {n1, n2, n3}
  Scopes = {chat1}
  ScopeOf <- OneChat
  Trees = {1}
  Claims = {1, 2, 3}
  MaxAdmissions = 3
PROPERTIES EachTreeIsAFifoServer QueuedPromptIsServed StoppedRunReleasesTree
