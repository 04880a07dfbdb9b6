SPECIFICATION Spec
CONSTANTS
  n1 = n1
  n2 = n2
  n3 = n3
  chat1 = chat1
  chat2 = chat2
  NONE = NONE
  Nodes = {n1, n2, n3}
  Scopes = {chat1, chat2}
  ScopeOf <- TwoChats
  Trees = {1, 2}
  Claims = {1, 2, 3}
  MaxAdmissions = 3
PROPERTIES StopDrainsEveryQueue
