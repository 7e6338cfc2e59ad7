SPECIFICATION FairSpec
CONSTANTS
  p1 = p1
  p2 = p2
  p3 = p3
  x1 = x1
  x2 = x2
  Nil = Nil
  Peers = {p1, p2}
  Players = {x1, x2}
  Buffer = 1
  MaxVersion = 3
PROPERTIES
  HandlersReturn
  LostConnectionsLeave
CHECK_DEADLOCK FALSE
