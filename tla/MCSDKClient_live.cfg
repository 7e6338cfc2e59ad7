SPECIFICATION FairSpec
CONSTANTS
  r1 = r1
  r2 = r2
  s1 = s1
  s2 = s2
  loop = loop
  poultry = poultry
  cattle = cattle
  Nil = Nil
  Requests = {r1}
  Sockets <- TwoSockets
  Subscribers <- Loop
  Games <- OneGame
  QueueSize = 1
  InFlight = 1
  MaxVersion = 2
INVARIANTS
  TypeOK
  SubscriberCatchesUp
PROPERTY
  EveryRequestEnds
CHECK_DEADLOCK FALSE
