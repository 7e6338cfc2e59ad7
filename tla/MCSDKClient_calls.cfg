SPECIFICATION Spec
CONSTANTS
  r1 = r1
  r2 = r2
  s1 = s1
  s2 = s2
  loop = loop
  poultry = poultry
  cattle = cattle
  Nil = Nil
  Requests <- TwoRequests
  Sockets <- TwoSockets
  Subscribers = {}
  Games <- TwoGames
  QueueSize = 1
  InFlight = 1
  MaxVersion = 2
SYMMETRY Alike
INVARIANTS
  PendingIsWhoWaits
  SessionMatchesSnapshot
PROPERTY
  NothingSentAfterDoubt
CHECK_DEADLOCK FALSE
