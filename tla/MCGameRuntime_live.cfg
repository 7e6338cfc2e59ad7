SPECIFICATION FairSpec
CONSTANTS
  old = old
  new = new
  h1 = h1
  h2 = h2
  Nil = Nil
  Query = Query
  Commands <- OneEach
  Games <- OneEachGames
  Created <- create
  Processes <- OneProcess
  Handlers = {h1, h2}
  At <- BothAtNew
PROPERTIES
  CallsReturn
  CloseCompletes
