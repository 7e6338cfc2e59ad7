SPECIFICATION Spec
CONSTANTS
  old = old
  new = new
  h1 = h1
  h2 = h2
  Nil = Nil
  Query = Query
  Commands <- Retried
  Games <- RetriedGames
  Created <- create
  Processes <- TwoProcesses
  Handlers = {h1, h2}
  At <- Overlap
SYMMETRY SwapProcesses
INVARIANTS
  TypeOK
  MemoryIsPrefix
  AnswersAreTrue
PROPERTY
  Promises
