SPECIFICATION Spec
CONSTANTS
  a = a
  b = b
  l1 = l1
  l2 = l2
  s1 = s1
  s2 = s2
  Nil = Nil
  Games <- TwoGames
  PageSize = 1
  MaxFrames = 3
  Loads <- TwoLoads
  Starting = l1
  Selects <- TwoSelects
SYMMETRY Alike
INVARIANTS
  ViewerShowsSelection
  OnePlayback
  UnchangedGamesAreListed
