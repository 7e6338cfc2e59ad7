SPECIFICATION Spec
CONSTANTS
  p1 = p1
  p2 = p2
  p3 = p3
  p4 = p4
  p5 = p5
  goose = goose
  donkey = donkey
  Nil = Nil
  Donkey = donkey
  Animals <- TwoSpecies
  Identities <- FivePlayers
  Bids <- NoBids
  Offers <- ZeroOffers
SYMMETRY AnyIdentity
INVARIANTS
  AnimalsConserved
  SomeoneCanMove
  FinishedWithCompleteSets
PROPERTY
  CompleteSetsArePermanent
CHECK_DEADLOCK FALSE
