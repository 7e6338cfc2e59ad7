SPECIFICATION Spec
CONSTANTS
  p1 = p1
  p2 = p2
  p3 = p3
  p4 = p4
  p5 = p5
  goose = goose
  donkey = donkey
  Nil = Nil
  Donkey = donkey
  Animals <- OneSpecies
  Identities <- ThreePlayers
  Bids <- TenBids
  Offers <- NoteOffers
SYMMETRY AnyIdentity
INVARIANTS
  TypeOK
  ApplyNeverFails
  MoneyConserved
  ZerosKept
  PendingCovered
  LegalActionsAreDecidable
CHECK_DEADLOCK FALSE
