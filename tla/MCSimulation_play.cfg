SPECIFICATION PlaySpec
CONSTANTS
  donkey = donkey
  Nil = Nil
  Donkey = donkey
  Animals <- OneSpecies
  Identities <- ThreeIdentities
  Bids <- Nothing
  Offers <- Nothing
  Players = 3
  MaxVersion = 16
  Learned = {0}
  Caps = {10}
  BidFractions = {100}
  OfferFractions = {100}
  TradeAt = 1
INVARIANTS
  CommandsAreLegal
  PaymentsAreBest
  InferenceIsExplained
PROPERTIES
  EveryoneHasPassed
  PlayEnds
CHECK_DEADLOCK FALSE
