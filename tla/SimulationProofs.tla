-------------------------- MODULE SimulationProofs --------------------------
(***************************************************************************)
(* Games between any three to five computer players, with any shares and   *)
(* stakes: no command of a policy is refused, what an observer infers is   *)
(* explained, and an auction is closed when everyone has passed.           *)
(***************************************************************************)
EXTENDS Simulation, AggregateProofs, PaymentsProofs

-----------------------------------------------------------------------------
(* The inductive invariant *)

\* Whom the others are asked after: the leader, or the auctioneer while there is none.
Base == IF auction.bidder = Nil THEN auction.auctioneer ELSE auction.bidder

\* Going round the table from base, s is passed before seat is reached.
Between(base, s, seat) == IF base < seat THEN base < s /\ s < seat ELSE base < s \/ s < seat

\* How many of the five seats are in the set.
Count(seats) ==
  LET one(s) == IF s \in seats THEN 1 ELSE 0 IN one(0) + one(1) + one(2) + one(3) + one(4)

\* A round is run while the auction is on: whoever lies between the leader and the seat
\* to be asked next has declined, and each of them was counted once.
RoundInv ==
  /\ round # Nil =>
       /\ phase = "auction" /\ round \in RoundType /\ round.seat \in Seated
       /\ declined \subseteq Seated
       /\ \A s \in Seated : s \in declined <=>
            s # auction.auctioneer /\ s # auction.bidder /\ Between(Base, s, round.seat)
       /\ round.passes = Count(declined)
  /\ phase = "auction" /\ round = Nil => auction.bidder = Nil

\* A policy bids what it would pay.
BidIsPaid ==
  auction # Nil => IF auction.bidder = Nil THEN auction.highestBid = 0
                   ELSE auction.highestBid = Total(auction.payment)

OpenAuction ==
  [animal |-> auction.animal, auctioneer |-> auction.auctioneer, bidder |-> auction.bidder,
   amount |-> auction.highestBid, animals |-> AnimalCounts(animals, auction.animal)]

\* The observer has seen the auction that is on, as it is.
HistoryInv ==
  /\ history \in [money : [Seats -> Int], auction : SeenType \cup {Nil}, donkeys : Nat]
  /\ hidden \in [Seats -> Int]
  /\ ~Dealt => history = NewHistory /\ hidden = [s \in Seats |-> 0]
  /\ history.donkeys = donkeys
  /\ history.auction = IF auction = Nil THEN Nil ELSE OpenAuction

Observed == IInv /\ BidIsPaid /\ HistoryInv /\ CommandsAreLegal /\ InferenceIsExplained

PlayInv == Observed /\ RoundInv

-----------------------------------------------------------------------------
(* What can be paid and offered *)

\* An option of a purse is a pile of its notes that comes to something, without zeros.
LEMMA OptionFacts ==
  ASSUME NEW purse \in Money, Valid(purse), NEW option \in PaymentOptions(purse)
  PROVE  /\ option.money \in Money /\ Valid(option.money) /\ Contains(purse, option.money)
         /\ option.money[0] = 0 /\ CardCount(option.money) # 0
         /\ option.total = Total(option.money) /\ option.total \in Nat \ {0}
  <1>1. PICK options : /\ Level(options, 500, purse)
                       /\ PaymentOptions(purse) = {o \in options : o.total > 0}
    BY AllLevels
  <1>2. PICK pile \in Within(purse, 500) : option = Option(pile)
    BY <1>1 DEF Level
  <1>3. pile \in Money /\ option.money = pile /\ option.total = Total(pile) /\ option.total > 0
        /\ \A d \in Denoms : pile[d] \in Nat
    BY <1>1, <1>2, OptionFields, CountsOfPile
  <1>4. /\ pile[0] = 0 /\ pile[10] \in 0..purse[10] /\ pile[50] \in 0..purse[50]
        /\ pile[100] \in 0..purse[100] /\ pile[200] \in 0..purse[200] /\ pile[500] \in 0..purse[500]
    BY <1>2, InAll
  <1>5. \A d \in Denoms : purse[d] \in Nat
    BY CountsOfPurse
  <1>6. Valid(pile) /\ Contains(purse, pile)
    BY <1>3, <1>4, <1>5 DEF Valid, Contains, Denoms
  <1>7. CardCount(pile) # 0 /\ Total(pile) \in Nat
    BY <1>3 DEF CardCount, Total, Denoms
  <1> QED BY <1>3, <1>4, <1>6, <1>7

\* What the lookups find is among the options, within the limits.
LEMMA LookupFacts ==
  ASSUME NEW options, NEW low, NEW high,
         \A option \in options : option.total = Total(option.money)
  PROVE  /\ \A pile \in PaymentAtLeast(options, low, high) :
              (\E option \in options : option.money = pile) /\ Total(pile) \in low..high
         /\ \A pile \in PaymentAtMost(options, high) : \E option \in options : option.money = pile
  BY DEF PaymentAtLeast, PaymentAtMost

LEMMA NoteIsOfferable ==
  ASSUME NEW purse \in Money, Valid(purse), NEW d \in Denoms, purse[d] > 0
  PROVE  NoteOf(d) \in Money /\ Offerable(purse, NoteOf(d))
  <1>1. /\ NoteOf(d) \in Money /\ NoteOf(d)[d] = 1
        /\ \A e \in Denoms \ {d} : NoteOf(d)[e] = 0
    BY DEF NoteOf, NoMoney, Money
  <1>2. \A e \in Denoms : purse[e] \in Nat
    BY CountsOfPurse
  <1>3. Valid(NoteOf(d)) /\ Contains(purse, NoteOf(d))
    BY <1>1, <1>2 DEF Valid, Contains
  <1>4. CardCount(NoteOf(d)) # 0
    BY <1>1 DEF CardCount, Denoms
  <1> QED BY <1>1, <1>3, <1>4 DEF Offerable

\* Of some cards one is the smallest.
LEMMA SmallestIsOfferable ==
  ASSUME NEW purse \in Money, Valid(purse), \E d \in Denoms : purse[d] > 0
  PROVE  SmallestOffer(purse) \in Money /\ Offerable(purse, SmallestOffer(purse))
  <1> DEFINE least == CHOOSE d \in Denoms : purse[d] > 0 /\ \A e \in Denoms : purse[e] > 0 => d <= e
  <1>1. \E d \in Denoms : purse[d] > 0 /\ \A e \in Denoms : purse[e] > 0 => d <= e
    BY DEF Denoms
  <1>2. least \in Denoms /\ purse[least] > 0
    BY <1>1
  <1>3. SmallestOffer(purse) = NoteOf(least)
    BY DEF SmallestOffer
  <1> HIDE DEF least
  <1> QED BY <1>2, <1>3, NoteIsOfferable

\* Whoever is seated has two zeros at least, so there is always something to offer.
LEMMA PurseFacts ==
  ASSUME IInv, Dealt, NEW seat \in Seated
  PROVE  /\ seat \in Seats /\ money[seat] \in Money /\ Valid(money[seat])
         /\ money[seat][0] > 0 /\ \E d \in Denoms : money[seat][d] > 0
  <1>1. seat \in Seats /\ money[seat] \in Money /\ Valid(money[seat]) /\ money[seat][0] = 2
    BY CardFacts DEF IInv, ZerosKept
  <1>2. 0 \in Denoms
    BY DEF Denoms
  <1> QED BY <1>1, <1>2

\* All that a policy offers in a trade can be offered.
LEMMA OffersFit ==
  ASSUME NEW purse \in Money, Valid(purse), purse[0] > 0,
         NEW offer \in HeuristicOffers(purse, PaymentOptions(purse))
                         \cup LinearOffers(purse, PaymentOptions(purse))
  PROVE  offer \in Money /\ Offerable(purse, offer)
  <1> DEFINE options == PaymentOptions(purse)
  <1>1. 0 \in Denoms
    BY DEF Denoms
  <1>2. ASSUME NEW option \in options
        PROVE  option.money \in Money /\ Offerable(purse, option.money) /\ option.total = Total(option.money)
    BY OptionFacts DEF Offerable
  <1> HIDE DEF options
  <1>3. ASSUME offer \in ZeroNote(purse)
        PROVE  offer \in Money /\ Offerable(purse, offer)
    <2>1. offer = NoteOf(0)
      BY <1>3 DEF ZeroNote
    <2> QED BY <1>1, <2>1, NoteIsOfferable
  <1>4. ASSUME NEW limit, offer \in PaymentAtMost(options, limit)
        PROVE  offer \in Money /\ Offerable(purse, offer)
    BY <1>2, <1>4 DEF PaymentAtMost
  <1>5. CASE offer = SmallestOffer(purse)
    BY <1>1, <1>5, SmallestIsOfferable
  <1>6. \/ offer \in ZeroNote(purse)
        \/ offer = SmallestOffer(purse)
        \/ \E limit : offer \in PaymentAtMost(options, limit)
    BY DEF HeuristicOffers, LinearOffers, options
  <1> QED BY <1>3, <1>4, <1>5, <1>6

-----------------------------------------------------------------------------
(* What a policy chooses is legal *)

\* Of any trades one has the highest priority.
LEMMA PreferredExists ==
  ASSUME NEW seat, Trades(seat) # {}
  PROVE  PreferredTrades(seat) # {}
  <1>1. \A t : TradePriority(seat, t) \in 1..4
    BY DEF TradePriority
  <1> DEFINE Rank(t) == TradePriority(seat, t)
  <1> DEFINE all == Trades(seat)
  <1>2. all # {} /\ \A t : Rank(t) \in {1, 2, 3, 4}
    BY <1>1
  <1>3. (\E t \in all : \A other \in all : Rank(t) >= Rank(other)) => PreferredTrades(seat) # {}
    BY DEF PreferredTrades
  <1> HIDE DEF Rank, all
  <1>4. CASE \E t \in all : Rank(t) = 4
    BY <1>2, <1>3, <1>4
  <1>5. CASE (\A t \in all : Rank(t) # 4) /\ \E t \in all : Rank(t) = 3
    BY <1>2, <1>3, <1>5
  <1>6. CASE (\A t \in all : Rank(t) # 4 /\ Rank(t) # 3) /\ \E t \in all : Rank(t) = 2
    BY <1>2, <1>3, <1>6
  <1>7. CASE \A t \in all : Rank(t) # 4 /\ Rank(t) # 3 /\ Rank(t) # 2
    BY <1>2, <1>3, <1>7
  <1> QED BY <1>4, <1>5, <1>6, <1>7

\* Once the deck is used up whoever has the turn has a trade to make.
LEMMA TurnHasTrade ==
  ASSUME IInv, status = "playing", phase = "turn", ~CardsLeft
  PROVE  CanTrade(animals, turn) /\ Trades(turn) # {}
  <1>1. CanTrade(animals, turn) /\ Dealt /\ turn \in Seated
    BY DEF IInv, TurnInv, PhaseInv, Dealt
  <1>2. PICK a \in Animals, other \in Seated \ {turn} :
          animals[turn][a] \notin {0, 4} /\ animals[other][a] > 0
    BY <1>1 DEF CanTrade
  <1>3. /\ turn \in Seats /\ other \in Seats /\ animals \in [Seats -> [Animals -> Nat]]
        /\ deck[a] + UpForAuction(a) + AnimalsHeld(a) = 4 /\ deck[a] \in 0..4
    BY <1>1, CardFacts
  <1>4. \A s \in Seats : animals[s][a] \in Nat
    BY <1>3
  <1>5. animals[turn][a] + animals[other][a] <= 4
    BY <1>2, <1>3, <1>4 DEF AnimalsHeld, UpForAuction, Seats
  <1>6. animals[turn][a] \in 1..3 /\ animals[other][a] \in 1..3
    BY <1>2, <1>3, <1>4, <1>5
  <1>7. [target |-> other, animal |-> a] \in Trades(turn)
    BY <1>2, <1>6 DEF Trades
  <1> QED BY <1>1, <1>7

LEMMA TurnActions ==
  ASSUME status = "playing", phase = "turn", turn \in Seated
  PROVE  /\ HasAction(turn, "turn.auction") <=> CardsLeft
         /\ HasAction(turn, "turn.trade") <=> CanTrade(animals, turn)
  BY DEF HasAction, LegalActions

\* A policy auctions only while cards are left, and trades what both have for what he has.
LEMMA TurnIsLegal ==
  ASSUME IInv, status = "playing", phase = "turn",
         NEW guided \in GuideTurns(turn, PaymentOptions(money[turn])),
         NEW c \in TurnMoves(turn, PaymentOptions(money[turn]), guided)
  PROVE  \/ c = Move("auction") /\ DecideBeginAuction(turn)
         \/ \E target \in Seats, animal \in Animals, offer \in Money :
              c = Trading(target, animal, offer) /\ DecideBeginTrade(turn, target, animal, offer)
  <1> DEFINE options == PaymentOptions(money[turn])
  <1>1. Dealt /\ turn \in Seated /\ \A s \in Seated : s \in Seats
    BY CardFacts DEF IInv, PhaseInv, Dealt
  <1>2. ASSUME NEW t \in PreferredTrades(turn),
               NEW offer \in HeuristicOffers(money[turn], options) \cup LinearOffers(money[turn], options)
        PROVE  \E target \in Seats, animal \in Animals, pile \in Money :
                 /\ Trading(t.target, t.animal, offer) = Trading(target, animal, pile)
                 /\ DecideBeginTrade(turn, target, animal, pile)
    <2>1. offer \in Money /\ Offerable(money[turn], offer)
      BY <1>1, PurseFacts, OffersFit
    <2>2. /\ t.target \in Seated \ {turn} /\ t.animal \in Animals
          /\ animals[turn][t.animal] \in 1..3 /\ animals[t.target][t.animal] \in 1..3
      BY DEF PreferredTrades, Trades
    <2>3. DecideBeginTrade(turn, t.target, t.animal, offer)
      BY <2>1, <2>2 DEF DecideBeginTrade, RequireTurn
    <2> QED BY <1>1, <2>1, <2>2, <2>3
  <1>3. ASSUME CardsLeft
        PROVE  DecideBeginAuction(turn)
    BY <1>3 DEF DecideBeginAuction, RequireTurn
  <1> HIDE DEF options
  <1>4. CASE c \in LinearTurns(turn, options)
    <2>1. CASE \E a \in LegalActions(turn) \cap {"turn.auction"} : c = Move("auction")
      BY <1>1, <1>3, <2>1, TurnActions DEF HasAction
    <2>2. CASE \E t \in LinearTrades(turn), offer \in LinearOffers(money[turn], options) :
                 c = Trading(t.target, t.animal, offer)
      <3>1. PICK t \in LinearTrades(turn), offer \in LinearOffers(money[turn], options) :
              c = Trading(t.target, t.animal, offer)
        BY <2>2
      <3>2. t \in PreferredTrades(turn)
        BY DEF LinearTrades
      <3> QED BY <1>2, <3>1, <3>2
    <2> QED BY <1>4, <2>1, <2>2 DEF LinearTurns
  <1>5. CASE c \in GuideTurns(turn, options)
    <2>1. CASE \E t \in GuideTrades(turn), offer \in HeuristicOffers(money[turn], options) :
                 c = Trading(t.target, t.animal, offer)
      <3>1. PICK t \in GuideTrades(turn), offer \in HeuristicOffers(money[turn], options) :
              c = Trading(t.target, t.animal, offer)
        BY <2>1
      <3>2. t \in PreferredTrades(turn)
        BY DEF GuideTrades
      <3> QED BY <1>2, <3>1, <3>2
    <2>2. CASE /\ ~(PreferredTrades(turn) # {} /\ PreferredTrades(turn) \subseteq GuideTrades(turn))
               /\ c = Move("auction")
      <3>1. CASE CardsLeft
        BY <1>3, <2>2, <3>1
      <3>2. CASE ~CardsLeft
        <4>1. PreferredTrades(turn) # {}
          BY <3>2, TurnHasTrade, PreferredExists
        <4>2. ~HasAction(turn, "turn.auction") /\ HasAction(turn, "turn.trade")
          BY <1>1, <3>2, TurnActions, TurnHasTrade
        <4>3. PreferredTrades(turn) \subseteq GuideTrades(turn)
          BY <4>2 DEF GuideTrades
        <4> QED BY <2>2, <4>1, <4>3
      <3> QED BY <3>1, <3>2
    <2> QED BY <1>5, <2>1, <2>2 DEF GuideTurns
  <1>6. c \in GuideTurns(turn, options) \/ c \in LinearTurns(turn, options)
    BY DEF TurnMoves, IfLearned, options
  <1> QED BY <1>4, <1>5, <1>6

\* A bid is more than the last, and is paid with what it says.
LEMMA BidIsLegal ==
  ASSUME IInv, phase = "auction", auction # Nil, NEW seat \in Seated, seat # auction.auctioneer,
         NEW pile \in BidMoves(seat, PaymentOptions(money[seat])), pile # Nil
  PROVE  /\ pile \in Money /\ Total(pile) \in Int
         /\ DecidePlaceBid(seat, Total(pile), pile)
  <1> DEFINE options == PaymentOptions(money[seat])
  <1>1. /\ Dealt /\ auction.highestBid \in Int
        /\ seat \in Seats /\ money[seat] \in Money /\ Valid(money[seat])
    BY AuctionFacts, PurseFacts
  <1>2. ASSUME NEW option \in options
        PROVE  /\ option.money \in Money /\ Valid(option.money) /\ Contains(money[seat], option.money)
               /\ option.money[0] = 0 /\ CardCount(option.money) # 0
               /\ option.total = Total(option.money) /\ option.total \in Nat \ {0}
    BY <1>1, OptionFacts
  <1> HIDE DEF options
  <1>3. \E option \in options : option.money = pile /\ option.total > auction.highestBid
    <2>1. CASE pile \in HeuristicBids(options)
      <3>1. PICK option \in options, cap \in Caps : pile = option.money /\ option.total \in MinimumBid..cap
        BY <2>1 DEF HeuristicBids
      <3> QED BY <1>1, <1>2, <3>1 DEF MinimumBid
    <2>2. CASE pile \in PaymentAtLeast(options, MinimumBid, Total(money[seat]))
      <3>1. PICK option \in options : pile = option.money /\ option.total \in MinimumBid..Total(money[seat])
        BY <2>2 DEF PaymentAtLeast
      <3> QED BY <1>1, <1>2, <3>1 DEF MinimumBid
    <2>3. CASE \E limit : pile \in PaymentAtMost(options, limit) /\ Total(pile) >= MinimumBid
      <3>1. PICK option \in options : pile = option.money /\ Total(pile) >= MinimumBid
        BY <2>3 DEF PaymentAtMost
      <3> QED BY <1>1, <1>2, <3>1 DEF MinimumBid
    <2> QED BY <2>1, <2>2, <2>3 DEF BidMoves, IfLearned, LinearBids, options
  <1>4. PICK option \in options : option.money = pile /\ option.total > auction.highestBid
    BY <1>3
  <1>5. pile \in Money /\ Total(pile) \in Nat \ {0} /\ Total(pile) > auction.highestBid
    BY <1>2, <1>4
  <1>6. ValidateAuctionPayment(money[seat], Total(pile), pile)
    BY <1>2, <1>4, <1>5 DEF ValidateAuctionPayment
  <1> QED BY <1>5, <1>6 DEF DecidePlaceBid

\* An auctioneer who buys pays what covers the bid.
LEMMA ResolveIsLegal ==
  ASSUME IInv, phase = "first_refusal", auction # Nil,
         NEW c \in ResolveMoves(auction.auctioneer, PaymentOptions(money[auction.auctioneer]))
  PROVE  \/ c = Move("sell") /\ DecideResolveAuction(auction.auctioneer, FALSE, NoMoney)
         \/ \E pile \in Money :
              c = Offering("buy", pile) /\ DecideResolveAuction(auction.auctioneer, TRUE, pile)
  <1> DEFINE actor == auction.auctioneer
             options == PaymentOptions(money[actor])
  <1>1. /\ Dealt /\ auction.highestBid \in Int /\ actor \in Seated /\ auction.bidder # Nil
        /\ auction.highestBid > 0
    BY AuctionFacts DEF IInv, PhaseInv, ValidateAuctionPayment
  <1>2. actor \in Seats /\ money[actor] \in Money /\ Valid(money[actor])
    BY <1>1, PurseFacts
  <1>3. ASSUME NEW option \in options
        PROVE  /\ option.money \in Money /\ Valid(option.money) /\ Contains(money[actor], option.money)
               /\ option.money[0] = 0 /\ CardCount(option.money) # 0
               /\ option.total = Total(option.money) /\ option.total \in Nat \ {0}
    BY <1>2, OptionFacts
  <1> HIDE DEF options
  <1>4. ASSUME NEW limit, NEW pile \in PaymentAtLeast(options, auction.highestBid, limit)
        PROVE  pile \in Money /\ DecideResolveAuction(actor, TRUE, pile)
    <2>1. PICK option \in options : pile = option.money /\ option.total \in auction.highestBid..limit
      BY DEF PaymentAtLeast
    <2>2. option.total >= auction.highestBid
      BY <2>1
    <2>3. pile \in Money /\ ValidateAuctionPayment(money[actor], auction.highestBid, pile)
      BY <1>1, <1>3, <2>1, <2>2 DEF ValidateAuctionPayment
    <2> QED BY <2>3 DEF DecideResolveAuction
  <1>5. CASE c = Move("sell")
    BY <1>5 DEF DecideResolveAuction
  <1>6. CASE \E limit : c \in Buying(options, limit)
    BY <1>4, <1>6 DEF Buying
  <1>7. c = Move("sell") \/ \E limit : c \in Buying(options, limit)
    BY DEF ResolveMoves, IfLearned, options
  <1> QED BY <1>5, <1>6, <1>7

\* Whoever answers a challenge or challenges again offers what he has.
LEMMA OfferIsLegal ==
  ASSUME IInv, trade # Nil, NEW kind, NEW seat \in Seated,
         NEW c \in OfferMoves(kind, seat, PaymentOptions(money[seat]))
  PROVE  \E offer \in Money : c = Offering(kind, offer) /\ Offerable(money[seat], offer)
  <1>1. Dealt
    BY TradeFacts
  <1>2. money[seat] \in Money /\ Valid(money[seat]) /\ money[seat][0] > 0
    BY <1>1, PurseFacts
  <1>3. PICK offer \in HeuristicOffers(money[seat], PaymentOptions(money[seat]))
                         \cup LinearOffers(money[seat], PaymentOptions(money[seat])) :
          c = Offering(kind, offer)
    BY DEF OfferMoves, IfLearned
  <1> QED BY <1>2, <1>3, OffersFit

LEMMA RespondIsLegal ==
  ASSUME IInv, phase \in {"trade_response", "trade_recounter"}, trade # Nil,
         NEW c \in RespondMoves(trade.target, PaymentOptions(money[trade.target]))
  PROVE  \/ c = Move("accept") /\ DecideAcceptTrade(trade.target)
         \/ \E offer \in Money :
              c = Offering("counter", offer) /\ DecideCounterTrade(trade.target, offer)
  <1>1. trade.target \in Seated
    BY TradeFacts
  <1>2. CASE c \in OfferMoves("counter", trade.target, PaymentOptions(money[trade.target]))
    BY <1>1, <1>2, OfferIsLegal DEF DecideCounterTrade
  <1>3. CASE c = Move("accept") /\ phase = "trade_response"
    BY <1>3 DEF DecideAcceptTrade
  <1> QED BY <1>2, <1>3 DEF RespondMoves, IfLearned

LEMMA ReofferIsLegal ==
  ASSUME IInv, phase = "trade_reoffer", trade # Nil,
         NEW c \in ReofferMoves(trade.challenger, PaymentOptions(money[trade.challenger]))
  PROVE  \E offer \in Money :
           c = Offering("reoffer", offer) /\ DecideReofferTrade(trade.challenger, offer)
  <1>1. trade.challenger \in Seated
    BY TradeFacts
  <1> QED BY <1>1, OfferIsLegal DEF ReofferMoves, DecideReofferTrade

-----------------------------------------------------------------------------
(* Carrying a command out *)

\* The command a policy hands over says what to do, and with what.
LEMMA CommandFields ==
  ASSUME NEW kind, NEW pile, NEW target, NEW animal
  PROVE  /\ Move(kind).kind = kind
         /\ Offering(kind, pile).kind = kind /\ Offering(kind, pile).offer = pile
         /\ Trading(target, animal, pile).kind = "trade"
         /\ Trading(target, animal, pile).target = target
         /\ Trading(target, animal, pile).animal = animal
         /\ Trading(target, animal, pile).offer = pile
  BY DEF Move, Offering, Trading

\* Which check a command has to pass.
LEMMA DecidedMeans ==
  ASSUME NEW actor, NEW c
  PROVE  /\ c.kind = "auction" /\ DecideBeginAuction(actor) => Decided(actor, c)
         /\ c.kind = "bid" /\ DecidePlaceBid(actor, Total(c.offer), c.offer) => Decided(actor, c)
         /\ c.kind = "close" /\ DecideCloseAuction(actor) => Decided(actor, c)
         /\ c.kind = "buy" /\ DecideResolveAuction(actor, TRUE, c.offer) => Decided(actor, c)
         /\ c.kind = "sell" /\ DecideResolveAuction(actor, FALSE, NoMoney) => Decided(actor, c)
         /\ c.kind = "trade" /\ DecideBeginTrade(actor, c.target, c.animal, c.offer) => Decided(actor, c)
         /\ c.kind = "accept" /\ DecideAcceptTrade(actor) => Decided(actor, c)
         /\ c.kind = "counter" /\ DecideCounterTrade(actor, c.offer) => Decided(actor, c)
         /\ c.kind = "reoffer" /\ DecideReofferTrade(actor, c.offer) => Decided(actor, c)
  BY DEF Decided

\* And what it then does.
LEMMA AppliedMeans ==
  ASSUME NEW actor, NEW c, Applied(actor, c)
  PROVE  /\ c.kind = "auction" => BeginAuction(actor)
         /\ c.kind = "bid" => PlaceBid(actor, Total(c.offer), c.offer)
         /\ c.kind = "close" => CloseAuction(actor)
         /\ c.kind = "buy" => ResolveAuction(actor, TRUE, c.offer)
         /\ c.kind = "sell" => ResolveAuction(actor, FALSE, NoMoney)
         /\ c.kind = "trade" => BeginTrade(actor, c.target, c.animal, c.offer)
         /\ c.kind = "accept" => AcceptTrade(actor)
         /\ c.kind = "counter" => CounterTrade(actor, c.offer)
         /\ c.kind = "reoffer" => ReofferTrade(actor, c.offer)
  BY DEF Applied

\* What the observers make of a command that passed.
Seen(c) ==
  /\ result' = IF applyError' THEN "refused" ELSE result
  /\ history' = Observe(history, auction', animals')
  /\ hidden' = [s \in Seats |-> hidden[s] + OutOfSight(s, c)]

LEMMA CarriedOut ==
  ASSUME NEW actor, NEW c, ApplyObserved(actor, c), Decided(actor, c)
  PROVE  Applied(actor, c) /\ Seen(c)
  BY DEF ApplyObserved, Seen

\* No event that was decided is refused when it is applied.
LEMMA NothingIsRefused ==
  ASSUME NEW c, Seen(c), CommandsAreLegal, IInv'
  PROVE  CommandsAreLegal' /\ result' = result
  BY DEF Seen, CommandsAreLegal, IInv, ApplyNeverFails

LEMMA TotalIsInt ==
  ASSUME NEW pile \in Money
  PROVE  Total(pile) \in Int
  BY DEF Money, Total, Denoms

LEMMA PursesTotal ==
  ASSUME TypeOK
  PROVE  \A s \in Seats : Total(money[s]) \in Int
  BY TotalIsInt DEF TypeOK

LEMMA TotalOfSum ==
  ASSUME NEW m \in Money, NEW p \in Money
  PROVE  Total(Add(m, p)) = Total(m) + Total(p) /\ Total(Minus(m, p)) = Total(m) - Total(p)
  BY DEF Money, Total, Add, Minus, Denoms

\* What a step leaves alone of the table.
SameTable == players' = players /\ donkeys' = donkeys /\ Dealt /\ Dealt'

LEMMA SameSeats ==
  ASSUME SameTable
  PROVE  Seated' = Seated /\ NumPlayers' = NumPlayers
  BY DEF SameTable, Seated, NumPlayers

\* While there is no auction only what moves out of sight moves at all.
LEMMA TradeIsSeen ==
  ASSUME Observed, NEW c, Seen(c), SameTable, auction = Nil, auction' = Nil, IInv',
         \A s \in Seats : OutOfSight(s, c) = Total(money'[s]) - Total(money[s])
  PROVE  Observed'
  <1>1. TypeOK /\ TypeOK' /\ HistoryInv /\ history.auction = Nil /\ InferenceIsExplained
    BY DEF Observed, IInv, HistoryInv
  <1>2. history' = history
    BY <1>1 DEF Seen, Observe
  <1>3. /\ \A s \in Seats : Total(money[s]) \in Int /\ Total(money'[s]) \in Int
        /\ hidden' = [s \in Seats |-> hidden[s] + Total(money'[s]) - Total(money[s])]
    <2>1. \A s \in Seats : Total(money[s]) \in Int /\ Total(money'[s]) \in Int
      BY <1>1, TotalIsInt DEF TypeOK
    <2>2. \A s \in Seats : hidden[s] \in Int
      BY <1>1 DEF HistoryInv
    <2> QED BY <2>1, <2>2 DEF Seen
  <1>4. hidden' \in [Seats -> Int] /\ \A s \in Seats : hidden[s] \in Int /\ history.money[s] \in Int
    BY <1>1, <1>3 DEF HistoryInv
  <1>5. HistoryInv'
    BY <1>1, <1>2, <1>4 DEF HistoryInv, SameTable
  <1>6. InferenceIsExplained'
    <2>1. \A s \in Seated : s \in Seats /\ Total(money[s]) = history.money[s] + hidden[s]
      BY <1>1, CardFacts DEF InferenceIsExplained, SameTable, Observed
    <2> QED BY <1>2, <1>3, <1>4, <2>1, SameSeats DEF InferenceIsExplained
  <1>7. BidIsPaid'
    BY DEF BidIsPaid
  <1> QED BY <1>5, <1>6, <1>7, NothingIsRefused DEF Observed

\* A challenge moves nothing yet.
LEMMA ChallengeIsSeen ==
  ASSUME ConstantsAssumption, Observed, NEW target \in Seats, NEW animal \in Animals, NEW offer \in Money,
         DecideBeginTrade(turn, target, animal, offer),
         ApplyObserved(turn, Trading(target, animal, offer))
  PROVE  Observed' /\ result' = result /\ phase' # "auction"
  <1> DEFINE c == Trading(target, animal, offer)
  <1>1. /\ c.kind = "trade" /\ c.target = target /\ c.animal = animal /\ c.offer = offer
    BY CommandFields
  <1> HIDE DEF c
  <1>2. Applied(turn, c) /\ Seen(c)
    BY <1>1, DecidedMeans, CarriedOut DEF c
  <1>3. BeginTrade(turn, target, animal, offer)
    BY <1>1, <1>2, AppliedMeans
  <1>4. IInv /\ TypeOK /\ PhaseInv /\ turn \in Seats /\ phase = "turn" /\ status = "playing"
    BY <1>3 DEF Observed, IInv, TypeOK, BeginTrade, DecideBeginTrade, RequireTurn
  <1>5. IInv'
    BY <1>3, <1>4, BeginTradeKeepsIInv
  <1>6. UNCHANGED <<room, turn, tray, hands, auction, applyError>> /\ phase' = "trade_response"
    BY <1>3 DEF BeginTrade, ApplyTradeStarted
  <1>7. auction = Nil /\ auction' = Nil /\ trade = Nil /\ SameTable /\ money' = money
    BY <1>4, <1>6 DEF PhaseInv, SameTable, Dealt, room, tray, hands
  <1>8. \A s \in Seats : OutOfSight(s, c) = Total(money'[s]) - Total(money[s])
    BY <1>1, <1>4, <1>7, PursesTotal DEF OutOfSight
  <1> QED BY <1>2, <1>5, <1>6, <1>7, <1>8, TradeIsSeen, NothingIsRefused DEF Observed

\* What changes hands in a trade, nobody else sees.
LEMMA TradeMoveIsSeen ==
  ASSUME Observed, NEW c, Seen(c), c.kind # "buy", trade # Nil, IInv', auction' = Nil,
         UNCHANGED <<players, donkeys>>, status' \in {"playing", "finished"}
  PROVE  Observed' /\ result' = result /\ phase' # "auction"
  <1>1. auction = Nil /\ SameTable
    BY TradeFacts DEF Observed, SameTable, Dealt
  <1>2. \A s \in Seats : OutOfSight(s, c) = Total(money'[s]) - Total(money[s])
    BY DEF OutOfSight
  <1>3. phase' # "auction"
    BY DEF IInv, PhaseInv
  <1> QED BY <1>1, <1>2, <1>3, TradeIsSeen, NothingIsRefused DEF Observed

LEMMA AcceptIsSeen ==
  ASSUME Observed, trade # Nil, DecideAcceptTrade(trade.target),
         ApplyObserved(trade.target, Move("accept"))
  PROVE  Observed' /\ result' = result /\ phase' # "auction"
  <1> DEFINE c == Move("accept")
  <1>1. c.kind = "accept"
    BY CommandFields
  <1> HIDE DEF c
  <1>2. Applied(trade.target, c) /\ Seen(c)
    BY <1>1, DecidedMeans, CarriedOut DEF c
  <1>3. AcceptTrade(trade.target)
    BY <1>1, <1>2, AppliedMeans
  <1>4. IInv /\ trade.target \in Seats /\ status = "playing" /\ auction = Nil
    BY TradeFacts, CardFacts DEF Observed
  <1>5. IInv'
    BY <1>3, <1>4, AcceptTradeKeepsIInv
  <1>6. ~applyError'
    BY <1>5 DEF IInv, ApplyNeverFails
  <1>7. \E after : AdvanceTurn(after) /\ UNCHANGED <<players, tray, applyError>>
    BY <1>3, <1>6 DEF AcceptTrade, ApplyTradeAccepted, ApplyFails
  <1>8. auction' = Nil /\ status' \in {"playing", "finished"} /\ UNCHANGED <<players, donkeys>>
    BY <1>4, <1>7 DEF AdvanceTurn, tray
  <1> QED BY <1>1, <1>2, <1>5, <1>8, TradeMoveIsSeen

LEMMA CounterIsSeen ==
  ASSUME ConstantsAssumption, Observed, trade # Nil, NEW offer \in Money,
         DecideCounterTrade(trade.target, offer), ApplyObserved(trade.target, Offering("counter", offer))
  PROVE  Observed' /\ result' = result /\ phase' # "auction"
  <1> DEFINE c == Offering("counter", offer)
  <1>1. c.kind = "counter" /\ c.offer = offer
    BY CommandFields
  <1> HIDE DEF c
  <1>2. Applied(trade.target, c) /\ Seen(c)
    BY <1>1, DecidedMeans, CarriedOut DEF c
  <1>3. CounterTrade(trade.target, offer)
    BY <1>1, <1>2, AppliedMeans
  <1>4. IInv /\ trade.target \in Seats /\ status = "playing" /\ auction = Nil
    BY TradeFacts, CardFacts DEF Observed
  <1>5. IInv'
    BY <1>3, <1>4, CounterTradeKeepsIInv
  <1>6. ~applyError'
    BY <1>5 DEF IInv, ApplyNeverFails
  <1>7. /\ (\E after : AdvanceTurn(after)) \/ UNCHANGED <<status, turn, animals, auction>>
        /\ UNCHANGED <<players, tray, applyError>>
    BY <1>3, <1>6 DEF CounterTrade, ApplyTradeCountered, ApplyFails
  <1>8. auction' = Nil /\ status' \in {"playing", "finished"} /\ UNCHANGED <<players, donkeys>>
    BY <1>4, <1>7 DEF AdvanceTurn, tray
  <1> QED BY <1>1, <1>2, <1>5, <1>8, TradeMoveIsSeen

LEMMA ReofferIsSeen ==
  ASSUME ConstantsAssumption, Observed, trade # Nil, NEW offer \in Money,
         DecideReofferTrade(trade.challenger, offer),
         ApplyObserved(trade.challenger, Offering("reoffer", offer))
  PROVE  Observed' /\ result' = result /\ phase' # "auction"
  <1> DEFINE c == Offering("reoffer", offer)
  <1>1. c.kind = "reoffer" /\ c.offer = offer
    BY CommandFields
  <1> HIDE DEF c
  <1>2. Applied(trade.challenger, c) /\ Seen(c)
    BY <1>1, DecidedMeans, CarriedOut DEF c
  <1>3. ReofferTrade(trade.challenger, offer)
    BY <1>1, <1>2, AppliedMeans
  <1>4. IInv /\ trade.challenger \in Seats /\ status = "playing" /\ auction = Nil
    BY TradeFacts, CardFacts DEF Observed
  <1>5. IInv'
    BY <1>3, <1>4, ReofferTradeKeepsIInv
  <1>6. auction' = Nil /\ status' \in {"playing", "finished"} /\ UNCHANGED <<players, donkeys>>
    BY <1>3, <1>4 DEF ReofferTrade, ApplyTradeReoffered, room, tray
  <1> QED BY <1>1, <1>2, <1>5, <1>6, TradeMoveIsSeen

\* The bonus an observer knows of is what the bank pays.
LEMMA BonusTotal ==
  ASSUME NEW k \in 1..4
  PROVE  DonkeyBonus(k) \in Money /\ Bonus(k) \in Int /\ Total(DonkeyBonus(k)) = Bonus(k)
  <1>1. DonkeyBonus(k) \in Money
    BY FixedPileTypes
  <1>2. CASE k = 1
    BY <1>1, <1>2 DEF DonkeyBonus, Bonus, Total, Cash, Denoms
  <1>3. CASE k = 2
    BY <1>1, <1>3 DEF DonkeyBonus, Bonus, Total, Cash, Denoms
  <1>4. CASE k = 3
    BY <1>1, <1>4 DEF DonkeyBonus, Bonus, Total, Cash, Denoms
  <1>5. CASE k = 4
    BY <1>1, <1>5 DEF DonkeyBonus, Bonus, Total, Cash, Denoms
  <1> QED BY <1>2, <1>3, <1>4, <1>5

\* What the observer has to have seen of an auction is what he keeps of one.
LEMMA OpenAuctionType ==
  ASSUME NEW view \in AuctionType, NEW holdings \in [Seats -> [Animals -> Nat]]
  PROVE  [animal |-> view.animal, auctioneer |-> view.auctioneer, bidder |-> view.bidder,
          amount |-> view.highestBid, animals |-> AnimalCounts(holdings, view.animal)] \in SeenType
  <1>1. AnimalCounts(holdings, view.animal) \in [Seats -> Nat]
    BY DEF AnimalCounts, AuctionType
  <1> QED BY <1>1 DEF SeenType, AuctionType

\* A card is turned up: everyone sees the bonus, if it is a donkey.
LEMMA AuctionIsSeen ==
  ASSUME ConstantsAssumption, SimulationAssumption, Observed, DecideBeginAuction(turn),
         ApplyObserved(turn, Move("auction"))
  PROVE  Observed' /\ result' = result /\ phase' = "auction" /\ auction'.bidder = Nil
  <1> DEFINE c == Move("auction")
  <1>1. c.kind = "auction"
    BY CommandFields
  <1> HIDE DEF c
  <1>2. Applied(turn, c) /\ Seen(c)
    BY <1>1, DecidedMeans, CarriedOut DEF c
  <1>3. BeginAuction(turn)
    BY <1>1, <1>2, AppliedMeans
  <1>4. /\ IInv /\ TypeOK /\ PhaseInv /\ HistoryInv /\ turn \in Seats /\ phase = "turn" /\ status = "playing"
        /\ auction = Nil /\ trade = Nil /\ Dealt /\ NumPlayers \in 3..5
    BY <1>3 DEF Observed, IInv, TypeOK, PhaseInv, BeginAuction, DecideBeginAuction, RequireTurn, Dealt
  <1>5. IInv' /\ TypeOK' /\ ~applyError'
    BY <1>3, <1>4, BeginAuctionKeepsIInv DEF IInv, ApplyNeverFails
  <1>6. PICK animal \in Animals : deck[animal] > 0 /\ ApplyAuctionStarted(animal)
    BY <1>3 DEF BeginAuction
  <1> DEFINE isDonkey == animal = Donkey
             bonus == IF isDonkey THEN DonkeyBonus(donkeys + 1) ELSE NoMoney
             gain == IF isDonkey THEN Bonus(donkeys + 1) ELSE 0
  <1>7. /\ donkeys' = (IF isDonkey THEN donkeys + 1 ELSE donkeys)
        /\ money' = [s \in Seats |-> IF s \in Seated THEN Add(money[s], bonus) ELSE money[s]]
        /\ phase' = "auction"
        /\ auction' = [animal |-> animal, auctioneer |-> turn, highestBid |-> 0,
                       bidder |-> Nil, payment |-> NoMoney]
        /\ UNCHANGED <<room, turn, animals, trade, applyError>>
    BY <1>5, <1>6 DEF ApplyAuctionStarted, ApplyFails
  <1>8. bonus \in Money /\ gain \in Int /\ Total(bonus) = gain
    <2>1. CASE isDonkey
      <3>1. donkeys + 1 \in 1..4
        <4>1. donkeys \in Nat /\ deck[Donkey] \in 0..4 /\ deck[Donkey] > 0 /\ Donkey \in Animals
          BY <1>4, <1>6, <2>1 DEF TypeOK
        <4>2. donkeys + deck[Donkey] = 4
          BY <1>4, <4>1 DEF IInv, BankInv
        <4> QED BY <4>1, <4>2
      <3> QED BY <2>1, <3>1, BonusTotal
    <2>2. CASE ~isDonkey
      BY <2>2, FixedPileTypes DEF NoMoney, Total, Denoms
    <2> QED BY <2>1, <2>2
  <1>9. /\ auction' # Nil /\ auction'.animal = animal /\ auction'.auctioneer = turn
        /\ auction'.highestBid = 0 /\ auction'.bidder = Nil
    BY <1>4, <1>5, <1>7 DEF IInv, PhaseInv
  <1>10. /\ history'.donkeys = donkeys'
         /\ history'.money = [s \in Seats |-> history.money[s] + gain]
         /\ history'.auction = OpenAuction'
         /\ history' \in [money : [Seats -> Int], auction : SeenType \cup {Nil}, donkeys : Nat]
    <2>1. history.auction = Nil /\ history.donkeys = donkeys
      BY <1>4 DEF HistoryInv
    <2>2. history' = BidObserved(BeginObserved(history, auction', animals'), auction')
      BY <1>2, <1>9, <2>1 DEF Seen, Observe
    <2> DEFINE begun == BeginObserved(history, auction', animals')
    <2>3. /\ begun = [donkeys |-> IF isDonkey THEN donkeys + 1 ELSE donkeys,
                      money   |-> [s \in Seats |-> history.money[s] + gain],
                      auction |-> [animal |-> animal, auctioneer |-> turn, bidder |-> Nil,
                                   amount |-> 0, animals |-> AnimalCounts(animals', animal)]]
      BY <1>9, <2>1 DEF BeginObserved
    <2> HIDE DEF begun, gain
    <2>4. begun.auction.amount = 0
      BY <2>3
    <2>5. history' = begun
      BY <1>9, <2>2, <2>4 DEF BidObserved, begun
    <2>6. begun.auction = OpenAuction'
      BY <1>9, <2>3 DEF OpenAuction
    <2>7. begun.auction \in SeenType
      <3>1. auction' \in AuctionType /\ animals' \in [Seats -> [Animals -> Nat]]
        BY <1>5, <1>9 DEF TypeOK
      <3> QED BY <2>6, <3>1, OpenAuctionType DEF OpenAuction
    <2>8. [s \in Seats |-> history.money[s] + gain] \in [Seats -> Int]
      BY <1>4, <1>8 DEF HistoryInv
    <2>9. donkeys' \in Nat
      BY <1>5 DEF TypeOK
    <2> QED BY <1>7, <2>3, <2>5, <2>6, <2>7, <2>8, <2>9
  <1>11. hidden' = hidden
    <2>1. \A s \in Seats : OutOfSight(s, c) = 0 /\ hidden[s] \in Int
      BY <1>1, <1>4 DEF OutOfSight, HistoryInv
    <2>2. hidden = [s \in Seats |-> hidden[s]]
      BY <1>4 DEF HistoryInv
    <2> QED BY <1>2, <2>1, <2>2 DEF Seen
  <1>12. Dealt' /\ Seated' = Seated
    BY <1>4, <1>7 DEF room, Dealt, Seated, NumPlayers
  <1>13. HistoryInv'
    BY <1>4, <1>9, <1>10, <1>11, <1>12 DEF HistoryInv
  <1>14. InferenceIsExplained'
    <2> HIDE DEF bonus, gain
    <2>1. ASSUME NEW s \in Seated
          PROVE  Total(money'[s]) = history'.money[s] + hidden'[s]
      <3>1. s \in Seats /\ Total(money[s]) = history.money[s] + hidden[s]
        BY <1>4, CardFacts DEF Observed, InferenceIsExplained
      <3>2. money[s] \in Money /\ history.money[s] \in Int /\ hidden[s] \in Int
        BY <1>4, <3>1 DEF TypeOK, HistoryInv
      <3>3. Total(money'[s]) = Total(money[s]) + gain
        BY <1>7, <1>8, <3>1, <3>2, TotalOfSum
      <3> QED BY <1>8, <1>10, <1>11, <3>1, <3>2, <3>3
    <2> QED BY <1>12, <2>1 DEF InferenceIsExplained
  <1>15. BidIsPaid'
    BY <1>9 DEF BidIsPaid
  <1> QED BY <1>2, <1>5, <1>7, <1>9, <1>13, <1>14, <1>15, NothingIsRefused DEF Observed

\* An auction that is on has been seen.
LEMMA SeenAuction ==
  ASSUME ConstantsAssumption, SimulationAssumption, Observed, auction # Nil
  PROVE  history.auction = OpenAuction /\ history.auction # Nil
  <1>1. history.auction = OpenAuction
    BY DEF HistoryInv, Observed
  <1>2. OpenAuction \in SeenType
    BY OpenAuctionType DEF OpenAuction, TypeOK, Observed, IInv
  <1> QED BY <1>1, <1>2 DEF SimulationAssumption

LEMMA HigherBid ==
  ASSUME NEW seen \in SeenType, NEW seat \in Seats, NEW amount \in Int
  PROVE  [seen EXCEPT !.bidder = seat, !.amount = amount]
           = [animal |-> seen.animal, auctioneer |-> seen.auctioneer, bidder |-> seat,
              amount |-> amount, animals |-> seen.animals]
  <1> DEFINE after == [seen EXCEPT !.bidder = seat, !.amount = amount]
  <1>1. /\ after \in SeenType /\ after.animal = seen.animal /\ after.auctioneer = seen.auctioneer
        /\ after.bidder = seat /\ after.amount = amount /\ after.animals = seen.animals
    BY DEF SeenType
  <1> HIDE DEF after
  <1>2. after = [animal |-> after.animal, auctioneer |-> after.auctioneer, bidder |-> after.bidder,
                 amount |-> after.amount, animals |-> after.animals]
    BY <1>1 DEF SeenType
  <1> QED BY <1>1, <1>2 DEF after

\* A bid is seen with its amount.
LEMMA BidIsSeen ==
  ASSUME ConstantsAssumption, SimulationAssumption, Observed, NEW seat \in Seated, NEW pile \in Money,
         Total(pile) \in Int, DecidePlaceBid(seat, Total(pile), pile),
         ApplyObserved(seat, Offering("bid", pile))
  PROVE  /\ Observed' /\ result' = result /\ phase' = phase /\ players' = players
         /\ auction'.auctioneer = auction.auctioneer /\ auction'.bidder = seat
  <1> DEFINE c == Offering("bid", pile)
  <1>1. c.kind = "bid" /\ c.offer = pile
    BY CommandFields
  <1> HIDE DEF c
  <1>2. Applied(seat, c) /\ Seen(c)
    BY <1>1, DecidedMeans, CarriedOut DEF c
  <1>3. PlaceBid(seat, Total(pile), pile)
    BY <1>1, <1>2, AppliedMeans
  <1>4. /\ IInv /\ HistoryInv /\ auction # Nil /\ Total(pile) > auction.highestBid
        /\ phase = "auction" /\ trade = Nil
    BY <1>3 DEF Observed, PlaceBid, DecidePlaceBid, IInv, PhaseInv
  <1>5. /\ Dealt /\ seat \in Seats /\ auction \in AuctionType /\ auction.highestBid \in Int
        /\ TypeOK /\ seat # Nil
    BY <1>4, AuctionFacts, CardFacts DEF IInv, ConstantsAssumption
  <1>6. IInv' /\ TypeOK' /\ PhaseInv'
    BY <1>3, <1>4, <1>5, PlaceBidKeepsIInv DEF IInv
  <1>7. /\ auction' = [auction EXCEPT !.highestBid = Total(pile), !.bidder = seat, !.payment = pile]
        /\ UNCHANGED <<room, phase, turn, tray, hands, trade, applyError>>
    BY <1>3 DEF PlaceBid, ApplyBidPlaced
  <1>8. /\ auction'.highestBid = Total(pile) /\ auction'.bidder = seat /\ auction'.payment = pile
        /\ auction'.animal = auction.animal /\ auction'.auctioneer = auction.auctioneer
        /\ auction' # Nil
    BY <1>4, <1>5, <1>6, <1>7 DEF AuctionType, PhaseInv
  <1>9. SameTable /\ money' = money /\ animals' = animals /\ status' = status
    BY <1>5, <1>7 DEF SameTable, room, tray, hands, Dealt
  <1>10. history.auction = OpenAuction /\ history.auction # Nil
    BY <1>4, SeenAuction
  <1>11. history' = [history EXCEPT !.auction.bidder = seat, !.auction.amount = Total(pile)]
    <2>1. history' = BidObserved(history, auction')
      BY <1>2, <1>8, <1>10 DEF Seen, Observe
    <2>2. history.auction.amount = auction.highestBid
      BY <1>10 DEF OpenAuction
    <2>3. ~(Total(pile) <= auction.highestBid)
      BY <1>4, <1>5
    <2> QED BY <1>8, <2>1, <2>2, <2>3 DEF BidObserved
  <1>12. /\ history'.money = history.money /\ history'.donkeys = history.donkeys
         /\ history'.auction = OpenAuction'
         /\ history' \in [money : [Seats -> Int], auction : SeenType \cup {Nil}, donkeys : Nat]
    <2>1. history \in [money : [Seats -> Int], auction : SeenType \cup {Nil}, donkeys : Nat]
      BY <1>4 DEF HistoryInv
    <2>2. /\ history'.money = history.money /\ history'.donkeys = history.donkeys
          /\ history'.auction = [history.auction EXCEPT !.bidder = seat, !.amount = Total(pile)]
          /\ history' = [money |-> history'.money, auction |-> history'.auction, donkeys |-> history'.donkeys]
      BY <1>11, <2>1
    <2>3. history'.auction = OpenAuction'
      <3>1. [OpenAuction EXCEPT !.bidder = seat, !.amount = Total(pile)]
              = [animal |-> auction.animal, auctioneer |-> auction.auctioneer, bidder |-> seat,
                 amount |-> Total(pile), animals |-> AnimalCounts(animals, auction.animal)]
        <4>1. OpenAuction \in SeenType
          BY <1>4, <1>5, OpenAuctionType DEF OpenAuction, TypeOK
        <4>2. /\ OpenAuction.animal = auction.animal /\ OpenAuction.auctioneer = auction.auctioneer
              /\ OpenAuction.animals = AnimalCounts(animals, auction.animal)
          BY DEF OpenAuction
        <4> QED BY <1>5, <4>1, <4>2, HigherBid
      <3>2. OpenAuction'
              = [animal |-> auction.animal, auctioneer |-> auction.auctioneer, bidder |-> seat,
                 amount |-> Total(pile), animals |-> AnimalCounts(animals, auction.animal)]
        BY <1>8, <1>9 DEF OpenAuction
      <3> QED BY <1>10, <2>2, <3>1, <3>2
    <2>4. OpenAuction' \in SeenType
      BY <1>6, <1>8, OpenAuctionType DEF OpenAuction, TypeOK
    <2> QED BY <2>1, <2>2, <2>3, <2>4
  <1>13. hidden' = hidden
    <2>1. \A s \in Seats : OutOfSight(s, c) = 0 /\ hidden[s] \in Int
      BY <1>1, <1>4 DEF OutOfSight, HistoryInv
    <2>2. hidden = [s \in Seats |-> hidden[s]]
      BY <1>4 DEF HistoryInv
    <2> QED BY <1>2, <2>1, <2>2 DEF Seen
  <1>14. HistoryInv'
    BY <1>4, <1>8, <1>9, <1>12, <1>13 DEF HistoryInv, SameTable
  <1>15. InferenceIsExplained'
    BY <1>9, <1>12, <1>13, SameSeats DEF InferenceIsExplained, SameTable, Observed
  <1>16. BidIsPaid'
    BY <1>5, <1>8 DEF BidIsPaid
  <1> QED BY <1>2, <1>6, <1>7, <1>8, <1>9, <1>14, <1>15, <1>16, NothingIsRefused
          DEF Observed, SameTable

\* When an auction is over the observer settles it.
LEMMA SettlementIsSeen ==
  ASSUME Observed, NEW c, Seen(c), SameTable, auction # Nil, auction' = Nil, IInv',
         history.auction # Nil,
         NEW after \in [Seats -> Int], SettleAuction(history, animals') = after,
         \A s \in Seats : OutOfSight(s, c) \in Int,
         \A s \in Seated : Total(money'[s]) = after[s] + hidden[s] + OutOfSight(s, c)
  PROVE  Observed' /\ result' = result /\ phase' # "auction"
  <1>1. HistoryInv /\ PhaseInv' /\ \A s \in Seated : s \in Seats
    BY CardFacts DEF Observed, IInv, SameTable
  <1>2. history' = [history EXCEPT !.money = after, !.auction = Nil]
    BY DEF Seen, Observe
  <1>3. /\ history'.money = after /\ history'.auction = Nil /\ history'.donkeys = history.donkeys
        /\ history' \in [money : [Seats -> Int], auction : SeenType \cup {Nil}, donkeys : Nat]
    <2>1. history \in [money : [Seats -> Int], auction : SeenType \cup {Nil}, donkeys : Nat]
      BY <1>1 DEF HistoryInv
    <2> QED BY <1>2, <2>1
  <1>4. hidden' \in [Seats -> Int] /\ \A s \in Seats : hidden'[s] = hidden[s] + OutOfSight(s, c)
    BY <1>1 DEF Seen, HistoryInv
  <1>5. HistoryInv'
    BY <1>1, <1>3, <1>4 DEF HistoryInv, SameTable
  <1>6. InferenceIsExplained'
    <2>1. ASSUME NEW s \in Seated
          PROVE  Total(money'[s]) = history'.money[s] + hidden'[s]
      <3>1. after[s] \in Int /\ hidden[s] \in Int /\ OutOfSight(s, c) \in Int
        BY <1>1 DEF HistoryInv
      <3> QED BY <1>1, <1>3, <1>4, <3>1
    <2> QED BY <2>1, SameSeats DEF InferenceIsExplained
  <1>7. BidIsPaid'
    BY DEF BidIsPaid
  <1>8. phase' # "auction"
    BY <1>1 DEF PhaseInv
  <1> QED BY <1>5, <1>6, <1>7, <1>8, NothingIsRefused DEF Observed

\* Who got the card is the one who holds more of the animal than before.
LEMMA WinnerIsSeen ==
  ASSUME animals \in [Seats -> [Animals -> Nat]], NEW seat \in Seats, NEW animal \in Animals
  PROVE  ChangedAnimalOwner(Gain(animals, seat, animal), animal, AnimalCounts(animals, animal)) = seat
  <1> DEFINE after == Gain(animals, seat, animal)
             before == AnimalCounts(animals, animal)
             Found(s) == after[s][animal] > before[s] /\ \A t \in 0..(s - 1) : after[t][animal] <= before[t]
  <1>1. \A s \in Seats : /\ before[s] = animals[s][animal] /\ animals[s][animal] \in Nat
                         /\ after[s][animal] = (IF s = seat THEN animals[s][animal] + 1 ELSE animals[s][animal])
    BY DEF Gain, AnimalCounts
  <1>2. \A s \in Seats : \A t \in 0..(s - 1) : t \in Seats /\ t # s
    BY DEF Seats
  <1> HIDE DEF after, before
  <1>3. \A s \in Seats : Found(s) <=> s = seat
    BY <1>1, <1>2
  <1>4. ChangedAnimalOwner(after, animal, before) = CHOOSE s \in Seats : Found(s)
    BY DEF ChangedAnimalOwner
  <1> HIDE DEF Found
  <1> QED BY <1>3, <1>4 DEF after, before

\* An auction without a bid is closed for nothing; one with a bid goes on.
LEMMA CloseIsSeen ==
  ASSUME ConstantsAssumption, SimulationAssumption, Observed, auction # Nil,
         DecideCloseAuction(auction.auctioneer), ApplyObserved(auction.auctioneer, Move("close"))
  PROVE  Observed' /\ result' = result /\ phase' # "auction"
  <1> DEFINE c == Move("close")
  <1>1. c.kind = "close"
    BY CommandFields
  <1> HIDE DEF c
  <1>2. Applied(auction.auctioneer, c) /\ Seen(c)
    BY <1>1, DecidedMeans, CarriedOut DEF c
  <1>3. CloseAuction(auction.auctioneer)
    BY <1>1, <1>2, AppliedMeans
  <1>4. /\ IInv /\ TypeOK /\ HistoryInv /\ InferenceIsExplained /\ BidIsPaid /\ trade = Nil
        /\ Dealt /\ status = "playing" /\ auction.auctioneer \in Seats
        /\ \A s \in Seated : s \in Seats
    BY <1>3, AuctionFacts, CardFacts DEF Observed, CloseAuction, DecideCloseAuction, IInv, PhaseInv
  <1>5. IInv' /\ TypeOK' /\ PhaseInv'
    BY <1>3, <1>4, CloseAuctionKeepsIInv DEF IInv
  <1>6. history.auction = OpenAuction /\ history.auction # Nil /\ history.auction.bidder = auction.bidder
        /\ history.auction.amount = auction.highestBid
    BY SeenAuction DEF OpenAuction
  <1>7. \A s \in Seats : OutOfSight(s, c) = 0 /\ hidden[s] \in Int /\ history.money[s] \in Int
    BY <1>1, <1>4 DEF OutOfSight, HistoryInv
  <1>8. CASE auction.bidder = Nil
    <2>1. AdvanceTurn(animals') /\ UNCHANGED <<players, tray, money, applyError>>
      BY <1>3, <1>8 DEF CloseAuction, ApplyAuctionClosed
    <2>2. SameTable /\ auction' = Nil /\ money' = money
      BY <1>4, <2>1 DEF AdvanceTurn, SameTable, Dealt, tray
    <2>3. SettleAuction(history, animals') = history.money /\ history.money \in [Seats -> Int]
      BY <1>4, <1>6, <1>8 DEF SettleAuction, HistoryInv
    <2>4. \A s \in Seated : Total(money'[s]) = history.money[s] + hidden[s] + OutOfSight(s, c)
      BY <1>4, <1>7, <2>2 DEF InferenceIsExplained
    <2>5. \A s \in Seats : OutOfSight(s, c) \in Int
      BY <1>7
    <2> QED BY <1>2, <1>5, <1>6, <2>2, <2>3, <2>4, <2>5, SettlementIsSeen
  <1>9. CASE auction.bidder # Nil
    <2>1. /\ phase' = "first_refusal"
          /\ UNCHANGED <<room, turn, tray, hands, auction, trade, applyError>>
      BY <1>3, <1>9 DEF CloseAuction, ApplyAuctionClosed
    <2>2. SameTable /\ auction' = auction /\ money' = money /\ animals' = animals
      BY <1>4, <2>1 DEF SameTable, Dealt, room, tray, hands
    <2>3. auction.highestBid \in Int
      BY AuctionFacts, <1>4
    <2>4. history' = history
      BY <1>2, <1>6, <2>2, <2>3 DEF Seen, Observe, BidObserved
    <2>5. hidden' = hidden
      <3>1. hidden = [s \in Seats |-> hidden[s]]
        BY <1>4 DEF HistoryInv
      <3> QED BY <1>2, <1>7, <3>1 DEF Seen
    <2>6. OpenAuction' = OpenAuction
      BY <2>2 DEF OpenAuction
    <2>7. HistoryInv'
      BY <1>4, <2>2, <2>4, <2>5, <2>6 DEF HistoryInv, SameTable
    <2>8. InferenceIsExplained'
      BY <1>4, <2>2, <2>4, <2>5, SameSeats DEF InferenceIsExplained
    <2>9. BidIsPaid'
      BY <1>4, <2>2 DEF BidIsPaid
    <2> QED BY <1>2, <1>5, <2>1, <2>7, <2>8, <2>9, NothingIsRefused DEF Observed
  <1> QED BY <1>8, <1>9

\* Who got the card tells the observer who paid whom; what the auctioneer paid above
\* the bid he does not see.
LEMMA ResolutionIsSeen ==
  ASSUME ConstantsAssumption, SimulationAssumption, Observed, NEW c, Seen(c), auction # Nil,
         trade = Nil, IInv', auction.bidder # Nil,
         NEW buyer \in Seats, NEW seller \in Seats, NEW price \in Money,
         \/ buyer = auction.auctioneer /\ seller = auction.bidder
         \/ buyer = auction.bidder /\ seller = auction.auctioneer,
         money' = TransferMoney(money, buyer, seller, price),
         animals' = Gain(animals, buyer, auction.animal),
         AdvanceTurn(animals'), UNCHANGED <<players, tray, applyError>>,
         \A s \in Seats : OutOfSight(s, c) =
            IF s = buyer THEN auction.highestBid - Total(price)
            ELSE IF s = seller THEN Total(price) - auction.highestBid ELSE 0
  PROVE  Observed' /\ result' = result /\ phase' # "auction"
  <1>1. /\ IInv /\ TypeOK /\ HistoryInv /\ InferenceIsExplained /\ Dealt /\ status = "playing"
        /\ buyer # seller /\ auction.highestBid \in Int /\ auction.animal \in Animals
        /\ money \in [Seats -> Money] /\ animals \in [Seats -> [Animals -> Nat]]
        /\ \A s \in Seated : s \in Seats
    BY AuctionFacts, CardFacts DEF Observed, IInv
  <1>2. Total(price) \in Int
    BY TotalIsInt
  <1>3. SameTable /\ auction' = Nil
    BY <1>1 DEF AdvanceTurn, SameTable, Dealt, tray
  <1>4. /\ history.auction # Nil /\ history.auction.bidder = auction.bidder
        /\ history.auction.amount = auction.highestBid /\ history.auction.animal = auction.animal
        /\ history.auction.auctioneer = auction.auctioneer
        /\ history.auction.animals = AnimalCounts(animals, auction.animal)
    BY SeenAuction DEF OpenAuction
  <1>5. ChangedAnimalOwner(animals', history.auction.animal, history.auction.animals) = buyer
    BY <1>1, <1>4, WinnerIsSeen
  <1> DEFINE after == [history.money EXCEPT ![buyer] = @ - auction.highestBid,
                                            ![seller] = @ + auction.highestBid]
  <1>6. history.money \in [Seats -> Int] /\ hidden \in [Seats -> Int]
    BY <1>1 DEF HistoryInv
  <1>7. SettleAuction(history, animals') = after
    BY <1>1, <1>4, <1>5 DEF SettleAuction
  <1>8. /\ after \in [Seats -> Int]
        /\ after[buyer] = history.money[buyer] - auction.highestBid
        /\ after[seller] = history.money[seller] + auction.highestBid
        /\ \A s \in Seats \ {buyer, seller} : after[s] = history.money[s]
    BY <1>1, <1>6
  <1> HIDE DEF after
  <1>9. /\ Total(money'[buyer]) = Total(money[buyer]) - Total(price)
        /\ Total(money'[seller]) = Total(money[seller]) + Total(price)
        /\ \A s \in Seats \ {buyer, seller} : money'[s] = money[s]
    <2>1. Minus(money[buyer], price) \in Money /\ Add(money[seller], price) \in Money
      BY <1>1, PileTypes
    <2>2. /\ money'[buyer] = Minus(money[buyer], price)
          /\ money'[seller] = Add(money[seller], price)
          /\ \A s \in Seats \ {buyer, seller} : money'[s] = money[s]
      BY <1>1 DEF TransferMoney
    <2> QED BY <1>1, <2>2, TotalOfSum
  <1>10. \A s \in Seats : OutOfSight(s, c) \in Int
    BY <1>1, <1>2
  <1>11. ASSUME NEW s \in Seated
         PROVE  Total(money'[s]) = after[s] + hidden[s] + OutOfSight(s, c)
    <2>1. /\ s \in Seats /\ Total(money[s]) = history.money[s] + hidden[s]
          /\ history.money[s] \in Int /\ hidden[s] \in Int
      BY <1>1, <1>6 DEF InferenceIsExplained
    <2>2. CASE s = buyer
      <3>1. OutOfSight(s, c) = auction.highestBid - Total(price)
        BY <2>2
      <3>2. Total(money'[s]) = Total(money[s]) - Total(price)
        BY <1>9, <2>2
      <3>3. after[s] = history.money[s] - auction.highestBid /\ auction.highestBid \in Int
        BY <1>1, <1>8, <2>2
      <3> QED BY <1>2, <2>1, <3>1, <3>2, <3>3
    <2>3. CASE s = seller
      <3>1. OutOfSight(s, c) = Total(price) - auction.highestBid
        BY <1>1, <2>3
      <3>2. Total(money'[s]) = Total(money[s]) + Total(price)
        BY <1>9, <2>3
      <3>3. after[s] = history.money[s] + auction.highestBid /\ auction.highestBid \in Int
        BY <1>1, <1>8, <2>3
      <3> QED BY <1>2, <2>1, <3>1, <3>2, <3>3
    <2>4. CASE s # buyer /\ s # seller
      BY <1>8, <1>9, <2>1, <2>4
    <2> QED BY <2>2, <2>3, <2>4
  <1> QED BY <1>3, <1>4, <1>7, <1>8, <1>10, <1>11, SettlementIsSeen

LEMMA BuyIsSeen ==
  ASSUME ConstantsAssumption, SimulationAssumption, Observed, auction # Nil, NEW pile \in Money,
         DecideResolveAuction(auction.auctioneer, TRUE, pile),
         ApplyObserved(auction.auctioneer, Offering("buy", pile))
  PROVE  Observed' /\ result' = result /\ phase' # "auction"
  <1> DEFINE c == Offering("buy", pile)
  <1>1. c.kind = "buy" /\ c.offer = pile
    BY CommandFields
  <1> HIDE DEF c
  <1>2. Applied(auction.auctioneer, c) /\ Seen(c)
    BY <1>1, DecidedMeans, CarriedOut DEF c
  <1>3. ResolveAuction(auction.auctioneer, TRUE, pile)
    BY <1>1, <1>2, AppliedMeans
  <1>4. /\ IInv /\ auction.auctioneer \in Seats /\ auction.bidder \in Seats /\ trade = Nil
        /\ auction.bidder # Nil /\ auction.bidder # auction.auctioneer /\ auction.highestBid \in Int
    BY <1>3, AuctionFacts, CardFacts DEF Observed, ResolveAuction, DecideResolveAuction, IInv, PhaseInv
  <1>5. IInv'
    BY <1>3, <1>4, ResolveAuctionKeepsIInv
  <1>6. ~applyError'
    BY <1>5 DEF IInv, ApplyNeverFails
  <1>7. /\ money' = TransferMoney(money, auction.auctioneer, auction.bidder, pile)
        /\ animals' = Gain(animals, auction.auctioneer, auction.animal)
        /\ AdvanceTurn(animals') /\ UNCHANGED <<players, tray, applyError>>
    BY <1>3, <1>6 DEF ResolveAuction, ApplyAuctionResolved, ApplyFails
  <1>8. ASSUME NEW s \in Seats
        PROVE  OutOfSight(s, c) = IF s = auction.auctioneer THEN auction.highestBid - Total(pile)
                                  ELSE IF s = auction.bidder THEN Total(pile) - auction.highestBid ELSE 0
    <2>1. Total(pile) \in Int
      BY TotalIsInt
    <2> QED BY <1>1, <1>4, <2>1 DEF OutOfSight
  <1> QED BY <1>2, <1>4, <1>5, <1>7, <1>8, ResolutionIsSeen

LEMMA SaleIsSeen ==
  ASSUME ConstantsAssumption, SimulationAssumption, Observed, auction # Nil,
         DecideResolveAuction(auction.auctioneer, FALSE, NoMoney),
         ApplyObserved(auction.auctioneer, Move("sell"))
  PROVE  Observed' /\ result' = result /\ phase' # "auction"
  <1> DEFINE c == Move("sell")
  <1>1. c.kind = "sell"
    BY CommandFields
  <1> HIDE DEF c
  <1>2. Applied(auction.auctioneer, c) /\ Seen(c)
    BY <1>1, DecidedMeans, CarriedOut DEF c
  <1>3. ResolveAuction(auction.auctioneer, FALSE, NoMoney)
    BY <1>1, <1>2, AppliedMeans
  <1>4. /\ IInv /\ auction.auctioneer \in Seats /\ auction.bidder \in Seats /\ trade = Nil
        /\ auction.bidder # Nil /\ auction.highestBid \in Int /\ auction.payment \in Money
    BY <1>3, AuctionFacts, CardFacts DEF Observed, ResolveAuction, DecideResolveAuction, IInv, PhaseInv
  <1>5. IInv'
    BY <1>3, <1>4, FixedPileTypes, ResolveAuctionKeepsIInv
  <1>6. ~applyError'
    BY <1>5 DEF IInv, ApplyNeverFails
  <1>7. /\ money' = TransferMoney(money, auction.bidder, auction.auctioneer, auction.payment)
        /\ animals' = Gain(animals, auction.bidder, auction.animal)
        /\ AdvanceTurn(animals') /\ UNCHANGED <<players, tray, applyError>>
    BY <1>3, <1>6 DEF ResolveAuction, ApplyAuctionResolved, ApplyFails
  <1>8. ASSUME NEW s \in Seats
        PROVE  OutOfSight(s, c) = IF s = auction.bidder THEN auction.highestBid - Total(auction.payment)
                                  ELSE IF s = auction.auctioneer
                                       THEN Total(auction.payment) - auction.highestBid ELSE 0
    <2>1. Total(auction.payment) = auction.highestBid
      BY <1>4 DEF Observed, BidIsPaid
    <2> QED BY <1>1, <1>4, <2>1 DEF OutOfSight
  <1> QED BY <1>2, <1>4, <1>5, <1>7, <1>8, ResolutionIsSeen

-----------------------------------------------------------------------------
(* Going round the table *)

LEMMA NextSeatIs ==
  ASSUME NumPlayers \in 3..5, NEW seat \in Seated
  PROVE  /\ NextSeat(seat) = (IF seat + 1 = NumPlayers THEN 0 ELSE seat + 1)
         /\ NextSeat(seat) \in Seated /\ NextSeat(seat) \in Seats
  <1>1. CASE NumPlayers = 3
    BY <1>1 DEF NextSeat, Seated, Seats
  <1>2. CASE NumPlayers = 4
    BY <1>2 DEF NextSeat, Seated, Seats
  <1>3. CASE NumPlayers = 5
    BY <1>3 DEF NextSeat, Seated, Seats
  <1> QED BY <1>1, <1>2, <1>3

\* Nobody lies between a seat and the next.
LEMMA NobodyBetween ==
  ASSUME NumPlayers \in 3..5, NEW base \in Seated, NEW s \in Seated
  PROVE  ~Between(base, s, NextSeat(base))
  <1>1. NumPlayers \in Int /\ base \in Int /\ s \in Int /\ base >= 0 /\ s >= 0 /\ s < NumPlayers /\ base < NumPlayers
    BY DEF Seated
  <1> QED BY <1>1, NextSeatIs DEF Between

\* Asking a seat puts it among those who were asked, until the round is full.
LEMMA OneFurther ==
  ASSUME NumPlayers \in 3..5, NEW base \in Seated, NEW seat \in Seated, seat # base, NEW s \in Seated
  PROVE  Between(base, s, NextSeat(seat)) /\ s # base <=> (Between(base, s, seat) /\ s # base) \/ s = seat
  <1>1. /\ NumPlayers \in Int /\ base \in Int /\ s \in Int /\ seat \in Int
        /\ base >= 0 /\ s >= 0 /\ seat >= 0 /\ s < NumPlayers /\ base < NumPlayers /\ seat < NumPlayers
    BY DEF Seated
  <1> QED BY <1>1, NextSeatIs DEF Between

LEMMA RoundIsFull ==
  ASSUME NEW base \in Seated, NEW s \in Seated, NumPlayers \in 3..5
  PROVE  /\ Between(base, s, base) <=> s # base
         /\ ~Between(base, s, s) \/ base = s
  BY DEF Between, Seated

LEMMA CountOneMore ==
  ASSUME NEW seats, NEW seat \in Seats, seat \notin seats
  PROVE  Count(seats \cup {seat}) = Count(seats) + 1 /\ Count(seats) \in Nat
  BY DEF Count, Seats

\* How many have to pass, with the two who are never asked, or the one.
LEMMA CountOfOthers ==
  ASSUME NumPlayers \in 3..5, NEW one \in Seated, NEW two, two \notin Seats \/ two \in Seated \ {one},
         NEW seats, seats \subseteq Seated \ {one, two}
  PROVE  /\ Count(seats) <= NumPlayers - (IF two \in Seats THEN 2 ELSE 1)
         /\ Count(seats) = NumPlayers - (IF two \in Seats THEN 2 ELSE 1) <=> seats = Seated \ {one, two}
  <1>1. Seated \subseteq Seats /\ \A s \in Seats : s \in Seated <=> s < NumPlayers
    BY DEF Seated, Seats
  <1>2. \A s \in Seats : s \in seats => s < NumPlayers /\ s # one /\ s # two
    BY <1>1
  <1>3. seats = Seated \ {one, two} <=> \A s \in Seats : s < NumPlayers /\ s # one /\ s # two => s \in seats
    BY <1>1
  <1>4. one \in Seats /\ one < NumPlayers /\ (two \in Seats => two < NumPlayers /\ two # one)
    BY <1>1
  <1>5. ASSUME NEW n \in 3..5, NumPlayers = n
        PROVE  /\ Count(seats) <= n - (IF two \in Seats THEN 2 ELSE 1)
               /\ Count(seats) = n - (IF two \in Seats THEN 2 ELSE 1)
                    <=> \A s \in Seats : s < n /\ s # one /\ s # two => s \in seats
    BY <1>2, <1>4, <1>5 DEF Count, Seats
  <1> QED BY <1>3, <1>5

-----------------------------------------------------------------------------
(* Every step keeps the invariant *)

\* What a round knows of the auction it runs.
LEMMA RoundFacts ==
  ASSUME ConstantsAssumption, PlayInv, phase = "auction"
  PROVE  /\ IInv /\ auction # Nil /\ Dealt /\ status = "playing" /\ NumPlayers \in 3..5
         /\ auction.auctioneer \in Seated
         /\ auction.bidder = Nil \/ auction.bidder \in Seated \ {auction.auctioneer}
         /\ Nil \notin Seats /\ Seated \subseteq Seats
         /\ Base \in Seated /\ (Base = auction.auctioneer \/ Base = auction.bidder)
         /\ NeededPasses = NumPlayers - (IF auction.bidder \in Seats THEN 2 ELSE 1)
  <1>1. IInv /\ auction # Nil
    BY DEF PlayInv, Observed, IInv, PhaseInv
  <1>2. /\ Dealt /\ status = "playing" /\ NumPlayers \in 3..5 /\ auction.auctioneer \in Seated
        /\ auction.bidder = Nil \/ auction.bidder \in Seated \ {auction.auctioneer}
        /\ Nil \notin Seats /\ Seated \subseteq Seats
    BY <1>1, AuctionFacts, CardFacts DEF ConstantsAssumption
  <1>3. /\ Base \in Seated /\ (Base = auction.auctioneer \/ Base = auction.bidder)
        /\ NeededPasses = NumPlayers - (IF auction.bidder \in Seats THEN 2 ELSE 1)
    BY <1>2 DEF Base, NeededPasses
  <1> QED BY <1>1, <1>2, <1>3

\* Outside an auction no round is run.
LEMMA NoRound ==
  ASSUME PlayInv, phase # "auction"
  PROVE  round = Nil
  BY DEF PlayInv, RoundInv

\* A round begins, at its beginning and with every bid, with nobody asked yet.
LEMMA NewRound ==
  ASSUME SimulationAssumption, NumPlayers \in 3..5, players' = players, phase' = "auction",
         NEW base \in Seated, Base' = base,
         round' = [seat |-> NextSeat(base), passes |-> 0], declined' = {}
  PROVE  RoundInv'
  <1>1. Seated' = Seated
    BY DEF Seated, NumPlayers
  <1>2. NextSeat(base) \in Seated /\ NextSeat(base) \in Seats
    BY NextSeatIs
  <1>3. round' \in RoundType /\ round'.seat = NextSeat(base) /\ round'.passes = 0
    BY <1>2 DEF RoundType
  <1>4. Count({}) = 0
    BY DEF Count
  <1>5. \A s \in Seated : ~Between(base, s, round'.seat)
    BY <1>3, NobodyBetween
  <1> QED BY <1>1, <1>2, <1>3, <1>4, <1>5 DEF RoundInv, SimulationAssumption

\* Nothing to observe.
LEMMA UnseenKeeps ==
  ASSUME ConstantsAssumption, Observed, UNCHANGED <<vars, history, hidden>>, result' # "refused"
  PROVE  Observed'
  <1>1. IInv'
    BY StepKeepsIInv DEF Observed
  <1>2. UNCHANGED <<status, players, donkeys, money, animals, auction>>
    BY DEF vars
  <1>3. BidIsPaid' /\ InferenceIsExplained' /\ HistoryInv'
    BY <1>2 DEF Observed, BidIsPaid, InferenceIsExplained, HistoryInv, Dealt, Seated, NumPlayers,
       OpenAuction
  <1> QED BY <1>1, <1>3 DEF Observed, CommandsAreLegal

\* The game is over, or goes on for too long.
LEMMA EndKeeps ==
  ASSUME ConstantsAssumption, PlayInv, PlayOver \/ GiveUp
  PROVE  PlayInv'
  <1>1. Observed'
    <2>1. result' # "refused" /\ UNCHANGED <<vars, history, hidden>>
      BY DEF PlayOver, GiveUp
    <2> QED BY <2>1, UnseenKeeps DEF PlayInv
  <1>2. UNCHANGED <<phase, auction, round, declined, players>>
    BY DEF PlayOver, GiveUp, vars
  <1> QED BY <1>1, <1>2 DEF PlayInv, RoundInv, Base, Seated, NumPlayers

\* A new round of an auction nobody has bid in.
LEMMA RunAuctionKeeps ==
  ASSUME ConstantsAssumption, SimulationAssumption, PlayInv, RunAuction
  PROVE  PlayInv'
  <1>1. /\ phase = "auction" /\ round = Nil /\ result = "playing"
        /\ round' = [seat |-> NextSeat(auction.auctioneer), passes |-> 0]
        /\ declined' = {} /\ UNCHANGED <<vars, result, history, hidden>>
    BY DEF RunAuction, InPhase, Looping
  <1>2. Observed'
    BY <1>1, UnseenKeeps DEF PlayInv
  <1>3. auction.bidder = Nil
    BY <1>1 DEF PlayInv, RoundInv
  <1>4. auction.auctioneer \in Seated /\ NumPlayers \in 3..5
    BY <1>1, RoundFacts
  <1>5. players' = players /\ phase' = "auction" /\ Base' = auction.auctioneer
    BY <1>1, <1>3 DEF vars, Base
  <1> QED BY <1>1, <1>2, <1>4, <1>5, NewRound DEF PlayInv

\* The auctioneer and the leader are not asked, and come up before the round is full.
LEMMA SkipSeatKeeps ==
  ASSUME ConstantsAssumption, SimulationAssumption, PlayInv, SkipSeat
  PROVE  PlayInv'
  <1>1. /\ result = "playing" /\ round # Nil /\ round.passes < NeededPasses
        /\ round.seat \in {auction.auctioneer, auction.bidder}
        /\ round' = [round EXCEPT !.seat = NextSeat(@)]
        /\ UNCHANGED <<vars, result, history, declined, hidden>>
    BY DEF SkipSeat, Asking
  <1>2. /\ phase = "auction" /\ round \in RoundType /\ round.seat \in Seated /\ declined \subseteq Seated
        /\ \A s \in Seated : s \in declined <=>
             s # auction.auctioneer /\ s # auction.bidder /\ Between(Base, s, round.seat)
        /\ round.passes = Count(declined)
    BY <1>1 DEF PlayInv, RoundInv
  <1>3. /\ NumPlayers \in 3..5 /\ auction.auctioneer \in Seated /\ Base \in Seated
        /\ auction.bidder = Nil \/ auction.bidder \in Seated \ {auction.auctioneer}
        /\ Nil \notin Seats /\ Seated \subseteq Seats
        /\ Base = auction.auctioneer \/ Base = auction.bidder
        /\ NeededPasses = NumPlayers - (IF auction.bidder \in Seats THEN 2 ELSE 1)
    BY <1>2, RoundFacts
  <1>4. round.seat # Base
    <2> SUFFICES ASSUME round.seat = Base
                 PROVE  FALSE
      OBVIOUS
    <2>1. declined = Seated \ {auction.auctioneer, auction.bidder}
      BY <1>2, <1>3, RoundIsFull
    <2>2. Count(declined) = NeededPasses
      BY <1>3, <2>1, CountOfOthers
    <2>3. NeededPasses \in Int
      BY <1>3
    <2> QED BY <1>1, <1>2, <2>2, <2>3
  <1>5. Observed'
    BY <1>1, UnseenKeeps DEF PlayInv
  <1>6. /\ phase' = "auction" /\ auction' = auction /\ Base' = Base /\ declined' = declined
        /\ Seated' = Seated
    BY <1>1, <1>2 DEF vars, Base, Seated, NumPlayers
  <1>7. NextSeat(round.seat) \in Seated /\ NextSeat(round.seat) \in Seats
    BY <1>2, <1>3, NextSeatIs
  <1>8. round' \in RoundType /\ round'.seat = NextSeat(round.seat) /\ round'.passes = round.passes
    BY <1>1, <1>2, <1>7 DEF RoundType
  <1>9. ASSUME NEW s \in Seated
        PROVE  s \in declined <=>
                 s # auction.auctioneer /\ s # auction.bidder /\ Between(Base, s, round'.seat)
    BY <1>1, <1>2, <1>3, <1>4, <1>8, OneFurther
  <1>10. RoundInv'
    BY <1>2, <1>6, <1>7, <1>8, <1>9 DEF RoundInv, SimulationAssumption
  <1> QED BY <1>5, <1>10 DEF PlayInv

\* Whoever is asked bids more, and the round begins anew, or has declined.
LEMMA AskForBidKeeps ==
  ASSUME ConstantsAssumption, SimulationAssumption, PlayInv, AskForBid
  PROVE  PlayInv'
  <1> DEFINE seat == round.seat
  <1>1. /\ round # Nil /\ result = "playing"
        /\ seat # auction.auctioneer /\ seat # auction.bidder
    BY DEF AskForBid, Asking
  <1>2. /\ phase = "auction" /\ round \in RoundType /\ seat \in Seated /\ declined \subseteq Seated
        /\ \A s \in Seated : s \in declined <=>
             s # auction.auctioneer /\ s # auction.bidder /\ Between(Base, s, seat)
        /\ round.passes = Count(declined) /\ round.passes \in Nat
    BY <1>1 DEF PlayInv, RoundInv, RoundType
  <1>3. /\ IInv /\ auction # Nil /\ Observed /\ NumPlayers \in 3..5 /\ Base \in Seated
        /\ Base = auction.auctioneer \/ Base = auction.bidder
        /\ Seated \subseteq Seats
    BY <1>2, RoundFacts DEF PlayInv
  <1>4. PICK pile \in BidMoves(seat, PaymentOptions(money[seat])) :
          IF pile = Nil
          THEN /\ round' = [seat |-> NextSeat(seat), passes |-> round.passes + 1]
               /\ declined' = declined \cup {seat}
               /\ UNCHANGED <<vars, result, version, history, hidden>>
          ELSE /\ ApplyObserved(seat, Offering("bid", pile))
               /\ round' = [seat |-> NextSeat(seat), passes |-> PassesAfterBid]
               /\ declined' = {}
    BY DEF AskForBid
  <1> HIDE DEF seat
  <1>5. CASE pile = Nil
    <2>1. /\ round' = [seat |-> NextSeat(seat), passes |-> round.passes + 1]
          /\ declined' = declined \cup {seat}
          /\ UNCHANGED <<vars, result, history, hidden>>
      BY <1>4, <1>5
    <2>2. Observed'
      BY <1>1, <1>3, <2>1, UnseenKeeps
    <2>3. phase' = "auction" /\ auction' = auction /\ Base' = Base /\ Seated' = Seated
      BY <1>2, <2>1 DEF vars, Base, Seated, NumPlayers
    <2>4. NextSeat(seat) \in Seated /\ NextSeat(seat) \in Seats
      BY <1>2, <1>3, NextSeatIs
    <2>5. round' \in RoundType /\ round'.seat = NextSeat(seat) /\ round'.passes = round.passes + 1
      BY <1>2, <2>1, <2>4 DEF RoundType
    <2>6. seat # Base /\ seat \notin declined
      BY <1>1, <1>2, <1>3, RoundIsFull
    <2>7. ASSUME NEW s \in Seated
          PROVE  s \in declined' <=>
                   s # auction.auctioneer /\ s # auction.bidder /\ Between(Base, s, round'.seat)
      BY <1>1, <1>2, <1>3, <2>1, <2>5, <2>6, OneFurther
    <2>8. round'.passes = Count(declined') /\ declined' \subseteq Seated
      BY <1>2, <1>3, <2>1, <2>5, <2>6, CountOneMore
    <2>9. RoundInv'
      BY <2>3, <2>4, <2>5, <2>7, <2>8 DEF RoundInv, SimulationAssumption
    <2> QED BY <2>2, <2>9 DEF PlayInv
  <1>6. CASE pile # Nil
    <2>1. /\ ApplyObserved(seat, Offering("bid", pile))
          /\ round' = [seat |-> NextSeat(seat), passes |-> 0] /\ declined' = {}
      BY <1>4, <1>6 DEF PassesAfterBid
    <2>2. pile \in Money /\ Total(pile) \in Int /\ DecidePlaceBid(seat, Total(pile), pile)
      BY <1>1, <1>2, <1>3, <1>4, <1>6, BidIsLegal DEF seat
    <2>3. Observed' /\ phase' = phase /\ players' = players /\ auction'.bidder = seat
      BY <1>2, <1>3, <2>1, <2>2, BidIsSeen
    <2>4. Base' = seat
      BY <1>2, <1>3, <2>3 DEF Base, ConstantsAssumption
    <2>5. RoundInv'
      BY <1>2, <1>3, <2>1, <2>3, <2>4, NewRound
    <2> QED BY <2>3, <2>5 DEF PlayInv
  <1> QED BY <1>5, <1>6

\* When it is closed everyone else has declined, once.
LEMMA RoundIsOver ==
  ASSUME ConstantsAssumption, PlayInv, round # Nil, round.passes >= NeededPasses
  PROVE  /\ declined = Seated \ {auction.auctioneer, auction.bidder}
         /\ round.passes = NumPlayers - (IF auction.bidder = Nil THEN 1 ELSE 2)
  <1>1. /\ phase = "auction" /\ round.passes = Count(declined) /\ declined \subseteq Seated
        /\ \A s \in declined : s # auction.auctioneer /\ s # auction.bidder
        /\ round.passes \in Nat
    BY DEF PlayInv, RoundInv, RoundType
  <1>2. /\ NumPlayers \in 3..5 /\ auction.auctioneer \in Seated /\ Nil \notin Seats
        /\ auction.bidder = Nil \/ auction.bidder \in Seated \ {auction.auctioneer}
        /\ Seated \subseteq Seats
        /\ NeededPasses = NumPlayers - (IF auction.bidder \in Seats THEN 2 ELSE 1)
    BY <1>1, RoundFacts
  <1>3. /\ declined \subseteq Seated \ {auction.auctioneer, auction.bidder}
        /\ auction.bidder \notin Seats \/ auction.bidder \in Seated \ {auction.auctioneer}
        /\ NeededPasses \in Int
    BY <1>1, <1>2
  <1>4. /\ Count(declined) <= NeededPasses
        /\ Count(declined) = NeededPasses <=> declined = Seated \ {auction.auctioneer, auction.bidder}
    BY <1>2, <1>3, CountOfOthers
  <1>5. Count(declined) = NeededPasses
    BY <1>1, <1>3, <1>4
  <1> QED BY <1>1, <1>2, <1>4, <1>5

LEMMA CloseRoundKeeps ==
  ASSUME ConstantsAssumption, SimulationAssumption, PlayInv, CloseRound
  PROVE  PlayInv'
  <1>1. /\ round # Nil /\ round' = Nil /\ ApplyObserved(auction.auctioneer, Move("close"))
    BY DEF CloseRound
  <1>2. phase = "auction" /\ auction # Nil /\ Observed
    BY <1>1, RoundFacts DEF PlayInv, RoundInv
  <1>3. DecideCloseAuction(auction.auctioneer)
    BY <1>2 DEF DecideCloseAuction
  <1>4. Observed' /\ phase' # "auction"
    BY <1>1, <1>2, <1>3, CloseIsSeen
  <1> QED BY <1>1, <1>4 DEF PlayInv, RoundInv

\* The other decisions are made while no round is run.
LEMMA OtherwiseNoRound ==
  ASSUME PlayInv, round = Nil, UNCHANGED round, Observed',
         phase' # "auction" \/ auction'.bidder = Nil
  PROVE  PlayInv'
  BY DEF PlayInv, RoundInv

LEMMA TurnKeeps ==
  ASSUME ConstantsAssumption, SimulationAssumption, PlayInv, Turn
  PROVE  PlayInv'
  <1>1. phase = "turn" /\ status = "playing" /\ round = Nil /\ round' = round /\ Observed /\ IInv
    BY DEF Turn, InPhase, Looping, PlayInv, Observed
  <1>2. PICK guided \in GuideTurns(turn, PaymentOptions(money[turn])) :
          \E c \in TurnMoves(turn, PaymentOptions(money[turn]), guided) : ApplyObserved(turn, c)
    BY DEF Turn
  <1>3. PICK c \in TurnMoves(turn, PaymentOptions(money[turn]), guided) : ApplyObserved(turn, c)
    BY <1>2
  <1>4. CASE c = Move("auction") /\ DecideBeginAuction(turn)
    <2>1. Observed' /\ auction'.bidder = Nil
      BY <1>1, <1>3, <1>4, AuctionIsSeen
    <2> QED BY <1>1, <2>1, OtherwiseNoRound
  <1>5. CASE \E target \in Seats, animal \in Animals, offer \in Money :
               c = Trading(target, animal, offer) /\ DecideBeginTrade(turn, target, animal, offer)
    <2>1. Observed' /\ phase' # "auction"
      BY <1>1, <1>3, <1>5, ChallengeIsSeen
    <2> QED BY <1>1, <2>1, OtherwiseNoRound
  <1> QED BY <1>1, <1>2, <1>3, <1>4, <1>5, TurnIsLegal

LEMMA FirstRefusalKeeps ==
  ASSUME ConstantsAssumption, SimulationAssumption, PlayInv, FirstRefusal
  PROVE  PlayInv'
  <1> DEFINE actor == auction.auctioneer
  <1>1. /\ phase = "first_refusal" /\ round = Nil /\ round' = round /\ Observed /\ IInv
        /\ auction # Nil
    BY DEF FirstRefusal, InPhase, Looping, Decision, PlayInv, Observed, IInv, PhaseInv
  <1>2. PICK c \in ResolveMoves(actor, PaymentOptions(money[actor])) : ApplyObserved(actor, c)
    BY DEF FirstRefusal, Decision
  <1>3. CASE c = Move("sell") /\ DecideResolveAuction(actor, FALSE, NoMoney)
    <2>1. Observed' /\ phase' # "auction"
      BY <1>1, <1>2, <1>3, SaleIsSeen
    <2> QED BY <1>1, <2>1, OtherwiseNoRound
  <1>4. CASE \E pile \in Money : c = Offering("buy", pile) /\ DecideResolveAuction(actor, TRUE, pile)
    <2>1. Observed' /\ phase' # "auction"
      BY <1>1, <1>2, <1>4, BuyIsSeen
    <2> QED BY <1>1, <2>1, OtherwiseNoRound
  <1> QED BY <1>1, <1>2, <1>3, <1>4, ResolveIsLegal

LEMMA RespondTradeKeeps ==
  ASSUME ConstantsAssumption, SimulationAssumption, PlayInv, RespondTrade
  PROVE  PlayInv'
  <1> DEFINE actor == trade.target
  <1>1. /\ phase \in {"trade_response", "trade_recounter"} /\ round = Nil /\ round' = round
        /\ Observed /\ IInv /\ trade # Nil
    BY DEF RespondTrade, InPhase, Looping, Decision, PlayInv, Observed, IInv, PhaseInv
  <1>2. PICK c \in RespondMoves(actor, PaymentOptions(money[actor])) : ApplyObserved(actor, c)
    BY DEF RespondTrade, Decision
  <1>3. CASE c = Move("accept") /\ DecideAcceptTrade(actor)
    <2>1. Observed' /\ phase' # "auction"
      BY <1>1, <1>2, <1>3, AcceptIsSeen
    <2> QED BY <1>1, <2>1, OtherwiseNoRound
  <1>4. CASE \E offer \in Money : c = Offering("counter", offer) /\ DecideCounterTrade(actor, offer)
    <2>1. Observed' /\ phase' # "auction"
      BY <1>1, <1>2, <1>4, CounterIsSeen
    <2> QED BY <1>1, <2>1, OtherwiseNoRound
  <1> QED BY <1>1, <1>2, <1>3, <1>4, RespondIsLegal

LEMMA OfferAgainKeeps ==
  ASSUME ConstantsAssumption, SimulationAssumption, PlayInv, OfferAgain
  PROVE  PlayInv'
  <1> DEFINE actor == trade.challenger
  <1>1. /\ phase = "trade_reoffer" /\ round = Nil /\ round' = round
        /\ Observed /\ IInv /\ trade # Nil
    BY DEF OfferAgain, InPhase, Looping, Decision, PlayInv, Observed, IInv, PhaseInv
  <1>2. PICK c \in ReofferMoves(actor, PaymentOptions(money[actor])) : ApplyObserved(actor, c)
    BY DEF OfferAgain, Decision
  <1>3. PICK offer \in Money : c = Offering("reoffer", offer) /\ DecideReofferTrade(actor, offer)
    BY <1>1, <1>2, ReofferIsLegal
  <1>4. Observed' /\ phase' # "auction"
    BY <1>1, <1>2, <1>3, ReofferIsSeen
  <1> QED BY <1>1, <1>4, OtherwiseNoRound

\* Before the deal there is nothing to see; what is dealt is what is supposed.
LEMMA SetupKeeps ==
  ASSUME ConstantsAssumption, SimulationAssumption, PlayInv, Setup
  PROVE  PlayInv'
  <1>1. /\ status \in {"none", "lobby"} /\ IInv /\ TypeOK /\ Observed /\ ~Dealt
        /\ phase # "auction" /\ auction = Nil /\ donkeys = 0
        /\ UNCHANGED <<result, round, history, hidden>>
    BY DEF Setup, PlayInv, Observed, IInv, PhaseInv, NothingElsewhere, Dealt
  <1>2. round = Nil /\ history = NewHistory /\ hidden = [s \in Seats |-> 0] /\ CommandsAreLegal
    BY <1>1, NoRound DEF Observed, HistoryInv
  <1>3. NumPlayers \in Nat /\ Identities = 1..Players /\ Players \in 3..5
    BY <1>1 DEF TypeOK, SimulationAssumption
  <1>4. /\ IInv' /\ UNCHANGED <<donkeys, auction>> /\ phase' # "auction"
        /\ Dealt' => money' = [s \in Seats |-> IF s \in Seated THEN StartingMoney ELSE NoMoney]
        /\ Dealt' => Seated' = Seated
    <2>1. CASE status = "none"
      <3>1. 1 \in Identities /\ CreateRoom(1)
        BY <1>3, <2>1 DEF Setup
      <3>2. IInv'
        BY <1>1, <3>1, CreateRoomKeepsIInv
      <3> QED BY <3>1, <3>2 DEF CreateRoom, ApplyRoomCreated, Dealt, tray
    <2>2. CASE status # "none" /\ NumPlayers < Players
      <3>1. NumPlayers + 1 \in Identities /\ JoinRoom(NumPlayers + 1)
        BY <1>3, <2>2 DEF Setup
      <3>2. IInv'
        BY <1>1, <3>1, JoinRoomKeepsIInv
      <3> QED BY <1>1, <3>1, <3>2 DEF JoinRoom, ApplyPlayerJoined, Dealt, tray
    <2>3. CASE status # "none" /\ ~(NumPlayers < Players)
      <3>1. 0 \in Seats /\ StartGame(0)
        BY <2>3 DEF Setup, Seats
      <3>2. IInv'
        BY <1>1, <3>1, StartGameKeepsIInv
      <3>3. ~applyError'
        BY <3>2 DEF IInv, ApplyNeverFails
      <3>4. /\ UNCHANGED <<donkeys, auction, players>> /\ phase' = "turn"
            /\ money' = [s \in Seats |-> IF s \in Seated THEN StartingMoney ELSE NoMoney]
        BY <3>1, <3>3 DEF StartGame, ApplyGameStarted, ApplyFails
      <3> QED BY <3>2, <3>4 DEF Seated, NumPlayers
    <2> QED BY <2>1, <2>2, <2>3
  <1>5. HistoryInv'
    BY <1>1, <1>2, <1>4 DEF Observed, HistoryInv
  <1>6. BidIsPaid' /\ CommandsAreLegal'
    BY <1>1, <1>2, <1>4 DEF BidIsPaid, CommandsAreLegal
  <1>7. InferenceIsExplained'
    <2>1. SUFFICES ASSUME Dealt', NEW s \in Seated'
                   PROVE  Total(money'[s]) = history'.money[s] + hidden'[s]
      BY DEF InferenceIsExplained
    <2>2. s \in Seats /\ s \in Seated
      <3>1. PICK n \in 0..5 : NumPlayers' = n
        BY <1>4 DEF IInv, TypeOK
      <3>2. s \in Seated
        BY <1>4, <2>1
      <3>3. s \in 0..(n - 1)
        BY <2>1, <3>1 DEF Seated
      <3> QED BY <3>2, <3>3 DEF Seats
    <2>3. money'[s] = StartingMoney
      BY <1>4, <2>1, <2>2
    <2>4. Total(StartingMoney) = 90
      BY DEF StartingMoney, Cash, Total, Denoms
    <2>5. history'.money[s] = 90 /\ hidden'[s] = 0
      BY <1>1, <1>2, <2>2 DEF NewHistory
    <2> QED BY <2>3, <2>4, <2>5
  <1> QED BY <1>1, <1>2, <1>4, <1>5, <1>6, <1>7 DEF PlayInv, Observed, RoundInv

-----------------------------------------------------------------------------
(* The theorems *)

\* Before the first event there is nothing to infer and nobody to ask.
LEMMA InitSatisfiesPlayInv ==
  ASSUME ConstantsAssumption, PlayInit
  PROVE  PlayInv
  <1>1. IInv
    BY InitSatisfiesIInv DEF PlayInit
  <1>2. /\ ~Dealt /\ auction = Nil /\ phase = "none" /\ donkeys = 0 /\ round = Nil
        /\ history = NewHistory /\ hidden = [s \in Seats |-> 0] /\ result = "playing"
    BY DEF PlayInit, Init, Dealt
  <1>3. HistoryInv
    BY <1>2 DEF HistoryInv, NewHistory
  <1> QED BY <1>1, <1>2, <1>3 DEF PlayInv, Observed, BidIsPaid, CommandsAreLegal,
                                   InferenceIsExplained, RoundInv

\* Every step keeps the invariant.
LEMMA PlayStepKeepsPlayInv ==
  ASSUME ConstantsAssumption, SimulationAssumption, PlayInv, [Playing]_playVars
  PROVE  PlayInv'
  <1>1. CASE Setup
    BY <1>1, SetupKeeps
  <1>2. CASE PlayOver \/ GiveUp
    BY <1>2, EndKeeps
  <1>3. CASE Turn
    BY <1>3, TurnKeeps
  <1>4. CASE FirstRefusal
    BY <1>4, FirstRefusalKeeps
  <1>5. CASE RespondTrade
    BY <1>5, RespondTradeKeeps
  <1>6. CASE OfferAgain
    BY <1>6, OfferAgainKeeps
  <1>7. CASE RunAuction
    BY <1>7, RunAuctionKeeps
  <1>8. CASE CloseRound
    BY <1>8, CloseRoundKeeps
  <1>9. CASE SkipSeat
    BY <1>9, SkipSeatKeeps
  <1>10. CASE AskForBid
    BY <1>10, AskForBidKeeps
  <1>11. CASE UNCHANGED playVars
    <2>1. UNCHANGED <<vars, history, hidden>> /\ UNCHANGED <<round, declined, result>>
      BY <1>11 DEF playVars
    <2>2. Observed'
      BY <2>1, UnseenKeeps DEF PlayInv, Observed, CommandsAreLegal
    <2>3. UNCHANGED <<phase, auction, players>>
      BY <2>1 DEF vars
    <2> QED BY <2>1, <2>2, <2>3 DEF PlayInv, RoundInv, Base, Seated, NumPlayers
  <1> QED BY <1>1, <1>2, <1>3, <1>4, <1>5, <1>6, <1>7, <1>8, <1>9, <1>10, <1>11 DEF Playing

\* The invariant holds in every game between computer players.
THEOREM PlayInvariant == PlaySpec => []PlayInv
  <1>1. PlayInit => PlayInv
    BY InitSatisfiesPlayInv, ConstantsAssumption
  <1>2. PlayInv /\ [Playing]_playVars => PlayInv'
    BY PlayStepKeepsPlayInv, ConstantsAssumption, SimulationAssumption
  <1> QED BY <1>1, <1>2, PTL DEF PlaySpec

\* What a policy decides is never refused, by Decide or by Apply.
THEOREM NoCommandIsRefused == PlaySpec => []CommandsAreLegal
  <1>1. PlayInv => CommandsAreLegal
    BY DEF PlayInv, Observed
  <1> QED BY <1>1, PlayInvariant, PTL

\* What an observer takes a player to hold differs from what he holds by what moved out
\* of sight: overpaid purchases and the offers of trades.
THEOREM InferenceExplained == PlaySpec => []InferenceIsExplained
  <1>1. PlayInv => InferenceIsExplained
    BY DEF PlayInv, Observed
  <1> QED BY <1>1, PlayInvariant, PTL

\* Whatever purse a player's turn finds him with, his options are the best piles of it.
THEOREM PaymentsAlwaysBest == PlaySpec => []PaymentsAreBest
  <1>1. PlayInv => PaymentsAreBest
    <2>1. SUFFICES ASSUME PlayInv, phase = "turn" PROVE OptionsAreBest(money[turn])
      BY DEF PaymentsAreBest
    <2>2. IInv /\ Dealt /\ turn \in Seated
      BY <2>1 DEF PlayInv, Observed, IInv, PhaseInv, TypeOK, Dealt
    <2>3. money[turn] \in Money /\ Valid(money[turn])
      BY <2>2, PurseFacts
    <2> QED BY <2>3, OptionsAreBestOfAll
  <1> QED BY <1>1, PlayInvariant, PTL

\* An auction is closed in one way only: by its round.
LEMMA OnlyCloseRoundCloses ==
  ASSUME ConstantsAssumption, SimulationAssumption, PlayInv, [Playing]_playVars,
         phase = "auction", phase' # "auction"
  PROVE  CloseRound
  <1>1. /\ phase' # phase /\ status \notin {"none", "lobby"} /\ phase \notin {"turn", "first_refusal"}
        /\ phase \notin {"trade_response", "trade_recounter", "trade_reoffer"}
    BY DEF PlayInv, Observed, IInv, PhaseInv
  <1>2. ~Setup /\ ~Turn /\ ~FirstRefusal /\ ~RespondTrade /\ ~OfferAgain
    BY <1>1 DEF Setup, Turn, FirstRefusal, RespondTrade, OfferAgain, InPhase
  <1>3. ~PlayOver /\ ~GiveUp /\ ~RunAuction /\ ~SkipSeat /\ ~UNCHANGED playVars
    BY <1>1 DEF PlayOver, GiveUp, RunAuction, SkipSeat, playVars, vars
  <1>4. ~AskForBid
    <2>1. SUFFICES ASSUME AskForBid PROVE phase' = phase
      BY <1>1
    <2> DEFINE seat == round.seat
    <2>2. /\ round # Nil /\ seat # auction.auctioneer /\ seat # auction.bidder
          /\ Observed /\ IInv /\ auction # Nil /\ RoundInv
      BY <2>1, RoundFacts DEF AskForBid, Asking, PlayInv
    <2>3. seat \in Seated
      BY <2>2 DEF RoundInv
    <2>4. PICK pile \in BidMoves(seat, PaymentOptions(money[seat])) :
            IF pile = Nil THEN UNCHANGED vars ELSE ApplyObserved(seat, Offering("bid", pile))
      BY <2>1 DEF AskForBid
    <2>5. CASE pile = Nil
      BY <2>4, <2>5 DEF vars
    <2>6. CASE pile # Nil
      <3>1. pile \in Money /\ Total(pile) \in Int /\ DecidePlaceBid(seat, Total(pile), pile)
        BY <2>2, <2>3, <2>4, <2>6, BidIsLegal
      <3> QED BY <2>2, <2>3, <2>4, <2>6, <3>1, BidIsSeen
    <2> QED BY <2>5, <2>6
  <1> QED BY <1>2, <1>3, <1>4 DEF Playing

\* Nobody is left out: when an auction is closed all but the auctioneer and the leader
\* have declined, each counted once.
THEOREM EveryonePasses == PlaySpec => EveryoneHasPassed
  <1> DEFINE Closes == phase = "auction" /\ phase' # "auction"
             Everyone == /\ declined = Seated \ {auction.auctioneer, auction.bidder}
                         /\ round.passes = NumPlayers - (IF auction.bidder = Nil THEN 1 ELSE 2)
  <1>1. PlayInv /\ [Playing]_playVars => [Closes => Everyone]_playVars
    <2>1. SUFFICES ASSUME PlayInv, [Playing]_playVars, Closes PROVE Everyone
      OBVIOUS
    <2>2. CloseRound
      BY <2>1, OnlyCloseRoundCloses, ConstantsAssumption, SimulationAssumption
    <2>3. round # Nil /\ round.passes >= NeededPasses
      BY <2>2 DEF CloseRound
    <2> QED BY <2>1, <2>3, RoundIsOver, ConstantsAssumption
  <1> QED BY <1>1, PlayInvariant, PTL DEF PlaySpec, EveryoneHasPassed
=============================================================================
