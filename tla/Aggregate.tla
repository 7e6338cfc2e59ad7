----------------------------- MODULE Aggregate -----------------------------
(***************************************************************************)
(* One game of Kuhhandel: the event-sourced aggregate of                   *)
(* internal/game/game.go.  A command is first decided (Decide: a pure      *)
(* check that returns one event or a rule error) and its event is then     *)
(* applied (Apply: the state change).  Here DecideX is the guard of the    *)
(* command X, ApplyY the effect of the event Y, and the action X their     *)
(* conjunction; a command that Decide refuses changes nothing and is no    *)
(* step.                                                                   *)
(*                                                                         *)
(* A player is named by his seat 0..4, which is what playerIndex turns an  *)
(* id into; JoinRoom's check keeps that unambiguous.  Seats not yet taken  *)
(* hold nothing.  The shuffled deck is hidden from everyone and only its   *)
(* next card is ever read, so the deck is the number of cards left of each *)
(* species and the card an auction reveals is any of them.                 *)
(*                                                                         *)
(* applyError remembers that Apply refused an event that Decide had        *)
(* accepted.  By then the event is in the store, so the game could never   *)
(* be replayed again; what the half-applied event leaves in memory is not  *)
(* modelled.                                                               *)
(*                                                                         *)
(* A definition whose name starts with Slip is the next one as a plausible *)
(* mistake would have it.  Nothing uses it; putting it in the other's      *)
(* place shows that the properties notice.                                 *)
(***************************************************************************)
EXTENDS Banknotes, Sequences

CONSTANTS
  Animals,     \* the species in the deck, four cards of each
  Donkey,      \* the species that pays a bonus
  Identities,  \* the identities (id and token hash) joining players may have
  Bids,        \* the amounts players bid
  Offers,      \* the piles players put on the table as payment or offer
  Nil          \* no auction, no trade, no bidder

Seats == 0..4

AuctionType == [animal : Animals, auctioneer : Seats, highestBid : Int,
                bidder : Seats \cup {Nil}, payment : Money]

TradeType == [challenger : Seats, target : Seats, animal : Animals,
              count : 1..2, offer : Money, round : {0, 2}]

ASSUME ConstantsAssumption ==
  /\ Animals # {}
  /\ Bids \subseteq Int
  /\ Offers \subseteq Money
  /\ Nil \notin Seats
  /\ Nil \notin AuctionType
  /\ Nil \notin TradeType

VARIABLES
  status, phase, players, turn,  \* players: the identities by seat
  deck, bank, donkeys,           \* the tray: cards left, money left, donkeys seen
  money, animals,                \* what each seat holds
  auction, trade,                \* the transaction in progress, or Nil
  applyError

room  == <<status, players>>
tray  == <<deck, bank, donkeys>>
hands == <<money, animals>>
vars  == <<status, phase, players, turn, deck, bank, donkeys, money, animals,
           auction, trade, applyError>>

NumPlayers == Len(players)
Seated == 0..(NumPlayers - 1)
CardsLeft == \E a \in Animals : deck[a] > 0

InitialBank   == Cash(10, 20, 10, 5, 5, 5)
StartingMoney == Cash(2, 4, 1, 0, 0, 0)

DonkeyBonus(number) == CASE number = 1 -> Cash(0, 0, 1, 0, 0, 0)
                         [] number = 2 -> Cash(0, 0, 0, 1, 0, 0)
                         [] number = 3 -> Cash(0, 0, 0, 0, 1, 0)
                         [] number = 4 -> Cash(0, 0, 0, 0, 0, 1)
                         [] OTHER -> NoMoney

Init ==
  /\ status = "none" /\ phase = "none" /\ players = <<>> /\ turn = 0
  /\ deck = [a \in Animals |-> 0] /\ bank = NoMoney /\ donkeys = 0
  /\ money = [s \in Seats |-> NoMoney]
  /\ animals = [s \in Seats |-> [a \in Animals |-> 0]]
  /\ auction = Nil /\ trade = Nil
  /\ applyError = FALSE

ApplyFails == applyError' = TRUE /\ UNCHANGED <<room, phase, turn, tray, hands, auction, trade>>

-----------------------------------------------------------------------------
(* The room *)

DecideCreateRoom == status = "none"

ApplyRoomCreated(id) ==
  /\ status' = "lobby" /\ phase' = "lobby" /\ players' = <<id>>
  /\ UNCHANGED <<turn, tray, hands, auction, trade, applyError>>

CreateRoom(id) == DecideCreateRoom /\ ApplyRoomCreated(id)

DecideJoinRoom(id) ==
  /\ status = "lobby"
  /\ NumPlayers < 5
  /\ \A i \in 1..NumPlayers : players[i] # id

ApplyPlayerJoined(id) ==
  /\ players' = Append(players, id)
  /\ UNCHANGED <<status, phase, turn, tray, hands, auction, trade, applyError>>

JoinRoom(id) == DecideJoinRoom(id) /\ ApplyPlayerJoined(id)

\* The host is the player who created the room: seat 0.
DecideStartGame(actor) ==
  /\ status = "lobby"
  /\ actor = 0
  /\ NumPlayers >= 3

ApplyGameStarted ==
  LET handedOut == Times(NumPlayers, StartingMoney)
  IN  IF ~Contains(InitialBank, handedOut) THEN ApplyFails
      ELSE /\ status' = "playing" /\ phase' = "turn" /\ turn' = 0
           /\ deck' = [a \in Animals |-> 4]
           /\ bank' = Minus(InitialBank, handedOut)
           /\ money' = [s \in Seats |-> IF s \in Seated THEN StartingMoney ELSE NoMoney]
           /\ UNCHANGED <<players, donkeys, animals, auction, trade, applyError>>

StartGame(actor) == DecideStartGame(actor) /\ ApplyGameStarted

-----------------------------------------------------------------------------
(* Passing the turn *)

SlipCanTrade(holdings, seat) ==
  \E a \in Animals : /\ holdings[seat][a] \notin {0, 4}
                     /\ \E other \in Seated : holdings[other][a] > 0

CanTrade(holdings, seat) ==
  \E a \in Animals : /\ holdings[seat][a] \notin {0, 4}
                     /\ \E other \in Seated \ {seat} : holdings[other][a] > 0

Candidate(offset) == (turn + 1 + offset) % NumPlayers

SlipAdvanceTurnNoSkip(holdings) ==
  /\ auction' = Nil /\ trade' = Nil
  /\ IF CardsLeft \/ \E seat \in Seated : CanTrade(holdings, seat)
     THEN turn' = Candidate(0) /\ phase' = "turn" /\ status' = status
     ELSE turn' = turn /\ phase' = "finished" /\ status' = "finished"

SlipAdvanceTurnFinishEarly(holdings) ==
  /\ auction' = Nil /\ trade' = Nil
  /\ IF CardsLeft \/ CanTrade(holdings, Candidate(0))
     THEN turn' = Candidate(0) /\ phase' = "turn" /\ status' = status
     ELSE turn' = turn /\ phase' = "finished" /\ status' = "finished"

\* advanceTurn, once the players hold `holdings`: while cards remain the next
\* seat plays, afterwards the first one that can trade, and else it is over.
AdvanceTurn(holdings) ==
  /\ auction' = Nil /\ trade' = Nil
  /\ \/ /\ CardsLeft
        /\ turn' = Candidate(0)
        /\ phase' = "turn" /\ status' = status
     \/ /\ ~CardsLeft
        /\ \E offset \in Seated :
              /\ CanTrade(holdings, Candidate(offset))
              /\ \A earlier \in 0..(offset - 1) : ~CanTrade(holdings, Candidate(earlier))
              /\ turn' = Candidate(offset)
        /\ phase' = "turn" /\ status' = status
     \/ /\ ~CardsLeft
        /\ \A offset \in Seated : ~CanTrade(holdings, Candidate(offset))
        /\ phase' = "finished" /\ status' = "finished" /\ turn' = turn

RequireTurn(actor) == status = "playing" /\ phase = "turn" /\ actor = turn

-----------------------------------------------------------------------------
(* Auctions *)

ValidateAuctionPayment(available, amount, payment) ==
  /\ amount > 0
  /\ Valid(payment) /\ payment[0] = 0 /\ CardCount(payment) # 0
  /\ Total(payment) >= amount
  /\ Contains(available, payment)

DecideBeginAuction(actor) == RequireTurn(actor) /\ CardsLeft

SlipApplyAuctionStarted(animal) ==
  LET bonus == IF animal = Donkey THEN DonkeyBonus(donkeys + 1) ELSE NoMoney
  IN  /\ deck' = [deck EXCEPT ![animal] = @ - 1]
      /\ donkeys' = IF animal = Donkey THEN donkeys + 1 ELSE donkeys
      /\ bank' = Minus(bank, bonus)
      /\ money' = [s \in Seats |-> IF s \in Seated THEN Add(money[s], bonus) ELSE money[s]]
      /\ phase' = "auction"
      /\ auction' = [animal |-> animal, auctioneer |-> turn, highestBid |-> 0,
                     bidder |-> Nil, payment |-> NoMoney]
      /\ UNCHANGED <<room, turn, animals, trade, applyError>>

ApplyAuctionStarted(animal) ==
  LET bonus == IF animal = Donkey THEN DonkeyBonus(donkeys + 1) ELSE NoMoney
      paidOut == Times(NumPlayers, bonus)
  IN  IF ~Contains(bank, paidOut) THEN ApplyFails
      ELSE /\ deck' = [deck EXCEPT ![animal] = @ - 1]
           /\ donkeys' = IF animal = Donkey THEN donkeys + 1 ELSE donkeys
           /\ bank' = Minus(bank, paidOut)
           /\ money' = [s \in Seats |-> IF s \in Seated THEN Add(money[s], bonus) ELSE money[s]]
           /\ phase' = "auction"
           /\ auction' = [animal |-> animal, auctioneer |-> turn, highestBid |-> 0,
                          bidder |-> Nil, payment |-> NoMoney]
           /\ UNCHANGED <<room, turn, animals, trade, applyError>>

BeginAuction(actor) ==
  /\ DecideBeginAuction(actor)
  /\ \E animal \in Animals : deck[animal] > 0 /\ ApplyAuctionStarted(animal)

DecidePlaceBid(actor, amount, payment) ==
  /\ phase = "auction" /\ auction # Nil
  /\ actor # auction.auctioneer
  /\ amount > auction.highestBid
  /\ actor \in Seated
  /\ ValidateAuctionPayment(money[actor], amount, payment)

ApplyBidPlaced(actor, amount, payment) ==
  /\ auction' = [auction EXCEPT !.highestBid = amount, !.bidder = actor, !.payment = payment]
  /\ UNCHANGED <<room, phase, turn, tray, hands, trade, applyError>>

PlaceBid(actor, amount, payment) ==
  DecidePlaceBid(actor, amount, payment) /\ ApplyBidPlaced(actor, amount, payment)

DecideCloseAuction(actor) ==
  phase = "auction" /\ auction # Nil /\ actor = auction.auctioneer

Gain(holdings, seat, animal) == [holdings EXCEPT ![seat][animal] = @ + 1]

ApplyAuctionClosed ==
  IF auction.bidder = Nil
  THEN /\ animals' = Gain(animals, turn, auction.animal)
       /\ AdvanceTurn(animals')
       /\ UNCHANGED <<players, tray, money, applyError>>
  ELSE /\ phase' = "first_refusal"
       /\ UNCHANGED <<room, turn, tray, hands, auction, trade, applyError>>

CloseAuction(actor) == DecideCloseAuction(actor) /\ ApplyAuctionClosed

DecideResolveAuction(actor, buy, payment) ==
  /\ phase = "first_refusal" /\ auction # Nil
  /\ actor = auction.auctioneer
  /\ IF buy THEN ValidateAuctionPayment(money[actor], auction.highestBid, payment)
            ELSE payment = NoMoney

TransferMoney(purses, from, to, payment) ==
  [purses EXCEPT ![from] = Minus(@, payment), ![to] = Add(@, payment)]

ApplyAuctionResolved(buy, payment) ==
  LET buyer  == IF buy THEN auction.auctioneer ELSE auction.bidder
      seller == IF buy THEN auction.bidder ELSE auction.auctioneer
      price  == IF buy THEN payment ELSE auction.payment
  IN  IF ~CanSubtract(money[buyer], price) THEN ApplyFails
      ELSE /\ money' = TransferMoney(money, buyer, seller, price)
           /\ animals' = Gain(animals, buyer, auction.animal)
           /\ AdvanceTurn(animals')
           /\ UNCHANGED <<players, tray, applyError>>

ResolveAuction(actor, buy, payment) ==
  DecideResolveAuction(actor, buy, payment) /\ ApplyAuctionResolved(buy, payment)

-----------------------------------------------------------------------------
(* Trades *)

SlipOfferable(purse, offer) == Valid(offer) /\ CardCount(offer) # 0
Offerable(purse, offer) == Valid(offer) /\ Contains(purse, offer) /\ CardCount(offer) # 0

SlipDecideBeginTrade(actor, target, animal, offer) ==
  /\ RequireTurn(actor)
  /\ target \in Seated \ {actor}
  /\ animals[actor][animal] # 4
  /\ animals[target][animal] # 0
  /\ Offerable(money[actor], offer)

DecideBeginTrade(actor, target, animal, offer) ==
  /\ RequireTurn(actor)
  /\ target \in Seated \ {actor}
  /\ animals[actor][animal] \notin {0, 4}
  /\ animals[target][animal] \notin {0, 4}
  /\ Offerable(money[actor], offer)

SlipApplyTradeStartedAll(actor, target, animal, offer) ==
  /\ trade' = [challenger |-> actor, target |-> target, animal |-> animal,
               count |-> animals[target][animal], offer |-> offer, round |-> 0]
  /\ phase' = "trade_response"
  /\ UNCHANGED <<room, turn, tray, hands, auction, applyError>>

SlipApplyTradeStartedPair(actor, target, animal, offer) ==
  LET anyPair == animals[actor][animal] = 2 \/ animals[target][animal] = 2
  IN  /\ trade' = [challenger |-> actor, target |-> target, animal |-> animal,
                   count |-> IF anyPair THEN 2 ELSE 1, offer |-> offer, round |-> 0]
      /\ phase' = "trade_response"
      /\ UNCHANGED <<room, turn, tray, hands, auction, applyError>>

ApplyTradeStarted(actor, target, animal, offer) ==
  LET bothHavePairs == animals[actor][animal] = 2 /\ animals[target][animal] = 2
  IN  /\ trade' = [challenger |-> actor, target |-> target, animal |-> animal,
                   count |-> IF bothHavePairs THEN 2 ELSE 1, offer |-> offer, round |-> 0]
      /\ phase' = "trade_response"
      /\ UNCHANGED <<room, turn, tray, hands, auction, applyError>>

BeginTrade(actor, target, animal, offer) ==
  /\ DecideBeginTrade(actor, target, animal, offer)
  /\ ApplyTradeStarted(actor, target, animal, offer)

SlipMoveAnimals(from, to) ==
  LET a == trade.animal
  IN  [animals EXCEPT ![from][a] = @ - 1, ![to][a] = @ + trade.count]

\* transferAnimals
MoveAnimals(from, to) ==
  LET a == trade.animal
  IN  [animals EXCEPT ![from][a] = @ - trade.count, ![to][a] = @ + trade.count]

OwnsStake(seat) == trade.count > 0 /\ animals[seat][trade.animal] >= trade.count

DecideAcceptTrade(actor) ==
  phase = "trade_response" /\ trade # Nil /\ actor = trade.target

ApplyTradeAccepted ==
  LET price == WithoutZero(trade.offer)
  IN  IF ~(CanSubtract(money[trade.challenger], price) /\ OwnsStake(trade.target)) THEN ApplyFails
      ELSE /\ money' = TransferMoney(money, trade.challenger, trade.target, price)
           /\ animals' = MoveAnimals(trade.target, trade.challenger)
           /\ AdvanceTurn(animals')
           /\ UNCHANGED <<players, tray, applyError>>

AcceptTrade(actor) == DecideAcceptTrade(actor) /\ ApplyTradeAccepted

DecideCounterTrade(actor, offer) ==
  /\ phase \in {"trade_response", "trade_recounter"} /\ trade # Nil
  /\ actor = trade.target
  /\ Offerable(money[actor], offer)

\* exchangeMoney: the offers change hands whoever wins, without the zeros.
ExchangeMoney(first, firstOffer, second, secondOffer) ==
  [money EXCEPT ![first]  = Add(Minus(@, firstOffer), secondOffer),
                ![second] = Add(Minus(@, secondOffer), firstOffer)]

ApplyTradeCountered(offer) ==
  LET challenger == trade.challenger
      target == trade.target
      own    == WithoutZero(trade.offer)
      theirs == WithoutZero(offer)
      tied   == Total(trade.offer) = Total(offer)
      again  == tied /\ trade.round # 2
      winner == IF Total(offer) > Total(trade.offer) THEN target ELSE challenger
      loser  == IF winner = target THEN challenger ELSE target
  IN  IF ~(/\ CanSubtract(money[challenger], own) /\ CanSubtract(money[target], theirs)
           /\ again \/ OwnsStake(loser))
      THEN ApplyFails
      ELSE /\ money' = ExchangeMoney(challenger, own, target, theirs)
           /\ IF again
              THEN /\ trade' = [trade EXCEPT !.offer = NoMoney, !.round = 2]
                   /\ phase' = "trade_reoffer"
                   /\ UNCHANGED <<status, turn, animals, auction>>
              ELSE /\ animals' = MoveAnimals(loser, winner)
                   /\ AdvanceTurn(animals')
           /\ UNCHANGED <<players, tray, applyError>>

CounterTrade(actor, offer) == DecideCounterTrade(actor, offer) /\ ApplyTradeCountered(offer)

DecideReofferTrade(actor, offer) ==
  /\ phase = "trade_reoffer" /\ trade # Nil
  /\ actor = trade.challenger
  /\ Offerable(money[actor], offer)

ApplyTradeReoffered(offer) ==
  /\ trade' = [trade EXCEPT !.offer = offer]
  /\ phase' = "trade_recounter"
  /\ UNCHANGED <<room, turn, tray, hands, auction, applyError>>

ReofferTrade(actor, offer) == DecideReofferTrade(actor, offer) /\ ApplyTradeReoffered(offer)

-----------------------------------------------------------------------------
Next ==
  \/ \E id \in Identities : CreateRoom(id)
  \/ \E id \in Identities : JoinRoom(id)
  \/ \E actor \in Seats : StartGame(actor)
  \/ \E actor \in Seats : BeginAuction(actor)
  \/ \E actor \in Seats, amount \in Bids, payment \in Offers : PlaceBid(actor, amount, payment)
  \/ \E actor \in Seats : CloseAuction(actor)
  \/ \E actor \in Seats, buy \in BOOLEAN, payment \in Offers \cup {NoMoney} :
        ResolveAuction(actor, buy, payment)
  \/ \E actor, target \in Seats, animal \in Animals, offer \in Offers :
        BeginTrade(actor, target, animal, offer)
  \/ \E actor \in Seats : AcceptTrade(actor)
  \/ \E actor \in Seats, offer \in Offers : CounterTrade(actor, offer)
  \/ \E actor \in Seats, offer \in Offers : ReofferTrade(actor, offer)

Spec == Init /\ [][Next]_vars

-----------------------------------------------------------------------------
(* The view a snapshot gives a player of what he may do next *)

LegalActions(seat) ==
  {action \in {"turn.auction", "turn.trade", "auction.close", "auction.bid", "auction.resolve",
               "trade.accept", "trade.counter", "trade.reoffer"} :
     /\ status = "playing" /\ seat \in Seated
     /\ CASE action = "turn.auction" -> turn = seat /\ phase = "turn" /\ CardsLeft
          [] action = "turn.trade" -> turn = seat /\ phase = "turn" /\ CanTrade(animals, seat)
          [] action = "auction.close" ->
               phase = "auction" /\ auction # Nil /\ auction.auctioneer = seat
          [] action = "auction.bid" ->
               phase = "auction" /\ auction # Nil /\ auction.auctioneer # seat
          [] action = "auction.resolve" ->
               phase = "first_refusal" /\ auction # Nil /\ auction.auctioneer = seat
          [] action = "trade.accept" ->
               phase = "trade_response" /\ trade # Nil /\ trade.target = seat
          [] action = "trade.counter" ->
               phase \in {"trade_response", "trade_recounter"} /\ trade # Nil /\ trade.target = seat
          [] OTHER ->
               phase = "trade_reoffer" /\ trade # Nil /\ trade.challenger = seat}
=============================================================================
