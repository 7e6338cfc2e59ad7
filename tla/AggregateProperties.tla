------------------------ MODULE AggregateProperties ------------------------
(***************************************************************************)
(* What makes the aggregate correct: no card is made or lost, an accepted  *)
(* command can always be applied, and the game can always go on until only *)
(* complete sets are left.                                                 *)
(***************************************************************************)
EXTENDS Aggregate

Dealt == status \in {"playing", "finished"}

\* The values the variables range over.
TypeOK ==
  /\ status \in {"none", "lobby", "playing", "finished"}
  /\ phase \in {"none", "lobby", "turn", "auction", "first_refusal", "trade_response",
                "trade_reoffer", "trade_recounter", "finished"}
  /\ players \in Seq(Identities) /\ NumPlayers \in 0..5
  /\ turn \in Seats
  /\ deck \in [Animals -> 0..4]
  /\ bank \in Money
  /\ donkeys \in Nat
  /\ money \in [Seats -> Money]
  /\ animals \in [Seats -> [Animals -> Nat]]
  /\ auction \in AuctionType \cup {Nil}
  /\ trade \in TradeType \cup {Nil}
  /\ applyError \in BOOLEAN

-----------------------------------------------------------------------------
(* Nothing accepted is ever refused later *)

\* Every event Decide accepts can be applied, so a stored game can be replayed:
\* the bank never runs short of a bonus, the winning bid, the offers and the
\* cards at stake are still there when the auction or the trade is settled.
ApplyNeverFails == ~applyError

-----------------------------------------------------------------------------
(* Custody of the cards *)

MoneyHeld(d) == money[0][d] + money[1][d] + money[2][d] + money[3][d] + money[4][d]

\* No pile, a player's or the bank's, ever holds a negative number of cards.
PilesValid == Valid(bank) /\ \A s \in Seats : Valid(money[s])

\* Notes only change hands: no pile goes below zero, and bank and players together
\* always hold the 55 printed cards.
MoneyConserved ==
  Dealt => PilesValid /\ \A d \in Denoms : bank[d] + MoneyHeld(d) = InitialBank[d]

UpForAuction(a) == IF auction = Nil \/ auction.animal # a THEN 0 ELSE 1

AnimalsHeld(a) == animals[0][a] + animals[1][a] + animals[2][a] + animals[3][a] + animals[4][a]

\* All four cards of a species are always in the deck, up for auction or with a player.
AnimalsConserved ==
  Dealt => \A a \in Animals : deck[a] + UpForAuction(a) + AnimalsHeld(a) = 4

\* Each player keeps the two zero cards he was dealt: no payment takes a zero and
\* an offer returns them.  Hence everyone can always make some offer.
ZerosKept == Dealt => \A s \in Seated : money[s][0] = 2

-----------------------------------------------------------------------------
(* What is pending stays possible *)

\* Nothing is set aside when a bid or an offer is made, yet when it comes to
\* paying, bidder and challenger still hold it, and both sides their stake.
PendingCovered ==
  /\ auction # Nil /\ auction.bidder # Nil =>
       /\ auction.bidder \in Seated \ {auction.auctioneer}
       /\ ValidateAuctionPayment(money[auction.bidder], auction.highestBid, auction.payment)
  /\ trade # Nil =>
       /\ Contains(money[trade.challenger], trade.offer)
       /\ animals[trade.challenger][trade.animal] >= trade.count
       /\ animals[trade.target][trade.animal] >= trade.count

\* What Decide accepts for a player whose only certain means is a zero card.
ZeroCard == Cash(1, 0, 0, 0, 0, 0)

CanDo(seat, action) ==
  CASE action = "turn.auction"    -> DecideBeginAuction(seat)
    [] action = "turn.trade"      -> \E target \in Seats, animal \in Animals :
                                        DecideBeginTrade(seat, target, animal, ZeroCard)
    [] action = "auction.close"   -> DecideCloseAuction(seat)
    [] action = "auction.resolve" -> DecideResolveAuction(seat, FALSE, NoMoney)
    [] action = "trade.accept"    -> DecideAcceptTrade(seat)
    [] action = "trade.counter"   -> DecideCounterTrade(seat, ZeroCard)
    [] action = "trade.reoffer"   -> DecideReofferTrade(seat, ZeroCard)

\* A snapshot's legalActions and Decide, which decide separately, agree: whatever is
\* listed (a bid apart, which may be too dear) has a command that is accepted, and
\* what is not listed has none.
LegalActionsAreDecidable ==
  \A seat \in Seats :
    \A action \in {"turn.auction", "turn.trade", "auction.close", "auction.resolve",
                   "trade.accept", "trade.counter", "trade.reoffer"} :
      action \in LegalActions(seat) <=> CanDo(seat, action)

\* The game never gets stuck: while it is on, some player has a move other than a bid.
SomeoneCanMove ==
  status = "playing" => \E seat \in Seated : LegalActions(seat) \ {"auction.bid"} # {}

\* A finished game has dealt every card and left every species with one player.
FinishedWithCompleteSets ==
  status = "finished" =>
    /\ ~CardsLeft /\ auction = Nil /\ trade = Nil
    /\ \A s \in Seated, a \in Animals : animals[s][a] \in {0, 4}

-----------------------------------------------------------------------------
(* What a step may never do *)

\* A complete set is never broken up again, however trades and auctions go on.
CompleteSetsArePermanent ==
  [][\A s \in Seats, a \in Animals : animals[s][a] = 4 => animals'[s][a] = 4]_vars
-----------------------------------------------------------------------------
(* The inductive invariant behind the safety properties *)

\* Which transaction is open in which phase, and that it belongs to the turn player.
PhaseInv ==
  /\ status \in {"none", "lobby"} => phase = status
  /\ Dealt => phase \notin {"none", "lobby"}
  /\ status = "finished" <=> phase = "finished"
  /\ status = "none" => players = <<>>
  /\ Dealt => NumPlayers \in 3..5 /\ turn \in Seated
  /\ auction # Nil <=> phase \in {"auction", "first_refusal"}
  /\ trade # Nil <=> phase \in {"trade_response", "trade_reoffer", "trade_recounter"}
  /\ auction # Nil => auction.auctioneer = turn
  /\ phase = "first_refusal" => auction.bidder # Nil
  /\ trade # Nil => /\ trade.challenger = turn /\ trade.target \in Seated \ {turn}
                    /\ Valid(trade.offer)

\* Before the deal there are no cards, and a seat nobody took never holds any.
NothingElsewhere ==
  /\ \A s \in Seats, a \in Animals : ~Dealt \/ s \notin Seated => animals[s][a] = 0
  /\ \A s \in Seats : ~Dealt \/ s \notin Seated => money[s] = NoMoney
  /\ ~Dealt => donkeys = 0

\* The bonuses a player has had after k donkeys, and what that leaves in the bank.
BonusesAfter(k) ==
  LET paid(number) == IF k >= number THEN 1 ELSE 0 IN Cash(0, 0, paid(1), paid(2), paid(3), paid(4))

BankInv ==
  Dealt => /\ bank = Minus(InitialBank, Times(NumPlayers, Add(StartingMoney, BonusesAfter(donkeys))))
           /\ IF Donkey \in Animals THEN donkeys + deck[Donkey] = 4 ELSE donkeys = 0

\* The turn player can auction or trade, which is why the turn was his.
TurnInv == phase = "turn" => CardsLeft \/ CanTrade(animals, turn)

IInv ==
  /\ TypeOK /\ PhaseInv /\ NothingElsewhere /\ BankInv /\ TurnInv
  /\ ApplyNeverFails /\ MoneyConserved /\ AnimalsConserved /\ ZerosKept
  /\ PendingCovered /\ FinishedWithCompleteSets
=============================================================================
