--------------------------- MODULE LinearHistory ---------------------------
(***************************************************************************)
(* What a learned player infers from the public views of a game:           *)
(* linear_history.go.  Money is hidden; the observer starts from the ninety*)
(* everyone is dealt, adds the donkeys' bonuses and, when an auction is    *)
(* over, moves the highest bid between the two whom the change of cards    *)
(* gives away.  The tallies of bids, wins and trades, which only feed the  *)
(* features, are left out, and with them the trades: they move no money    *)
(* here.                                                                   *)
(***************************************************************************)
EXTENDS Aggregate

\* What the observer keeps of the auction he has seen.
SeenType == [animal : Animals, auctioneer : Seats, bidder : Seats \cup {Nil}, amount : Int,
             animals : [Seats -> Nat]]

NewHistory == [money |-> [s \in Seats |-> 90], auction |-> Nil, donkeys |-> 0]

AnimalCounts(holdings, animal) == [s \in Seats |-> holdings[s][animal]]

\* The first player who holds more of the animal than before.
ChangedAnimalOwner(holdings, animal, before) ==
  CHOOSE s \in Seats : /\ holdings[s][animal] > before[s]
                       /\ \A t \in 0..(s - 1) : holdings[t][animal] <= before[t]

Bonus(number) == <<50, 100, 200, 500>>[number]

\* A mistake for the checks to notice: the bidder always pays.
SlipSettleAuction(history, holdings) ==
  LET seen == history.auction
  IN  IF seen.bidder = Nil THEN history.money
      ELSE [history.money EXCEPT ![seen.bidder] = @ - seen.amount, ![seen.auctioneer] = @ + seen.amount]

SettleAuction(history, holdings) ==
  LET seen     == history.auction
      winner   == ChangedAnimalOwner(holdings, seen.animal, seen.animals)
      payer    == IF winner = seen.auctioneer THEN seen.auctioneer ELSE seen.bidder
      receiver == IF winner = seen.auctioneer THEN seen.bidder ELSE seen.auctioneer
  IN  IF seen.bidder = Nil THEN history.money
      ELSE [history.money EXCEPT ![payer] = @ - seen.amount, ![receiver] = @ + seen.amount]

\* A view shows an auction the observer has not seen: a donkey pays everyone.
BeginObserved(history, view, holdings) ==
  LET isDonkey == view.animal = Donkey
      number == history.donkeys + 1
  IN  [donkeys |-> IF isDonkey THEN number ELSE history.donkeys,
       money   |-> [s \in Seats |-> history.money[s] + IF isDonkey THEN Bonus(number) ELSE 0],
       auction |-> [animal |-> view.animal, auctioneer |-> view.auctioneer, bidder |-> Nil,
                    amount |-> 0, animals |-> AnimalCounts(holdings, view.animal)]]

BidObserved(history, view) ==
  IF view.highestBid <= history.auction.amount THEN history
  ELSE [history EXCEPT !.auction.bidder = view.bidder, !.auction.amount = view.highestBid]

\* observe, of a view with the auction `view` (or Nil) and the animals `holdings`.
Observe(history, view, holdings) ==
  CASE view = Nil /\ history.auction = Nil -> history
    [] view = Nil /\ history.auction # Nil ->
         [history EXCEPT !.money = SettleAuction(history, holdings), !.auction = Nil]
    [] view # Nil /\ history.auction = Nil ->
         BidObserved(BeginObserved(history, view, holdings), view)
    [] OTHER -> BidObserved(history, view)
=============================================================================
