------------------------------ MODULE Policies ------------------------------
(***************************************************************************)
(* The moves computer players choose from: the heuristic of policy.go and  *)
(* the learned policy of linear.go and linear_actions.go, which adds its   *)
(* candidates to what its guide, a heuristic, proposes.                    *)
(*                                                                         *)
(* Scores, stakes and random draws are floating-point numbers.  What they  *)
(* decide is left open: a heuristic may be ready to spend any of Caps, and *)
(* the learned policy may choose any of its candidates.  What is modelled  *)
(* exactly is what can be chosen at all, in which phase, and the notes.    *)
(***************************************************************************)
EXTENDS AggregateProperties, Payments

CONSTANTS
  Learned,         \* the seats of learned policies; the others are heuristics
  Caps,            \* what a heuristic may be ready to spend
  BidFractions,    \* the shares of the purse, in percent, the learned policy bids
  OfferFractions,  \* ... and offers
  TradeAt          \* from how many cards left on a heuristic trades at will

LOCAL INSTANCE Functions

ASSUME PoliciesAssumption ==
  /\ Learned \subseteq Seats /\ Caps \subseteq Nat /\ TradeAt \in Nat
  /\ BidFractions \cup OfferFractions \subseteq 1..100

VARIABLES
  lastTrade,  \* lastTradeRemaining of each learned policy
  guideTrade  \* ... and of its guide

DeckRemaining == SumFunction(deck)

Move(kind) == [kind |-> kind]
Offering(kind, offer) == [kind |-> kind, offer |-> offer]
Trading(target, animal, offer) ==
  [kind |-> "trade", target |-> target, animal |-> animal, offer |-> offer]

\* `options` is always PaymentOptions of the purse of the player who decides.

ZeroNote(purse) == IF purse[0] > 0 THEN {NoteOf(0)} ELSE {}

Share(purse, percent) == (Total(purse) * percent) \div 100

-----------------------------------------------------------------------------
(* Trades *)

\* A mistake for the checks to notice: one may trade with oneself.
SlipTrades(seat) ==
  {t \in [target : Seated, animal : Animals] :
     animals[seat][t.animal] \in 1..3 /\ animals[t.target][t.animal] \in 1..3}

\* linearTrades, and the loop of bestTrade
Trades(seat) ==
  {t \in [target : Seated \ {seat}, animal : Animals] :
     animals[seat][t.animal] \in 1..3 /\ animals[t.target][t.animal] \in 1..3}

Own(seat, t) == animals[seat][t.animal]
Other(t) == animals[t.target][t.animal]
Cards(seat, t) == IF Own(seat, t) = 2 /\ Other(t) = 2 THEN 2 ELSE 1
Completes(seat, t) == Own(seat, t) + Cards(seat, t) = 4

TradePriority(seat, t) ==
  CASE Completes(seat, t)             -> 4
    [] Own(seat, t) = Other(t)        -> 3
    [] Other(t) + Cards(seat, t) = 4  -> 2
    [] OTHER                          -> 1

\* Once the deck is used up only trades of the highest priority are considered.
PreferredTrades(seat) ==
  {t \in Trades(seat) : DeckRemaining = 0 =>
     \A other \in Trades(seat) : TradePriority(seat, t) >= TradePriority(seat, other)}

\* tradeOffer and RespondTrade: a bluff, the most that is within the cap, or the least.
HeuristicOffers(purse, options) ==
  (IF phase = "trade_recounter" THEN {} ELSE ZeroNote(purse))
    \cup UNION {IF PaymentAtMost(options, cap) # {} THEN PaymentAtMost(options, cap)
                ELSE {SmallestOffer(purse)} : cap \in Caps}

LinearOffers(purse, options) ==
  ZeroNote(purse) \cup UNION {PaymentAtMost(options, Share(purse, percent)) : percent \in OfferFractions}

HasAction(seat, action) == action \in LegalActions(seat)

\* Turn of the heuristic: the trade with the best stake, if it must or cares to.
GuideTrades(seat) ==
  {t \in PreferredTrades(seat) :
     /\ HasAction(seat, "turn.trade")
     /\ \/ ~HasAction(seat, "turn.auction")
        \/ Completes(seat, t)
        \/ DeckRemaining <= TradeAt /\ DeckRemaining # guideTrade[seat]}

\* linearTurnCandidates: no second trade in a row while a card could be auctioned.
LinearTrades(seat) ==
  IF /\ HasAction(seat, "turn.trade")
     /\ ~(HasAction(seat, "turn.auction") /\ DeckRemaining = lastTrade[seat])
  THEN PreferredTrades(seat) ELSE {}

\* What the guide may propose for a turn: whichever preferred trade has the best
\* stake, or an auction if it would not make that trade.
GuideTurns(seat, options) ==
  {Trading(t.target, t.animal, offer) :
     t \in GuideTrades(seat), offer \in HeuristicOffers(money[seat], options)}
    \cup IF PreferredTrades(seat) # {} /\ PreferredTrades(seat) \subseteq GuideTrades(seat)
         THEN {} ELSE {Move("auction")}

\* What a learned policy has to choose from besides its guide's proposal.
LinearTurns(seat, options) ==
  {Move("auction") : a \in LegalActions(seat) \cap {"turn.auction"}}
    \cup {Trading(t.target, t.animal, offer) :
            t \in LinearTrades(seat), offer \in LinearOffers(money[seat], options)}

IfLearned(seat, moves) == IF seat \in Learned THEN moves ELSE {}

TurnMoves(seat, options, guided) == {guided} \cup IfLearned(seat, LinearTurns(seat, options))

-----------------------------------------------------------------------------
(* The other decisions; a bid is a pile to pay, or Nil *)

MinimumBid == auction.highestBid + 1

HeuristicBids(options) ==
  {option.money : option \in {o \in options : \E cap \in Caps : o.total \in MinimumBid..cap}}

LinearBids(purse, options) ==
  PaymentAtLeast(options, MinimumBid, Total(purse))
    \cup {pile \in UNION {PaymentAtMost(options, Share(purse, percent)) : percent \in BidFractions} :
            Total(pile) >= MinimumBid}

BidMoves(seat, options) ==
  {Nil} \cup HeuristicBids(options) \cup IfLearned(seat, LinearBids(money[seat], options))

\* Whoever buys pays the least total that is enough: more than the bid, if need be.
Buying(options, cap) ==
  {Offering("buy", pile) : pile \in PaymentAtLeast(options, auction.highestBid, cap)}

ResolveMoves(seat, options) ==
  {Move("sell")} \cup (UNION {Buying(options, cap) : cap \in Caps})
    \cup IfLearned(seat, Buying(options, Total(money[seat])))

OfferMoves(kind, seat, options) ==
  {Offering(kind, offer) :
     offer \in HeuristicOffers(money[seat], options)
                \cup IfLearned(seat, LinearOffers(money[seat], options))}

\* A heuristic never accepts: it counters, if with a zero.
RespondMoves(seat, options) ==
  OfferMoves("counter", seat, options)
    \cup IfLearned(seat, {Move("accept") : p \in {phase} \cap {"trade_response"}})

ReofferMoves(seat, options) == OfferMoves("reoffer", seat, options)
=============================================================================
