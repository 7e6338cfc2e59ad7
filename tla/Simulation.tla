----------------------------- MODULE Simulation -----------------------------
(***************************************************************************)
(* A game between computer players: Play and runAuction of simulation.go,  *)
(* over the aggregate, with every player a learned policy that observes    *)
(* each view.  All observers see the same views, so one history stands     *)
(* for theirs.                                                             *)
(*                                                                         *)
(* Play is one sequential loop; the only choices left are those of the     *)
(* policies and of the shuffle.  An error of Decide or Apply ends it.      *)
(***************************************************************************)
EXTENDS Policies, LinearHistory

CONSTANTS
  Players,    \* how many policies play
  MaxVersion  \* the loop gives up on a game of more events (10000 in the code)

RoundType == [seat : Seats, passes : Nat]

ASSUME SimulationAssumption ==
  /\ Players \in 3..5 /\ MaxVersion \in Nat /\ Identities = 1..Players
  /\ Nil \notin RoundType /\ Nil \notin SeenType

VARIABLES
  result,    \* "playing", or how Play returned
  version,   \* the events of the game so far
  round,     \* runAuction: the seat to ask next and the passes in a row, or Nil
  history,   \* what the observers infer
  declined,  \* history: who has passed since the highest bid was made
  hidden     \* history: the money of each seat that moved out of the observers' sight

playVars == <<vars, lastTrade, guideTrade, result, version, round, history, declined, hidden>>

PlayInit ==
  /\ Init
  /\ lastTrade = [s \in Seats |-> -1] /\ guideTrade = [s \in Seats |-> -1]
  /\ result = "playing" /\ version = 0 /\ round = Nil
  /\ history = NewHistory
  /\ declined = {} /\ hidden = [s \in Seats |-> 0]

-----------------------------------------------------------------------------
(* Carrying a command out *)

Decided(actor, c) ==
  CASE c.kind = "auction" -> DecideBeginAuction(actor)
    [] c.kind = "bid"     -> DecidePlaceBid(actor, Total(c.offer), c.offer)
    [] c.kind = "close"   -> DecideCloseAuction(actor)
    [] c.kind = "buy"     -> DecideResolveAuction(actor, TRUE, c.offer)
    [] c.kind = "sell"    -> DecideResolveAuction(actor, FALSE, NoMoney)
    [] c.kind = "trade"   -> DecideBeginTrade(actor, c.target, c.animal, c.offer)
    [] c.kind = "accept"  -> DecideAcceptTrade(actor)
    [] c.kind = "counter" -> DecideCounterTrade(actor, c.offer)
    [] c.kind = "reoffer" -> DecideReofferTrade(actor, c.offer)

Applied(actor, c) ==
  \/ c.kind = "auction" /\ BeginAuction(actor)
  \/ c.kind = "bid" /\ PlaceBid(actor, Total(c.offer), c.offer)
  \/ c.kind = "close" /\ CloseAuction(actor)
  \/ c.kind = "buy" /\ ResolveAuction(actor, TRUE, c.offer)
  \/ c.kind = "sell" /\ ResolveAuction(actor, FALSE, NoMoney)
  \/ c.kind = "trade" /\ BeginTrade(actor, c.target, c.animal, c.offer)
  \/ c.kind = "accept" /\ AcceptTrade(actor)
  \/ c.kind = "counter" /\ CounterTrade(actor, c.offer)
  \/ c.kind = "reoffer" /\ ReofferTrade(actor, c.offer)

\* What an onlooker cannot know of a step: a trade's offers, and what an
\* auctioneer pays above the bid for want of smaller notes.
OutOfSight(seat, c) ==
  CASE trade # Nil -> Total(money'[seat]) - Total(money[seat])
    [] c.kind = "buy" ->
         LET excess == Total(c.offer) - auction.highestBid
         IN  IF seat = auction.auctioneer THEN -excess
             ELSE IF seat = auction.bidder THEN excess ELSE 0
    [] OTHER -> 0

\* applyObserved: decide, apply, and let every policy observe the new view.
ApplyObserved(actor, c) ==
  IF ~Decided(actor, c)
  THEN result' = "refused" /\ UNCHANGED <<vars, version, history, hidden>>
  ELSE /\ Applied(actor, c)
       /\ result' = IF applyError' THEN "refused" ELSE result
       /\ version' = version + 1
       /\ history' = Observe(history, auction', animals')
       /\ hidden' = [s \in Seats |-> hidden[s] + OutOfSight(s, c)]

-----------------------------------------------------------------------------
(* The loop of Play *)

Setup ==
  /\ result = "playing" /\ status \in {"none", "lobby"}
  /\ IF status = "none" THEN CreateRoom(1)
     ELSE IF NumPlayers < Players THEN JoinRoom(NumPlayers + 1) ELSE StartGame(0)
  /\ version' = version + 1
  /\ UNCHANGED <<lastTrade, guideTrade, result, round, history, declined, hidden>>

\* The head of the loop: while the game is on and no auction is being run.
Looping == result = "playing" /\ status = "playing" /\ round = Nil
InPhase(p) == Looping /\ version <= MaxVersion /\ phase = p

PlayOver ==
  /\ result = "playing" /\ status = "finished"
  /\ result' = "finished"
  /\ UNCHANGED <<vars, lastTrade, guideTrade, version, round, history, declined, hidden>>

GiveUp ==
  /\ Looping /\ version > MaxVersion
  /\ result' = "too_long"
  /\ UNCHANGED <<vars, lastTrade, guideTrade, version, round, history, declined, hidden>>

\* The guide remembers that it wanted to trade though the policy chose otherwise.
Turn ==
  /\ InPhase("turn")
  /\ \E options \in {PaymentOptions(money[turn])} :
     \E guided \in GuideTurns(turn, options) :
     \E c \in TurnMoves(turn, options, guided) :
       /\ ApplyObserved(turn, c)
       /\ guideTrade' = IF guided.kind = "trade" THEN [guideTrade EXCEPT ![turn] = DeckRemaining]
                        ELSE guideTrade
       /\ lastTrade' = IF c.kind = "trade" THEN [lastTrade EXCEPT ![turn] = DeckRemaining]
                       ELSE lastTrade
  /\ UNCHANGED <<round, declined>>

Decision(actor, moves) ==
  /\ \E c \in moves : ApplyObserved(actor, c)
  /\ UNCHANGED <<lastTrade, guideTrade, round, declined>>

FirstRefusal ==
  /\ InPhase("first_refusal")
  /\ \E options \in {PaymentOptions(money[auction.auctioneer])} :
       Decision(auction.auctioneer, ResolveMoves(auction.auctioneer, options))

RespondTrade ==
  /\ InPhase("trade_response") \/ InPhase("trade_recounter")
  /\ \E options \in {PaymentOptions(money[trade.target])} :
       Decision(trade.target, RespondMoves(trade.target, options))

OfferAgain ==
  /\ InPhase("trade_reoffer")
  /\ \E options \in {PaymentOptions(money[trade.challenger])} :
       Decision(trade.challenger, ReofferMoves(trade.challenger, options))

-----------------------------------------------------------------------------
(* runAuction *)

NextSeat(seat) == (seat + 1) % NumPlayers

RunAuction ==
  /\ InPhase("auction")
  /\ round' = [seat |-> NextSeat(auction.auctioneer), passes |-> 0]
  /\ declined' = {}
  /\ UNCHANGED <<vars, lastTrade, guideTrade, result, version, history, hidden>>

NeededPasses == IF auction.bidder = Nil THEN NumPlayers - 1 ELSE NumPlayers - 2

Asking == result = "playing" /\ round # Nil /\ round.passes < NeededPasses

CloseRound ==
  /\ result = "playing" /\ round # Nil /\ round.passes >= NeededPasses
  /\ ApplyObserved(auction.auctioneer, Move("close"))
  /\ round' = Nil
  /\ UNCHANGED <<lastTrade, guideTrade, declined>>

\* A mistake for the checks to notice: passes on a lower bid keep counting.
SlipPassesAfterBid == round.passes

\* A new bid begins the count anew.
PassesAfterBid == 0

\* A mistake for the checks to notice: the seat that is skipped is asked again.
SlipSkipSeat ==
  /\ Asking /\ round.seat \in {auction.auctioneer, auction.bidder}
  /\ UNCHANGED playVars

SkipSeat ==
  /\ Asking /\ round.seat \in {auction.auctioneer, auction.bidder}
  /\ round' = [round EXCEPT !.seat = NextSeat(@)]
  /\ UNCHANGED <<vars, lastTrade, guideTrade, result, version, history, declined, hidden>>

AskForBid ==
  /\ Asking /\ round.seat \notin {auction.auctioneer, auction.bidder}
  /\ \E options \in {PaymentOptions(money[round.seat])} :
     \E pile \in BidMoves(round.seat, options) :
       IF pile = Nil
       THEN /\ round' = [seat |-> NextSeat(round.seat), passes |-> round.passes + 1]
            /\ declined' = declined \cup {round.seat}
            /\ UNCHANGED <<vars, result, version, history, hidden>>
       ELSE /\ ApplyObserved(round.seat, Offering("bid", pile))
            /\ round' = [seat |-> NextSeat(round.seat), passes |-> PassesAfterBid]
            /\ declined' = {}
  /\ UNCHANGED <<lastTrade, guideTrade>>

-----------------------------------------------------------------------------
Playing ==
  \/ Setup \/ PlayOver \/ GiveUp
  \/ Turn \/ FirstRefusal \/ RespondTrade \/ OfferAgain
  \/ RunAuction \/ CloseRound \/ SkipSeat \/ AskForBid

PlaySpec == PlayInit /\ [][Playing]_playVars /\ WF_playVars(Playing)

-----------------------------------------------------------------------------
(* Properties *)

\* What a policy answers to a snapshot is always a legal command: no game between
\* computer players is aborted by an error of Decide or Apply.
CommandsAreLegal == result # "refused"

\* Whatever a player has come to hold when it is his turn, he is offered the piles worth
\* considering: one for each total his notes can make, of his own notes, and as few as
\* possible.
PaymentsAreBest == phase = "turn" => OptionsAreBest(money[turn])

\* What the observers infer of a player's money is off by what moved out of their
\* sight and by nothing else: every bonus and every bid is attributed rightly.
InferenceIsExplained ==
  Dealt => \A s \in Seated : Total(money[s]) = history.money[s] + hidden[s]

\* An auction is closed when everyone but the auctioneer and the leader has passed on
\* the highest bid itself, and nobody who has is asked about it again.
EveryoneHasPassed ==
  [][phase = "auction" /\ phase' # "auction" =>
       /\ declined = Seated \ {auction.auctioneer, auction.bidder}
       /\ round.passes = NumPlayers - (IF auction.bidder = Nil THEN 1 ELSE 2)]_playVars

\* A game ends, or is given up: no auction goes round for ever, no chain of trades
\* outlasts the limit.
PlayEnds == <>(result # "playing")
=============================================================================
