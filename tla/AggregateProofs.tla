-------------------------- MODULE AggregateProofs --------------------------
(***************************************************************************)
(* The safety properties of the aggregate hold for every number of         *)
(* players, every set of species and every set of bids and offers.         *)
(***************************************************************************)
EXTENDS AggregateProperties, TLAPS

-----------------------------------------------------------------------------
(* Piles *)

\* Arithmetic on piles stays within piles.
LEMMA PileTypes ==
  ASSUME NEW m \in Money, NEW p \in Money
  PROVE  Add(m, p) \in Money /\ Minus(m, p) \in Money /\ WithoutZero(m) \in Money
  BY DEF Money, Add, Minus, WithoutZero, Denoms

\* And so do the piles the code writes out, and as many handouts of one as there are players.
LEMMA FixedPileTypes ==
  /\ NoMoney \in Money /\ InitialBank \in Money /\ StartingMoney \in Money
  /\ \A number \in Int : DonkeyBonus(number) \in Money
  /\ \A k \in Int, m \in Money : Times(k, m) \in Money
  BY DEF Money, Times, NoMoney, DonkeyBonus, InitialBank, StartingMoney, Cash, Denoms

\* An offer a player holds can also be taken from him once its zeros are put back.
LEMMA WithoutZeroEffect ==
  ASSUME NEW m \in Money, NEW p \in Money, Valid(p), Contains(m, p)
  PROVE  /\ WithoutZero(p) \in Money /\ WithoutZero(p)[0] = 0
         /\ CanSubtract(m, WithoutZero(p))
  BY DEF Money, WithoutZero, Valid, Contains, CanSubtract, Denoms

-----------------------------------------------------------------------------
(* Turn order *)

\* The seat an advancing turn tries is a seat of the table.
LEMMA CandidateSeated ==
  ASSUME NumPlayers \in 3..5, turn \in Seats, NEW offset \in Nat
  PROVE  Candidate(offset) \in Seated /\ Candidate(offset) \in Seats
  <1> DEFINE k == turn + 1 + offset
  <1>1. k \in Nat
    BY DEF Seats
  <1>2. CASE NumPlayers = 3
    BY <1>1, <1>2 DEF Candidate, Seated, Seats
  <1>3. CASE NumPlayers = 4
    BY <1>1, <1>3 DEF Candidate, Seated, Seats
  <1>4. CASE NumPlayers = 5
    BY <1>1, <1>4 DEF Candidate, Seated, Seats
  <1> QED BY <1>2, <1>3, <1>4

\* Going round the table from the next seat reaches every seat.
LEMMA CandidatesCoverTheTable ==
  ASSUME NumPlayers \in 3..5, turn \in Seated, NEW seat \in Seated
  PROVE  \E offset \in Seated : Candidate(offset) = seat
  <1> DEFINE offset == IF seat > turn THEN seat - turn - 1 ELSE seat + NumPlayers - turn - 1
  <1>1. offset \in Seated
    BY DEF Seated
  <1>2. Candidate(offset) = seat
    <2>1. CASE NumPlayers = 3
      BY <2>1 DEF Candidate, Seated
    <2>2. CASE NumPlayers = 4
      BY <2>2 DEF Candidate, Seated
    <2>3. CASE NumPlayers = 5
      BY <2>3 DEF Candidate, Seated
    <2> QED BY <2>1, <2>2, <2>3
  <1> QED BY <1>1, <1>2

\* What advanceTurn leaves behind.
LEMMA AdvanceTurnEffect ==
  ASSUME NEW holdings, AdvanceTurn(holdings), NumPlayers \in 3..5, turn \in Seated
  PROVE  /\ auction' = Nil /\ trade' = Nil
         /\ turn' \in Seated
         /\ \/ /\ phase' = "turn" /\ status' = status
               /\ CardsLeft \/ CanTrade(holdings, turn')
            \/ /\ phase' = "finished" /\ status' = "finished"
               /\ ~CardsLeft
               /\ \A seat \in Seated : ~CanTrade(holdings, seat)
  <1>0. turn \in Seats
    BY DEF Seated, Seats
  <1>1. Candidate(0) \in Seated
    BY <1>0, CandidateSeated
  <1>2. \A offset \in Seated : offset \in Nat /\ Candidate(offset) \in Seated
    BY <1>0, CandidateSeated DEF Seated
  <1>3. CASE CardsLeft
    BY <1>1, <1>3 DEF AdvanceTurn
  <1>4. CASE ~CardsLeft /\ \A offset \in Seated : ~CanTrade(holdings, Candidate(offset))
    <2>1. \A seat \in Seated : ~CanTrade(holdings, seat)
      BY <1>4, CandidatesCoverTheTable
    <2> QED BY <1>4, <2>1 DEF AdvanceTurn
  <1>5. CASE ~CardsLeft /\ ~(\A offset \in Seated : ~CanTrade(holdings, Candidate(offset)))
    BY <1>2, <1>5 DEF AdvanceTurn
  <1> QED BY <1>3, <1>4, <1>5

-----------------------------------------------------------------------------
(* Cards that change hands *)

\* Moving x from one of five purses to another leaves their sum.
LEMMA TransferKeepsSum ==
  ASSUME NEW f \in [Seats -> Int], NEW g \in [Seats -> Int], NEW x \in Int,
         NEW i \in Seats, NEW j \in Seats \ {i},
         g[i] = f[i] - x, g[j] = f[j] + x, \A s \in Seats \ {i, j} : g[s] = f[s]
  PROVE  g[0] + g[1] + g[2] + g[3] + g[4] = f[0] + f[1] + f[2] + f[3] + f[4]
  BY DEF Seats

\* Two seated players who hand each other piles they hold, free of zeros, make no
\* pile negative, create no note and keep their zeros; nobody else is affected.
LEMMA HandOverEffect ==
  ASSUME TypeOK, NothingElsewhere, PilesValid, NumPlayers \in 3..5,
         NEW i \in Seated, NEW j \in Seated \ {i}, NEW p \in Money, NEW q \in Money,
         CanSubtract(money[i], p), CanSubtract(money[j], q), p[0] = 0, q[0] = 0,
         NEW after \in [Seats -> Money], money' = after,
         \A d \in Denoms : /\ after[i][d] = money[i][d] - p[d] + q[d]
                           /\ after[j][d] = money[j][d] - q[d] + p[d],
         \A s \in Seats \ {i, j} : after[s] = money[s]
  PROVE  /\ \A s \in Seats : Valid(money'[s])
         /\ \A d \in Denoms : MoneyHeld(d)' = MoneyHeld(d)
         /\ \A s \in Seats : money'[s][0] = money[s][0]
         /\ \A s \in Seats \ Seated : money'[s] = money[s]
  <1>0. i \in Seats /\ j \in Seats /\ i # j
    BY DEF Seated, Seats
  <1>1. money \in [Seats -> Money]
    BY DEF TypeOK
  <1>2. \A s \in Seats, d \in Denoms : money[s][d] \in Int /\ money'[s][d] \in Int
    BY <1>1 DEF Money
  <1>3. \A d \in Denoms : p[d] \in Int /\ q[d] \in Int
    BY DEF Money
  <1>4. \A s \in Seats : Valid(money'[s])
    BY <1>0, <1>2, <1>3 DEF Valid, PilesValid, CanSubtract, Contains
  <1>5. ASSUME NEW d \in Denoms
        PROVE  MoneyHeld(d)' = MoneyHeld(d)
    <2> DEFINE f == [s \in Seats |-> money[s][d]]
    <2> DEFINE g == [s \in Seats |-> money'[s][d]]
    <2> DEFINE x == p[d] - q[d]
    <2>1. f \in [Seats -> Int] /\ g \in [Seats -> Int] /\ x \in Int
      BY <1>2, <1>3
    <2>2. g[i] = f[i] - x /\ g[j] = f[j] + x
      BY <1>0, <1>2, <1>3
    <2>3. \A s \in Seats \ {i, j} : g[s] = f[s]
      OBVIOUS
    <2>4. g[0] + g[1] + g[2] + g[3] + g[4] = f[0] + f[1] + f[2] + f[3] + f[4]
      <3> HIDE DEF f, g, x
      <3> QED BY <1>0, <2>1, <2>2, <2>3, TransferKeepsSum
    <2> QED BY <2>4 DEF MoneyHeld, Seats
  <1>6. \A s \in Seats : money'[s][0] = money[s][0]
    BY <1>0, <1>2, <1>3 DEF Denoms
  <1>7. \A s \in Seats \ Seated : money'[s] = money[s]
    BY <1>0
  <1> QED BY <1>4, <1>5, <1>6, <1>7

\* The same for the cards at stake in a trade.
LEMMA MoveAnimalsEffect ==
  ASSUME TypeOK, trade # Nil, NEW from \in Seats, NEW to \in Seats \ {from},
         OwnsStake(from), animals' = MoveAnimals(from, to)
  PROVE  /\ animals' \in [Seats -> [Animals -> Nat]]
         /\ \A a \in Animals : AnimalsHeld(a)' = AnimalsHeld(a)
         /\ \A s \in Seats \ {from, to} : animals'[s] = animals[s]
  <1> DEFINE b == trade.animal
  <1> DEFINE n == trade.count
  <1>1. b \in Animals /\ n \in 1..2
    BY DEF TypeOK, TradeType
  <1>2. animals \in [Seats -> [Animals -> Nat]]
    BY DEF TypeOK
  <1>3. \A s \in Seats, a \in Animals : animals[s][a] \in Nat
    BY <1>2
  <1>4. animals[from][b] >= n
    BY DEF OwnsStake
  <1>5. animals' = [animals EXCEPT ![from][b] = @ - n, ![to][b] = @ + n]
    BY DEF MoveAnimals
  <1> HIDE DEF b, n
  <1>6. /\ animals' \in [Seats -> [Animals -> Nat]]
        /\ animals'[from][b] = animals[from][b] - n
        /\ animals'[to][b] = animals[to][b] + n
        /\ \A s \in Seats, a \in Animals : a # b \/ s \notin {from, to} =>
              animals'[s][a] = animals[s][a]
        /\ \A s \in Seats \ {from, to} : animals'[s] = animals[s]
    <2>1. animals[from][b] - n \in Nat /\ animals[to][b] + n \in Nat
      BY <1>1, <1>3, <1>4
    <2> DEFINE mid == [animals EXCEPT ![from][b] = animals[from][b] - n]
    <2>2. /\ mid \in [Seats -> [Animals -> Nat]]
          /\ mid[from][b] = animals[from][b] - n
          /\ \A a \in Animals \ {b} : mid[from][a] = animals[from][a]
          /\ \A s \in Seats \ {from} : mid[s] = animals[s]
      BY <1>1, <1>2, <2>1
    <2>3. animals' = [mid EXCEPT ![to][b] = mid[to][b] + n]
      BY <1>5
    <2> HIDE DEF mid
    <2>4. mid[to] = animals[to]
      BY <2>2
    <2>5. /\ animals' \in [Seats -> [Animals -> Nat]]
          /\ animals'[to][b] = mid[to][b] + n
          /\ \A a \in Animals \ {b} : animals'[to][a] = mid[to][a]
          /\ \A s \in Seats \ {to} : animals'[s] = mid[s]
      BY <1>1, <2>1, <2>2, <2>3, <2>4
    <2>6. \A s \in Seats, a \in Animals : a # b \/ s \notin {from, to} => animals'[s][a] = animals[s][a]
      BY <2>2, <2>4, <2>5
    <2> QED BY <2>2, <2>4, <2>5, <2>6
  <1>7. ASSUME NEW a \in Animals
        PROVE  AnimalsHeld(a)' = AnimalsHeld(a)
    <2> DEFINE f == [s \in Seats |-> animals[s][a]]
    <2> DEFINE g == [s \in Seats |-> animals'[s][a]]
    <2> DEFINE x == IF a = b THEN n ELSE 0
    <2>1. f \in [Seats -> Int] /\ g \in [Seats -> Int] /\ x \in Int
      BY <1>1, <1>2, <1>6
    <2>2. g[from] = f[from] - x /\ g[to] = f[to] + x
      BY <1>1, <1>3, <1>6
    <2>3. \A s \in Seats \ {from, to} : g[s] = f[s]
      BY <1>6
    <2>4. g[0] + g[1] + g[2] + g[3] + g[4] = f[0] + f[1] + f[2] + f[3] + f[4]
      <3> HIDE DEF f, g, x
      <3> QED BY <2>1, <2>2, <2>3, TransferKeepsSum
    <2> QED BY <2>4 DEF AnimalsHeld, Seats
  <1> QED BY <1>6, <1>7

\* The animal up for auction becomes one player's.
LEMMA GainEffect ==
  ASSUME TypeOK, NEW seat \in Seats, NEW b \in Animals, animals' = Gain(animals, seat, b)
  PROVE  /\ animals' \in [Seats -> [Animals -> Nat]]
         /\ \A a \in Animals : AnimalsHeld(a)' = AnimalsHeld(a) + (IF a = b THEN 1 ELSE 0)
         /\ \A s \in Seats \ {seat} : animals'[s] = animals[s]
  <1>1. animals \in [Seats -> [Animals -> Nat]]
    BY DEF TypeOK
  <1>2. \A s \in Seats, a \in Animals : animals[s][a] \in Nat
    BY <1>1
  <1>3. /\ animals' \in [Seats -> [Animals -> Nat]]
        /\ animals'[seat][b] = animals[seat][b] + 1
        /\ \A s \in Seats, a \in Animals : a # b \/ s # seat => animals'[s][a] = animals[s][a]
        /\ \A s \in Seats \ {seat} : animals'[s] = animals[s]
    BY <1>1, <1>2 DEF Gain
  <1>4. \A a \in Animals : AnimalsHeld(a)' = AnimalsHeld(a) + (IF a = b THEN 1 ELSE 0)
    BY <1>2, <1>3 DEF AnimalsHeld, Seats
  <1> QED BY <1>3, <1>4

-----------------------------------------------------------------------------
(* Settling an auction or a trade *)

\* If four cards lie in five hands and all hands but one are empty, that one holds all four.
LEMMA OneHolder ==
  ASSUME NEW held \in [0..4 -> Nat], NEW s \in 0..4,
         held[0] + held[1] + held[2] + held[3] + held[4] = 4,
         \A other \in 0..4 : other # s => held[other] = 0
  PROVE  held[s] = 4
  <1>1. CASE s = 0
    BY <1>1
  <1>2. CASE s = 1
    BY <1>2
  <1>3. CASE s = 2
    BY <1>3
  <1>4. CASE s = 3
    BY <1>4
  <1>5. CASE s = 4
    BY <1>5
  <1> QED BY <1>1, <1>2, <1>3, <1>4, <1>5

\* Whatever ends a transaction keeps the invariant, as long as the notes and the
\* animals it moves are all still there: this is advanceTurn's contract.
LEMMA SettlementKeepsIInv ==
  ASSUME IInv, status = "playing", NEW after \in [Seats -> [Animals -> Nat]], animals' = after,
         AdvanceTurn(after), UNCHANGED <<players, tray, applyError>>,
         money' \in [Seats -> Money],
         \A s \in Seats : Valid(money'[s]),
         \A d \in Denoms : MoneyHeld(d)' = MoneyHeld(d),
         \A s \in Seats : money'[s][0] = money[s][0],
         \A s \in Seats \ Seated : money'[s] = money[s],
         \A a \in Animals : deck[a] + AnimalsHeld(a)' = 4,
         \A s \in Seats \ Seated : after[s] = animals[s]
  PROVE  IInv'
  <1>1. TypeOK /\ Dealt /\ NumPlayers \in 3..5 /\ turn \in Seated
    BY DEF IInv, PhaseInv, Dealt
  <1>2. /\ players' = players /\ deck' = deck /\ bank' = bank /\ donkeys' = donkeys
        /\ applyError' = applyError /\ NumPlayers' = NumPlayers /\ Seated' = Seated
    BY DEF tray, NumPlayers, Seated
  <1>3. /\ auction' = Nil /\ trade' = Nil /\ turn' \in Seated
        /\ \/ /\ phase' = "turn" /\ status' = "playing"
              /\ CardsLeft \/ CanTrade(after, turn')
           \/ /\ phase' = "finished" /\ status' = "finished" /\ ~CardsLeft
              /\ \A seat \in Seated : ~CanTrade(after, seat)
    BY <1>1, AdvanceTurnEffect
  <1>4. TypeOK'
    BY <1>1, <1>2, <1>3 DEF TypeOK, Seated, Seats
  <1>5. PhaseInv'
    BY <1>1, <1>2, <1>3 DEF PhaseInv, Dealt
  <1>6. NothingElsewhere'
    BY <1>1, <1>2, <1>3 DEF NothingElsewhere, IInv, Dealt
  <1>7. BankInv'
    BY <1>1, <1>2, <1>3 DEF BankInv, IInv, Dealt
  <1>8. TurnInv'
    BY <1>2, <1>3 DEF TurnInv, CardsLeft, CanTrade
  <1>9. ApplyNeverFails' /\ PendingCovered'
    BY <1>2, <1>3 DEF ApplyNeverFails, PendingCovered, IInv
  <1>10. MoneyConserved'
    BY <1>1, <1>2, <1>3 DEF MoneyConserved, PilesValid, IInv
  <1>11. AnimalsConserved'
    <2>1. \A a \in Animals : deck[a] \in Int /\ AnimalsHeld(a)' \in Int
      <3>1. \A a \in Animals : deck[a] \in 0..4
        BY <1>1 DEF TypeOK
      <3> QED BY <3>1 DEF AnimalsHeld, Seats
    <2>2. \A a \in Animals : UpForAuction(a)' = 0
      BY <1>3 DEF UpForAuction
    <2> QED BY <1>2, <2>1, <2>2 DEF AnimalsConserved
  <1>12. ZerosKept'
    <2>1. \A s \in Seated : s \in Seats
      BY <1>1 DEF Seated, Seats
    <2>2. \A s \in Seated : money[s][0] = 2
      BY <1>1 DEF ZerosKept, IInv
    <2> QED BY <1>2, <2>1, <2>2 DEF ZerosKept
  <1>13. FinishedWithCompleteSets'
    <2> SUFFICES ASSUME status' = "finished", NEW s \in Seated, NEW a \in Animals,
                        after[s][a] \notin {0, 4}
                 PROVE  FALSE
      BY <1>2, <1>3 DEF FinishedWithCompleteSets, CardsLeft
    <2>0. ~CardsLeft /\ ~CanTrade(after, s)
      BY <1>3
    <2>1. deck[a] = 0
      <3>1. deck[a] \in 0..4
        BY <1>1 DEF TypeOK
      <3> QED BY <2>0, <3>1 DEF CardsLeft
    <2>2. \A other \in Seats \ {s} : after[other][a] = 0
      <3>1. \A other \in Seated \ {s} : ~(after[other][a] > 0)
        BY <2>0 DEF CanTrade
      <3>2. \A other \in Seats \ Seated : after[other][a] = 0
        BY <1>1 DEF IInv, NothingElsewhere
      <3>3. \A other \in Seats : after[other][a] \in Nat
        OBVIOUS
      <3> QED BY <3>1, <3>2, <3>3
    <2>3. AnimalsHeld(a)' = 4 /\ s \in Seats
      <3>1. AnimalsHeld(a)' \in Int
        BY DEF AnimalsHeld, Seats
      <3>2. deck[a] + AnimalsHeld(a)' = 4
        OBVIOUS
      <3>3. AnimalsHeld(a)' = 4
        BY <2>1, <3>1, <3>2
      <3>4. s \in Seats
        BY <1>1 DEF Seated, Seats, IInv, TypeOK
      <3> QED BY <3>3, <3>4
    <2>4. \A seat \in 0..4 : after[seat][a] \in Nat
      BY DEF Seats
    <2>5. \A other \in 0..4 : other # s => after[other][a] = 0
      BY <2>2 DEF Seats
    <2>6. after[0][a] + after[1][a] + after[2][a] + after[3][a] + after[4][a] = 4
      BY <2>3 DEF AnimalsHeld
    <2>7. s \in 0..4
      BY <2>3 DEF Seats
    <2>8. after[s][a] = 4
      <3> DEFINE held == [seat \in 0..4 |-> after[seat][a]]
      <3>1. held \in [0..4 -> Nat]
        BY <2>4
      <3>2. held[0] + held[1] + held[2] + held[3] + held[4] = 4
        BY <2>6
      <3>3. \A other \in 0..4 : other # s => held[other] = 0
        BY <2>5
      <3>4. held[s] = after[s][a]
        BY <2>7
      <3> HIDE DEF held
      <3> QED BY <2>7, <3>1, <3>2, <3>3, <3>4, OneHolder
    <2> QED BY <2>8
  <1> QED BY <1>4, <1>5, <1>6, <1>7, <1>8, <1>9, <1>10, <1>11, <1>12, <1>13 DEF IInv

\* What the invariant says while an auction is on.
LEMMA AuctionFacts ==
  ASSUME IInv, auction # Nil
  PROVE  /\ status = "playing" /\ Dealt /\ NumPlayers \in 3..5 /\ turn \in Seated
         /\ auction.auctioneer = turn
         /\ auction \in AuctionType /\ auction.animal \in Animals /\ auction.payment \in Money
         /\ auction.highestBid \in Int /\ auction.bidder \in Seats \cup {Nil}
         /\ auction.bidder # Nil =>
              /\ auction.bidder \in Seated \ {turn}
              /\ ValidateAuctionPayment(money[auction.bidder], auction.highestBid, auction.payment)
  <1>1. auction \in AuctionType
    BY DEF IInv, TypeOK
  <1>2. status = "playing" /\ Dealt /\ NumPlayers \in 3..5 /\ turn \in Seated /\ auction.auctioneer = turn
    BY DEF IInv, TypeOK, PhaseInv, Dealt
  <1>3. auction.bidder # Nil =>
          /\ auction.bidder \in Seated \ {turn}
          /\ ValidateAuctionPayment(money[auction.bidder], auction.highestBid, auction.payment)
    BY <1>2 DEF IInv, PendingCovered
  <1> QED BY <1>1, <1>2, <1>3 DEF AuctionType

\* And while a trade is.
LEMMA TradeFacts ==
  ASSUME IInv, trade # Nil
  PROVE  /\ status = "playing" /\ Dealt /\ NumPlayers \in 3..5 /\ turn \in Seated
         /\ trade \in TradeType /\ trade.challenger = turn /\ trade.target \in Seated \ {turn}
         /\ trade.animal \in Animals /\ trade.count \in 1..2 /\ trade.offer \in Money
         /\ Valid(trade.offer) /\ Contains(money[turn], trade.offer)
         /\ OwnsStake(turn) /\ OwnsStake(trade.target)
         /\ auction = Nil
  <1>1. trade \in TradeType
    BY DEF IInv, TypeOK
  <1>2. /\ status = "playing" /\ Dealt /\ NumPlayers \in 3..5 /\ turn \in Seated /\ auction = Nil
        /\ trade.challenger = turn /\ trade.target \in Seated \ {turn} /\ Valid(trade.offer)
    BY DEF IInv, TypeOK, PhaseInv, Dealt
  <1>3. /\ Contains(money[turn], trade.offer)
        /\ animals[turn][trade.animal] >= trade.count
        /\ animals[trade.target][trade.animal] >= trade.count
    BY <1>2 DEF IInv, PendingCovered
  <1>4. trade.animal \in Animals /\ trade.count \in 1..2 /\ trade.offer \in Money
    BY <1>1 DEF TradeType
  <1> QED BY <1>1, <1>2, <1>3, <1>4 DEF OwnsStake

\* What it says of the cards in a game that has been dealt.
LEMMA CardFacts ==
  ASSUME IInv, Dealt
  PROVE  /\ PilesValid /\ \A s \in Seats : Valid(money[s])
         /\ money \in [Seats -> Money] /\ animals \in [Seats -> [Animals -> Nat]]
         /\ \A a \in Animals : /\ deck[a] + UpForAuction(a) + AnimalsHeld(a) = 4
                              /\ deck[a] \in 0..4 /\ AnimalsHeld(a) \in Nat
         /\ \A s \in Seated : s \in Seats
  <1>1. TypeOK /\ NothingElsewhere /\ MoneyConserved /\ AnimalsConserved
    BY DEF IInv
  <1>2. NumPlayers \in 3..5
    BY DEF IInv, PhaseInv
  <1>3. money \in [Seats -> Money] /\ animals \in [Seats -> [Animals -> Nat]] /\ deck \in [Animals -> 0..4]
    BY <1>1 DEF TypeOK
  <1>4. \A a \in Animals : AnimalsHeld(a) \in Nat
    BY <1>3 DEF AnimalsHeld, Seats
  <1>5. \A s \in Seated : s \in Seats
    BY <1>2 DEF Seated, Seats
  <1> QED BY <1>1, <1>3, <1>4, <1>5 DEF MoneyConserved, PilesValid, AnimalsConserved

\* A step inside a transaction moves no animal: what is left to show of it is
\* what it makes of the phase and of what is pending.
LEMMA StepWithinKeepsIInv ==
  ASSUME IInv, status = "playing", UNCHANGED <<room, turn, tray, animals, applyError>>,
         money' \in [Seats -> Money],
         \A s \in Seats : Valid(money'[s]),
         \A d \in Denoms : MoneyHeld(d)' = MoneyHeld(d),
         \A s \in Seats : money'[s][0] = money[s][0],
         \A s \in Seats \ Seated : money'[s] = money[s],
         \A a \in Animals : UpForAuction(a)' = UpForAuction(a),
         phase' \in {"auction", "first_refusal", "trade_response", "trade_reoffer", "trade_recounter"},
         auction' \in AuctionType \cup {Nil}, trade' \in TradeType \cup {Nil},
         PhaseInv', PendingCovered'
  PROVE  IInv'
  <1>1. TypeOK /\ Dealt /\ NumPlayers \in 3..5
    BY DEF IInv, PhaseInv, Dealt
  <1>2. /\ players' = players /\ deck' = deck /\ bank' = bank /\ donkeys' = donkeys
        /\ applyError' = applyError /\ NumPlayers' = NumPlayers /\ Seated' = Seated
        /\ status' = status /\ turn' = turn /\ animals' = animals /\ Dealt'
    BY <1>1 DEF tray, room, NumPlayers, Seated, Dealt
  <1>3. TypeOK'
    BY <1>1, <1>2 DEF TypeOK
  <1>4. NothingElsewhere'
    BY <1>1, <1>2 DEF NothingElsewhere, IInv
  <1>5. BankInv'
    BY <1>1, <1>2 DEF BankInv, IInv
  <1>6. TurnInv' /\ ApplyNeverFails' /\ FinishedWithCompleteSets'
    BY <1>2 DEF TurnInv, ApplyNeverFails, FinishedWithCompleteSets, IInv
  <1>7. MoneyConserved'
    BY <1>1, <1>2 DEF MoneyConserved, PilesValid, IInv
  <1>8. AnimalsConserved'
    <2>1. \A a \in Animals : AnimalsHeld(a)' = AnimalsHeld(a)
      BY <1>2 DEF AnimalsHeld
    <2> QED BY <1>1, <1>2, <2>1, CardFacts DEF AnimalsConserved
  <1>9. ZerosKept'
    <2>1. \A s \in Seated : s \in Seats /\ money[s][0] = 2
      BY <1>1, CardFacts DEF ZerosKept, IInv
    <2> QED BY <1>2, <2>1 DEF ZerosKept
  <1> QED BY <1>3, <1>4, <1>5, <1>6, <1>7, <1>8, <1>9 DEF IInv

\* In particular when the step moves no note either.
LEMMA StillStepKeepsIInv ==
  ASSUME IInv, status = "playing", UNCHANGED <<room, turn, tray, hands, applyError>>,
         \A a \in Animals : UpForAuction(a)' = UpForAuction(a),
         phase' \in {"auction", "first_refusal", "trade_response", "trade_reoffer", "trade_recounter"},
         auction' \in AuctionType \cup {Nil}, trade' \in TradeType \cup {Nil},
         PhaseInv', PendingCovered'
  PROVE  IInv'
  <1>1. money' = money /\ UNCHANGED <<room, turn, tray, animals, applyError>>
    BY DEF hands
  <1>2. \A d \in Denoms : MoneyHeld(d)' = MoneyHeld(d)
    BY <1>1 DEF MoneyHeld
  <1>3. money \in [Seats -> Money] /\ \A s \in Seats : Valid(money[s])
    BY CardFacts DEF Dealt
  <1> QED BY <1>1, <1>2, <1>3, StepWithinKeepsIInv

-----------------------------------------------------------------------------
(* Every action keeps the invariant *)

\* Closing keeps it: the card goes to the auctioneer, or the auction to first refusal.
LEMMA CloseAuctionKeepsIInv ==
  ASSUME IInv, NEW actor \in Seats, CloseAuction(actor)
  PROVE  IInv'
  <1>1. phase = "auction" /\ auction # Nil /\ ApplyAuctionClosed
    BY DEF CloseAuction, DecideCloseAuction
  <1>2. CASE auction.bidder = Nil
    <2> DEFINE after == Gain(animals, turn, auction.animal)
    <2>1. animals' = after /\ AdvanceTurn(after) /\ UNCHANGED <<players, tray, money, applyError>>
      BY <1>1, <1>2 DEF ApplyAuctionClosed
    <2>2. TypeOK /\ turn \in Seats /\ auction.animal \in Animals /\ status = "playing" /\ turn \in Seated
      BY <1>1, AuctionFacts, CardFacts DEF IInv
    <2>3. /\ animals' \in [Seats -> [Animals -> Nat]]
          /\ \A a \in Animals : AnimalsHeld(a)' = AnimalsHeld(a) + (IF a = auction.animal THEN 1 ELSE 0)
          /\ \A s \in Seats \ {turn} : animals'[s] = animals[s]
      BY <2>1, <2>2, GainEffect
    <2> HIDE DEF after
    <2>4. \A a \in Animals : deck[a] + AnimalsHeld(a)' = 4
      BY <1>1, <2>3, AuctionFacts, CardFacts DEF UpForAuction
    <2>5. /\ money' = money
          /\ \A d \in Denoms : MoneyHeld(d)' = MoneyHeld(d)
      BY <2>1 DEF MoneyHeld
    <2>6. UNCHANGED <<players, tray, applyError>>
      BY <2>1
    <2> QED BY <1>1, <2>1, <2>2, <2>3, <2>4, <2>5, <2>6, AuctionFacts, CardFacts, SettlementKeepsIInv
  <1>3. CASE auction.bidder # Nil
    <2>1. /\ phase' = "first_refusal"
          /\ UNCHANGED <<room, turn, tray, hands, auction, trade, applyError>>
      BY <1>1, <1>3 DEF ApplyAuctionClosed
    <2>2. status = "playing" /\ trade = Nil /\ auction \in AuctionType
      BY <1>1, AuctionFacts DEF IInv, PhaseInv, TypeOK
    <2>3. status' = status /\ players' = players /\ Seated' = Seated /\ money' = money
      BY <2>1 DEF room, hands, Seated, NumPlayers
    <2>4. PhaseInv'
      BY <1>1, <1>3, <2>1, <2>2, <2>3 DEF IInv, PhaseInv, Dealt, NumPlayers
    <2>5. PendingCovered'
      BY <2>1, <2>2, <2>3 DEF IInv, PendingCovered
    <2>6. \A a \in Animals : UpForAuction(a)' = UpForAuction(a)
      BY <2>1 DEF UpForAuction
    <2> QED BY <2>1, <2>2, <2>4, <2>5, <2>6, StillStepKeepsIInv
  <1> QED BY <1>2, <1>3

\* A bid keeps it: what is offered is there, and nothing is moved.
LEMMA PlaceBidKeepsIInv ==
  ASSUME ConstantsAssumption, IInv, NEW actor \in Seats, NEW amount \in Int, NEW payment \in Money,
         PlaceBid(actor, amount, payment)
  PROVE  IInv'
  <1>1. /\ phase = "auction" /\ auction # Nil /\ actor # auction.auctioneer /\ actor \in Seated
        /\ ValidateAuctionPayment(money[actor], amount, payment)
    BY DEF PlaceBid, DecidePlaceBid
  <1>2. /\ auction' = [auction EXCEPT !.highestBid = amount, !.bidder = actor, !.payment = payment]
        /\ UNCHANGED <<room, phase, turn, tray, hands, trade, applyError>>
    BY DEF PlaceBid, ApplyBidPlaced
  <1>3. /\ status = "playing" /\ auction \in AuctionType /\ auction.auctioneer = turn
        /\ trade = Nil /\ NumPlayers \in 3..5
    BY <1>1, AuctionFacts DEF IInv, PhaseInv, TypeOK
  <1>4. amount \in Int /\ payment \in Money
    OBVIOUS
  <1>5. /\ auction' \in AuctionType /\ auction' # Nil
        /\ auction'.animal = auction.animal /\ auction'.auctioneer = turn
        /\ auction'.highestBid = amount /\ auction'.bidder = actor /\ auction'.payment = payment
    BY <1>2, <1>3, <1>4 DEF AuctionType, ConstantsAssumption
  <1>6. status' = status /\ players' = players /\ Seated' = Seated /\ money' = money /\ NumPlayers' = NumPlayers
    BY <1>2 DEF room, hands, Seated, NumPlayers
  <1>7. PhaseInv'
    BY <1>1, <1>2, <1>3, <1>5, <1>6 DEF IInv, PhaseInv, Dealt
  <1>8. PendingCovered'
    BY <1>1, <1>2, <1>3, <1>5, <1>6 DEF IInv, PendingCovered
  <1>9. \A a \in Animals : UpForAuction(a)' = UpForAuction(a)
    BY <1>1, <1>5 DEF UpForAuction
  <1> QED BY <1>1, <1>2, <1>3, <1>5, <1>7, <1>8, <1>9, StillStepKeepsIInv

\* First refusal keeps it: the loser of it still holds what he pays.
LEMMA ResolveAuctionKeepsIInv ==
  ASSUME IInv, NEW actor \in Seats, NEW buy \in BOOLEAN, NEW payment \in Money,
         ResolveAuction(actor, buy, payment)
  PROVE  IInv'
  <1> DEFINE buyer  == IF buy THEN auction.auctioneer ELSE auction.bidder
  <1> DEFINE seller == IF buy THEN auction.bidder ELSE auction.auctioneer
  <1> DEFINE price  == IF buy THEN payment ELSE auction.payment
  <1> DEFINE after  == Gain(animals, buyer, auction.animal)
  <1>1. /\ phase = "first_refusal" /\ auction # Nil /\ actor = auction.auctioneer
        /\ buy => ValidateAuctionPayment(money[actor], auction.highestBid, payment)
    BY DEF ResolveAuction, DecideResolveAuction
  <1>2. /\ TypeOK /\ auction.bidder \in Seated \ {turn} /\ auction.auctioneer = turn
        /\ turn \in Seated /\ NumPlayers \in 3..5 /\ status = "playing" /\ Dealt
        /\ auction.payment \in Money /\ auction.animal \in Animals
        /\ ValidateAuctionPayment(money[auction.bidder], auction.highestBid, auction.payment)
    BY <1>1, AuctionFacts DEF IInv, PhaseInv
  <1>3. price \in Money /\ CanSubtract(money[buyer], price) /\ price[0] = 0
    BY <1>1, <1>2 DEF ValidateAuctionPayment, CanSubtract
  <1>4. buyer \in Seated /\ seller \in Seated \ {buyer}
    BY <1>1, <1>2
  <1>5. /\ money' = TransferMoney(money, buyer, seller, price)
        /\ animals' = after /\ AdvanceTurn(after) /\ UNCHANGED <<players, tray, applyError>>
    BY <1>3 DEF ResolveAuction, ApplyAuctionResolved
  <1> HIDE DEF buyer, seller, price
  <1>6. /\ buyer \in Seats /\ seller \in Seats /\ PilesValid
        /\ money \in [Seats -> Money] /\ \A s \in Seats : Valid(money[s])
    BY <1>2, <1>4, CardFacts
  <1>7. /\ money' \in [Seats -> Money]
        /\ \A s \in Seats \ {buyer, seller} : money'[s] = money[s]
        /\ \A d \in Denoms : /\ money'[buyer][d] = money[buyer][d] - price[d]
                            /\ money'[seller][d] = money[seller][d] + price[d]
    <2>1. Minus(money[buyer], price) \in Money /\ Add(money[seller], price) \in Money
      BY <1>3, <1>6, PileTypes
    <2>2. /\ money' \in [Seats -> Money]
          /\ \A s \in Seats \ {buyer, seller} : money'[s] = money[s]
          /\ money'[buyer] = Minus(money[buyer], price)
          /\ money'[seller] = Add(money[seller], price)
      BY <1>4, <1>5, <1>6, <2>1 DEF TransferMoney
    <2> QED BY <2>2 DEF Minus, Add
  <1>8. /\ \A s \in Seats : Valid(money'[s])
        /\ \A d \in Denoms : MoneyHeld(d)' = MoneyHeld(d)
        /\ \A s \in Seats : money'[s][0] = money[s][0]
        /\ \A s \in Seats \ Seated : money'[s] = money[s]
    <2>1. /\ NoMoney \in Money /\ NoMoney[0] = 0 /\ CanSubtract(money[seller], NoMoney)
          /\ \A d \in Denoms : NoMoney[d] = 0
      BY <1>6, FixedPileTypes DEF NoMoney, CanSubtract, Valid, Contains, Denoms
    <2>2. \A d \in Denoms : money[buyer][d] \in Int /\ money[seller][d] \in Int /\ price[d] \in Int
      BY <1>3, <1>6 DEF Money
    <2>3. \A d \in Denoms : /\ money'[buyer][d] = money[buyer][d] - price[d] + NoMoney[d]
                          /\ money'[seller][d] = money[seller][d] - NoMoney[d] + price[d]
      BY <1>7, <2>1, <2>2
    <2> QED BY <1>2, <1>3, <1>4, <1>6, <1>7, <2>1, <2>3, HandOverEffect DEF IInv
  <1>9. /\ after \in [Seats -> [Animals -> Nat]]
        /\ \A a \in Animals : AnimalsHeld(a)' = AnimalsHeld(a) + (IF a = auction.animal THEN 1 ELSE 0)
        /\ \A s \in Seats \ {buyer} : after[s] = animals[s]
    BY <1>2, <1>5, <1>6, GainEffect
  <1> HIDE DEF after
  <1>10. \A a \in Animals : deck[a] + AnimalsHeld(a)' = 4
    BY <1>1, <1>2, <1>9, CardFacts DEF UpForAuction
  <1>11. \A s \in Seats \ Seated : after[s] = animals[s]
    BY <1>4, <1>9
  <1> QED BY <1>2, <1>5, <1>7, <1>8, <1>9, <1>10, <1>11, SettlementKeepsIInv

\* A challenge keeps it: both sides hold the stake.
LEMMA BeginTradeKeepsIInv ==
  ASSUME ConstantsAssumption, IInv, NEW actor \in Seats, NEW target \in Seats, NEW animal \in Animals,
         NEW offer \in Money, BeginTrade(actor, target, animal, offer)
  PROVE  IInv'
  <1> DEFINE pairs == animals[actor][animal] = 2 /\ animals[target][animal] = 2
  <1>1. /\ status = "playing" /\ phase = "turn" /\ actor = turn /\ target \in Seated \ {actor}
        /\ animals[actor][animal] \notin {0, 4} /\ animals[target][animal] \notin {0, 4}
        /\ Valid(offer) /\ Contains(money[actor], offer)
    BY DEF BeginTrade, DecideBeginTrade, RequireTurn, Offerable
  <1>2. /\ trade' = [challenger |-> actor, target |-> target, animal |-> animal,
                     count |-> IF pairs THEN 2 ELSE 1, offer |-> offer, round |-> 0]
        /\ phase' = "trade_response"
        /\ UNCHANGED <<room, turn, tray, hands, auction, applyError>>
    BY DEF BeginTrade, ApplyTradeStarted
  <1>3. offer \in Money
    OBVIOUS
  <1>4. /\ trade' \in TradeType /\ trade' # Nil
        /\ trade'.challenger = actor /\ trade'.target = target /\ trade'.animal = animal
        /\ trade'.count = (IF pairs THEN 2 ELSE 1) /\ trade'.offer = offer
    BY <1>2, <1>3 DEF TradeType, ConstantsAssumption
  <1>5. /\ status' = status /\ players' = players /\ Seated' = Seated /\ NumPlayers' = NumPlayers
        /\ money' = money /\ animals' = animals /\ turn' = turn /\ auction' = auction
    BY <1>2 DEF room, hands, Seated, NumPlayers
  <1>6. animals[actor][animal] \in Nat /\ animals[target][animal] \in Nat
    BY <1>1, CardFacts DEF Dealt
  <1>7. auction = Nil /\ NumPlayers \in 3..5 /\ turn \in Seated
    BY <1>1 DEF IInv, PhaseInv, Dealt
  <1>8. PhaseInv'
    BY <1>1, <1>2, <1>4, <1>5, <1>7 DEF IInv, PhaseInv, Dealt
  <1>9. PendingCovered'
    BY <1>1, <1>4, <1>5, <1>6, <1>7 DEF PendingCovered
  <1>10. \A a \in Animals : UpForAuction(a)' = UpForAuction(a)
    BY <1>5 DEF UpForAuction
  <1>11. auction' \in AuctionType \cup {Nil}
    BY <1>5, <1>7
  <1> QED BY <1>1, <1>2, <1>4, <1>8, <1>9, <1>10, <1>11, StillStepKeepsIInv

\* The stake of a trade changes hands between two players, once.
LEMMA StakeMoved ==
  ASSUME IInv, trade # Nil, NEW from \in Seated, NEW to \in Seated \ {from}, OwnsStake(from),
         NEW after, after = MoveAnimals(from, to), animals' = after
  PROVE  /\ after \in [Seats -> [Animals -> Nat]]
         /\ \A a \in Animals : deck[a] + AnimalsHeld(a)' = 4
         /\ \A s \in Seats \ Seated : after[s] = animals[s]
  <1>1. TypeOK /\ Dealt /\ auction = Nil
    BY TradeFacts DEF IInv
  <1>2. from \in Seats /\ to \in Seats
    BY <1>1, CardFacts
  <1>3. /\ animals' \in [Seats -> [Animals -> Nat]]
        /\ \A a \in Animals : AnimalsHeld(a)' = AnimalsHeld(a)
        /\ \A s \in Seats \ {from, to} : animals'[s] = animals[s]
    BY <1>1, <1>2, MoveAnimalsEffect
  <1>4. \A a \in Animals : deck[a] + AnimalsHeld(a)' = 4
    BY <1>1, <1>3, CardFacts DEF UpForAuction
  <1> QED BY <1>3, <1>4

\* Accepting keeps it: the offer, less its zeros, and the stake change hands.
LEMMA AcceptTradeKeepsIInv ==
  ASSUME IInv, NEW actor \in Seats, AcceptTrade(actor)
  PROVE  IInv'
  <1> DEFINE target == trade.target
  <1> DEFINE price == WithoutZero(trade.offer)
  <1> DEFINE after == MoveAnimals(target, turn)
  <1>1. trade # Nil /\ phase = "trade_response"
    BY DEF AcceptTrade, DecideAcceptTrade
  <1>2. /\ TypeOK /\ Dealt /\ status = "playing" /\ NumPlayers \in 3..5 /\ turn \in Seated
        /\ trade.challenger = turn /\ target \in Seated \ {turn} /\ OwnsStake(target)
        /\ trade.offer \in Money /\ Valid(trade.offer) /\ Contains(money[turn], trade.offer)
    BY <1>1, TradeFacts DEF IInv
  <1>3. /\ PilesValid /\ money \in [Seats -> Money] /\ turn \in Seats /\ target \in Seats
    BY <1>2, CardFacts
  <1>4. price \in Money /\ price[0] = 0 /\ CanSubtract(money[turn], price)
    BY <1>2, <1>3, WithoutZeroEffect
  <1>5. /\ money' = TransferMoney(money, turn, target, price)
        /\ animals' = after /\ AdvanceTurn(after) /\ UNCHANGED <<players, tray, applyError>>
    BY <1>2, <1>4 DEF AcceptTrade, ApplyTradeAccepted
  <1> HIDE DEF target, price
  <1>6. /\ money' \in [Seats -> Money]
        /\ \A s \in Seats \ {turn, target} : money'[s] = money[s]
        /\ money'[turn] = Minus(money[turn], price)
        /\ money'[target] = Add(money[target], price)
    <2>1. Minus(money[turn], price) \in Money /\ Add(money[target], price) \in Money
      BY <1>3, <1>4, PileTypes
    <2> QED BY <1>2, <1>3, <1>5, <2>1 DEF TransferMoney
  <1>7. /\ \A s \in Seats : Valid(money'[s])
        /\ \A d \in Denoms : MoneyHeld(d)' = MoneyHeld(d)
        /\ \A s \in Seats : money'[s][0] = money[s][0]
        /\ \A s \in Seats \ Seated : money'[s] = money[s]
    <2>1. /\ NoMoney \in Money /\ NoMoney[0] = 0 /\ CanSubtract(money[target], NoMoney)
          /\ \A d \in Denoms : NoMoney[d] = 0
      BY <1>2, <1>3, CardFacts, FixedPileTypes DEF NoMoney, CanSubtract, Valid, Contains, Denoms
    <2>2. \A d \in Denoms : money[turn][d] \in Int /\ money[target][d] \in Int /\ price[d] \in Int
      BY <1>3, <1>4 DEF Money
    <2>3. \A d \in Denoms : /\ money'[turn][d] = money[turn][d] - price[d] + NoMoney[d]
                          /\ money'[target][d] = money[target][d] - NoMoney[d] + price[d]
      BY <1>6, <2>1, <2>2 DEF Minus, Add
    <2> QED BY <1>2, <1>3, <1>4, <1>6, <2>1, <2>3, HandOverEffect DEF IInv
  <1>8. /\ after \in [Seats -> [Animals -> Nat]]
        /\ \A a \in Animals : deck[a] + AnimalsHeld(a)' = 4
        /\ \A s \in Seats \ Seated : after[s] = animals[s]
    BY <1>1, <1>2, <1>5, StakeMoved
  <1> HIDE DEF after
  <1> QED BY <1>2, <1>5, <1>6, <1>7, <1>8, SettlementKeepsIInv

\* A counter-offer keeps it, whether it wins, loses, ties once or ties again.
LEMMA CounterTradeKeepsIInv ==
  ASSUME ConstantsAssumption, IInv, NEW actor \in Seats, NEW offer \in Money, CounterTrade(actor, offer)
  PROVE  IInv'
  <1> DEFINE target == trade.target
  <1> DEFINE own == WithoutZero(trade.offer)
  <1> DEFINE theirs == WithoutZero(offer)
  <1> DEFINE again == Total(trade.offer) = Total(offer) /\ trade.round # 2
  <1> DEFINE winner == IF Total(offer) > Total(trade.offer) THEN target ELSE turn
  <1> DEFINE loser == IF winner = target THEN turn ELSE target
  <1> DEFINE after == MoveAnimals(loser, winner)
  <1>1. /\ trade # Nil /\ actor = target
        /\ Valid(offer) /\ Contains(money[target], offer) /\ offer \in Money
    BY DEF CounterTrade, DecideCounterTrade, Offerable
  <1>2. /\ TypeOK /\ Dealt /\ status = "playing" /\ NumPlayers \in 3..5 /\ turn \in Seated
        /\ trade.challenger = turn /\ target \in Seated \ {turn}
        /\ OwnsStake(turn) /\ OwnsStake(target) /\ auction = Nil /\ trade \in TradeType
        /\ trade.offer \in Money /\ Valid(trade.offer) /\ Contains(money[turn], trade.offer)
    BY <1>1, TradeFacts DEF IInv
  <1>3. /\ PilesValid /\ money \in [Seats -> Money] /\ turn \in Seats /\ target \in Seats
    BY <1>2, CardFacts
  <1>4. /\ own \in Money /\ own[0] = 0 /\ CanSubtract(money[turn], own)
        /\ theirs \in Money /\ theirs[0] = 0 /\ CanSubtract(money[target], theirs)
    BY <1>1, <1>2, <1>3, WithoutZeroEffect
  <1>5. OwnsStake(loser) /\ loser \in Seated /\ winner \in Seated \ {loser}
    BY <1>2
  <1>6. /\ money' = ExchangeMoney(turn, own, target, theirs)
        /\ IF again
           THEN /\ trade' = [trade EXCEPT !.offer = NoMoney, !.round = 2]
                /\ phase' = "trade_reoffer"
                /\ UNCHANGED <<status, turn, animals, auction>>
           ELSE animals' = after /\ AdvanceTurn(after)
        /\ UNCHANGED <<players, tray, applyError>>
    BY <1>2, <1>4, <1>5 DEF CounterTrade, ApplyTradeCountered
  <1> HIDE DEF target, own, theirs, again, winner, loser
  <1>7. /\ money' \in [Seats -> Money]
        /\ \A s \in Seats \ {turn, target} : money'[s] = money[s]
        /\ money'[turn] = Add(Minus(money[turn], own), theirs)
        /\ money'[target] = Add(Minus(money[target], theirs), own)
    <2>1. /\ Add(Minus(money[turn], own), theirs) \in Money
          /\ Add(Minus(money[target], theirs), own) \in Money
      BY <1>3, <1>4, PileTypes
    <2> QED BY <1>2, <1>3, <1>6, <2>1 DEF ExchangeMoney
  <1>8. /\ \A s \in Seats : Valid(money'[s])
        /\ \A d \in Denoms : MoneyHeld(d)' = MoneyHeld(d)
        /\ \A s \in Seats : money'[s][0] = money[s][0]
        /\ \A s \in Seats \ Seated : money'[s] = money[s]
    <2>1. \A d \in Denoms : /\ money'[turn][d] = money[turn][d] - own[d] + theirs[d]
                          /\ money'[target][d] = money[target][d] - theirs[d] + own[d]
      BY <1>7 DEF Minus, Add
    <2> QED BY <1>2, <1>3, <1>4, <1>7, <2>1, HandOverEffect DEF IInv
  <1>9. CASE ~again
    <2>1. animals' = after /\ AdvanceTurn(after) /\ UNCHANGED <<players, tray, applyError>>
      BY <1>6, <1>9
    <2>2. /\ after \in [Seats -> [Animals -> Nat]]
          /\ \A a \in Animals : deck[a] + AnimalsHeld(a)' = 4
          /\ \A s \in Seats \ Seated : after[s] = animals[s]
      BY <1>1, <1>5, <2>1, StakeMoved
    <2> HIDE DEF after
    <2> QED BY <1>2, <1>7, <1>8, <2>1, <2>2, SettlementKeepsIInv
  <1>10. CASE again
    <2>1. /\ trade' = [trade EXCEPT !.offer = NoMoney, !.round = 2]
          /\ phase' = "trade_reoffer" /\ status' = status /\ turn' = turn
          /\ animals' = animals /\ auction' = auction /\ players' = players
          /\ UNCHANGED <<room, turn, tray, animals, applyError>>
      BY <1>6, <1>10 DEF room
    <2>2. /\ trade' \in TradeType /\ trade' # Nil
          /\ trade'.challenger = turn /\ trade'.target = target /\ trade'.offer = NoMoney
          /\ trade'.animal = trade.animal /\ trade'.count = trade.count
      BY <1>2, <2>1, FixedPileTypes DEF TradeType, ConstantsAssumption, target
    <2>3. Seated' = Seated /\ NumPlayers' = NumPlayers
      BY <2>1 DEF Seated, NumPlayers
    <2>4. Valid(NoMoney) /\ \A s \in Seats : Contains(money'[s], NoMoney)
      BY <1>8 DEF Valid, Contains, NoMoney
    <2>5. PhaseInv'
      BY <1>2, <2>1, <2>2, <2>3, <2>4 DEF PhaseInv, Dealt
    <2>6. PendingCovered'
      BY <1>2, <1>3, <2>1, <2>2, <2>4 DEF PendingCovered, OwnsStake, target
    <2>7. \A a \in Animals : UpForAuction(a)' = UpForAuction(a)
      BY <2>1 DEF UpForAuction
    <2> QED BY <1>2, <1>7, <1>8, <2>1, <2>2, <2>5, <2>6, <2>7, StepWithinKeepsIInv
  <1> QED BY <1>9, <1>10

\* The second offer keeps it, as the first did.
LEMMA ReofferTradeKeepsIInv ==
  ASSUME ConstantsAssumption, IInv, NEW actor \in Seats, NEW offer \in Money, ReofferTrade(actor, offer)
  PROVE  IInv'
  <1>1. /\ trade # Nil /\ actor = trade.challenger
        /\ Valid(offer) /\ Contains(money[actor], offer) /\ offer \in Money
    BY DEF ReofferTrade, DecideReofferTrade, Offerable
  <1>2. /\ trade' = [trade EXCEPT !.offer = offer] /\ phase' = "trade_recounter"
        /\ UNCHANGED <<room, turn, tray, hands, auction, applyError>>
    BY DEF ReofferTrade, ApplyTradeReoffered
  <1>3. /\ status = "playing" /\ auction = Nil /\ trade \in TradeType /\ NumPlayers \in 3..5
        /\ turn \in Seated /\ trade.challenger = turn /\ trade.target \in Seated \ {turn}
        /\ OwnsStake(turn) /\ OwnsStake(trade.target)
    BY <1>1, TradeFacts
  <1>4. /\ trade' \in TradeType /\ trade' # Nil
        /\ trade'.challenger = turn /\ trade'.target = trade.target /\ trade'.offer = offer
        /\ trade'.animal = trade.animal /\ trade'.count = trade.count
    BY <1>1, <1>2, <1>3 DEF TradeType, ConstantsAssumption
  <1>5. /\ status' = status /\ players' = players /\ Seated' = Seated /\ NumPlayers' = NumPlayers
        /\ money' = money /\ animals' = animals /\ turn' = turn /\ auction' = auction
    BY <1>2 DEF room, hands, Seated, NumPlayers
  <1>6. PhaseInv'
    BY <1>1, <1>2, <1>3, <1>4, <1>5 DEF PhaseInv, Dealt
  <1>7. PendingCovered'
    BY <1>1, <1>3, <1>4, <1>5 DEF PendingCovered, OwnsStake
  <1>8. \A a \in Animals : UpForAuction(a)' = UpForAuction(a)
    BY <1>5 DEF UpForAuction
  <1> QED BY <1>2, <1>3, <1>4, <1>5, <1>6, <1>7, <1>8, StillStepKeepsIInv

-----------------------------------------------------------------------------
(* Handouts from the bank *)

\* Giving x to everyone seated costs x for each player.
LEMMA HandoutSum ==
  ASSUME NEW f \in [Seats -> Int], NEW g \in [Seats -> Int], NEW x \in Int, NumPlayers \in 3..5,
         \A s \in Seats : g[s] = (IF s \in Seated THEN f[s] + x ELSE f[s])
  PROVE  g[0] + g[1] + g[2] + g[3] + g[4] = f[0] + f[1] + f[2] + f[3] + f[4] + NumPlayers * x
  <1>1. CASE NumPlayers = 3
    BY <1>1 DEF Seats, Seated
  <1>2. CASE NumPlayers = 4
    BY <1>2 DEF Seats, Seated
  <1>3. CASE NumPlayers = 5
    BY <1>3 DEF Seats, Seated
  <1> QED BY <1>1, <1>2, <1>3

\* The bank is stocked for exactly five players and four donkeys.
LEMMA BankSuffices ==
  ASSUME NEW n \in 3..5, NEW k \in 0..3
  PROVE  LET before == Minus(InitialBank, Times(n, Add(StartingMoney, BonusesAfter(k))))
             paidOut == Times(n, DonkeyBonus(k + 1))
         IN  /\ Contains(before, paidOut)
             /\ Minus(before, paidOut)
                  = Minus(InitialBank, Times(n, Add(StartingMoney, BonusesAfter(k + 1))))
  <1>5. k = 0 \/ k = 1 \/ k = 2 \/ k = 3
    OBVIOUS
  <1> USE DEF Contains, Minus, Times, Add, InitialBank, StartingMoney, BonusesAfter, DonkeyBonus,
              Cash, Denoms
  <1>1. CASE k = 0
    BY <1>1
  <1>2. CASE k = 1
    BY <1>2
  <1>3. CASE k = 2
    BY <1>3
  <1>4. CASE k = 3
    BY <1>4
  <1> HIDE DEF Contains, Minus, Times, Add, InitialBank, StartingMoney, BonusesAfter, DonkeyBonus,
               Cash, Denoms
  <1> QED BY <1>1, <1>2, <1>3, <1>4, <1>5

\* A bonus is a proper pile without zeros.
LEMMA BonusIsMoney ==
  ASSUME NEW number \in Int
  PROVE  LET bonus == DonkeyBonus(number) IN bonus \in Money /\ Valid(bonus) /\ bonus[0] = 0
  BY DEF Money, DonkeyBonus, Cash, Denoms, Valid, NoMoney

\* Dealing takes nothing the bank lacks.
LEMMA DealSuffices ==
  ASSUME NEW n \in 3..5
  PROVE  /\ Contains(InitialBank, Times(n, StartingMoney))
         /\ Minus(InitialBank, Times(n, StartingMoney))
              = Minus(InitialBank, Times(n, Add(StartingMoney, BonusesAfter(0))))
         /\ Valid(Minus(InitialBank, Times(n, StartingMoney)))
  BY DEF Contains, Minus, Times, Add, InitialBank, StartingMoney, BonusesAfter, Cash, Denoms, Valid

\* Turning a card up keeps it: the bank pays every bonus.
LEMMA BeginAuctionKeepsIInv ==
  ASSUME ConstantsAssumption, IInv, NEW actor \in Seats, BeginAuction(actor)
  PROVE  IInv'
  <1>1. status = "playing" /\ phase = "turn" /\ actor = turn
    BY DEF BeginAuction, DecideBeginAuction, RequireTurn
  <1>2. PICK animal \in Animals : deck[animal] > 0 /\ ApplyAuctionStarted(animal)
    BY DEF BeginAuction
  <1> DEFINE n == NumPlayers
  <1> DEFINE bonus == IF animal = Donkey THEN DonkeyBonus(donkeys + 1) ELSE NoMoney
  <1> DEFINE paidOut == Times(n, bonus)
  <1>3. /\ TypeOK /\ Dealt /\ NothingElsewhere /\ n \in 3..5 /\ turn \in Seated
        /\ auction = Nil /\ trade = Nil
    BY <1>1 DEF IInv, PhaseInv, Dealt
  <1>4. /\ PilesValid /\ money \in [Seats -> Money] /\ donkeys \in Nat /\ bank \in Money
        /\ deck \in [Animals -> 0..4] /\ turn \in Seats
        /\ bank = Minus(InitialBank, Times(n, Add(StartingMoney, BonusesAfter(donkeys))))
        /\ IF Donkey \in Animals THEN donkeys + deck[Donkey] = 4 ELSE donkeys = 0
        /\ \A a \in Animals : deck[a] + UpForAuction(a) + AnimalsHeld(a) = 4 /\ AnimalsHeld(a) \in Nat
    BY <1>3, CardFacts DEF TypeOK, IInv, BankInv
  <1>5. bonus \in Money /\ Valid(bonus) /\ bonus[0] = 0
    <2>1. NoMoney \in Money /\ Valid(NoMoney) /\ NoMoney[0] = 0
      BY FixedPileTypes DEF Valid, NoMoney, Denoms
    <2>2. donkeys + 1 \in Int
      BY <1>4
    <2> QED BY <2>1, <2>2, BonusIsMoney
  <1> DEFINE seen == IF animal = Donkey THEN donkeys + 1 ELSE donkeys
  <1>6. /\ Contains(bank, paidOut)
        /\ Minus(bank, paidOut) = Minus(InitialBank, Times(n, Add(StartingMoney, BonusesAfter(seen))))
    <2>1. CASE animal = Donkey
      <3>1. donkeys \in 0..3
        BY <1>2, <1>4, <2>1
      <3> QED BY <1>3, <1>4, <2>1, <3>1, BankSuffices
    <2>2. CASE animal # Donkey
      <3>1. paidOut = NoMoney
        BY <1>3, <2>2 DEF Times, NoMoney
      <3>2. Contains(bank, NoMoney) /\ Minus(bank, NoMoney) = bank
        BY <1>4 DEF PilesValid, Valid, Contains, Minus, NoMoney, Money
      <3> QED BY <1>4, <2>2, <3>1, <3>2
    <2> QED BY <2>1, <2>2
  <1>7. /\ deck' = [deck EXCEPT ![animal] = @ - 1] /\ donkeys' = seen /\ bank' = Minus(bank, paidOut)
        /\ money' = [s \in Seats |-> IF s \in Seated THEN Add(money[s], bonus) ELSE money[s]]
        /\ phase' = "auction"
        /\ auction' = [animal |-> animal, auctioneer |-> turn, highestBid |-> 0,
                       bidder |-> Nil, payment |-> NoMoney]
        /\ UNCHANGED <<room, turn, animals, trade, applyError>>
    BY <1>2, <1>6 DEF ApplyAuctionStarted
  <1> HIDE DEF bonus, seen
  <1>8. /\ status' = status /\ players' = players /\ Seated' = Seated /\ NumPlayers' = NumPlayers
        /\ animals' = animals /\ turn' = turn /\ trade' = Nil /\ applyError' = applyError /\ Dealt'
    BY <1>3, <1>7 DEF room, Seated, NumPlayers, Dealt
  <1>9. /\ auction' \in AuctionType /\ auction' # Nil
        /\ auction'.animal = animal /\ auction'.auctioneer = turn /\ auction'.bidder = Nil
    BY <1>4, <1>7, FixedPileTypes DEF AuctionType, ConstantsAssumption
  <1>10. money' \in [Seats -> Money] /\ bank' \in Money /\ donkeys' \in Nat /\ deck' \in [Animals -> 0..4]
    <2>1. \A s \in Seats : Add(money[s], bonus) \in Money
      BY <1>4, <1>5, PileTypes
    <2>2. bank' \in Money
      BY <1>3, <1>4, <1>5, <1>7, PileTypes, FixedPileTypes
    <2>3. donkeys' \in Nat
      BY <1>4, <1>7 DEF seen
    <2>4. deck' \in [Animals -> 0..4]
      BY <1>2, <1>4, <1>7
    <2> QED BY <1>4, <1>7, <2>1, <2>2, <2>3, <2>4
  <1>11. TypeOK'
    BY <1>3, <1>7, <1>8, <1>9, <1>10 DEF TypeOK
  <1>12. PhaseInv'
    BY <1>1, <1>3, <1>7, <1>8, <1>9 DEF PhaseInv, Dealt
  <1>13. NothingElsewhere'
    BY <1>3, <1>7, <1>8 DEF NothingElsewhere, Dealt
  <1>14. BankInv'
    <2>1. bank' = Minus(InitialBank, Times(NumPlayers', Add(StartingMoney, BonusesAfter(donkeys'))))
      BY <1>6, <1>7, <1>8
    <2>2. IF Donkey \in Animals THEN donkeys' + deck'[Donkey] = 4 ELSE donkeys' = 0
      BY <1>2, <1>4, <1>7 DEF seen
    <2> QED BY <2>1, <2>2 DEF BankInv
  <1>15. TurnInv' /\ ApplyNeverFails' /\ FinishedWithCompleteSets' /\ PendingCovered'
    BY <1>1, <1>7, <1>8, <1>9 DEF TurnInv, ApplyNeverFails, FinishedWithCompleteSets, PendingCovered, IInv
  <1>16. MoneyConserved'
    <2>1. \A s \in Seats, d \in Denoms : money[s][d] \in Int /\ money[s][d] >= 0 /\ bonus[d] \in Int /\ bonus[d] >= 0
      <3>1. \A s \in Seats : money[s] \in Money /\ Valid(money[s])
        BY <1>4 DEF PilesValid
      <3>2. ASSUME NEW m \in Money, Valid(m), NEW d \in Denoms
            PROVE  m[d] \in Int /\ m[d] >= 0
        BY <3>2 DEF Money, Valid
      <3> QED BY <1>5, <3>1, <3>2
    <2>2. \A d \in Denoms : bank[d] \in Int /\ bank'[d] \in Int /\ bank'[d] = bank[d] - n * bonus[d]
      BY <1>4, <1>7, <1>10 DEF Minus, Times, Money
    <2>3. Valid(bank')
      <3>1. \A d \in Denoms : bank[d] >= n * bonus[d]
        BY <1>6 DEF Contains, Times
      <3>2. \A d \in Denoms : n * bonus[d] \in Int
        BY <1>3, <2>1
      <3> QED BY <2>2, <3>1, <3>2 DEF Valid
    <2>4. \A s \in Seats : Valid(money'[s])
      BY <1>7, <2>1 DEF Valid, Add
    <2>5. ASSUME NEW d \in Denoms
          PROVE  bank'[d] + MoneyHeld(d)' = InitialBank[d]
      <3> DEFINE f == [s \in Seats |-> money[s][d]]
      <3> DEFINE g == [s \in Seats |-> money'[s][d]]
      <3> DEFINE x == bonus[d]
      <3>1. x \in Int /\ f \in [Seats -> Int]
        BY <2>1
      <3>2. \A s \in Seats : g[s] = (IF s \in Seated THEN f[s] + x ELSE f[s])
        BY <1>7 DEF Add
      <3>3. g \in [Seats -> Int]
        BY <1>10 DEF Money
      <3>4. g[0] + g[1] + g[2] + g[3] + g[4] = f[0] + f[1] + f[2] + f[3] + f[4] + n * x
        <4> HIDE DEF f, g, x
        <4> QED BY <1>3, <3>1, <3>2, <3>3, HandoutSum
      <3>5. MoneyHeld(d)' = MoneyHeld(d) + n * x
        BY <3>4 DEF MoneyHeld, Seats
      <3>6. bank[d] + MoneyHeld(d) = InitialBank[d]
        BY <1>3 DEF IInv, MoneyConserved
      <3>7. n * x \in Int /\ MoneyHeld(d) \in Int
        BY <1>3, <2>1, <3>1 DEF MoneyHeld, Seats
      <3> HIDE DEF x
      <3>8. bank'[d] = bank[d] - n * x
        BY <2>2 DEF x
      <3> QED BY <2>2, <3>5, <3>6, <3>7, <3>8
    <2> QED BY <2>3, <2>4, <2>5 DEF MoneyConserved, PilesValid
  <1>17. AnimalsConserved'
    <2>1. \A a \in Animals : AnimalsHeld(a)' = AnimalsHeld(a)
      BY <1>8 DEF AnimalsHeld
    <2>2. \A a \in Animals : UpForAuction(a) = 0 /\ UpForAuction(a)' = (IF a = animal THEN 1 ELSE 0)
      BY <1>3, <1>9 DEF UpForAuction
    <2>3. \A a \in Animals : deck'[a] = (IF a = animal THEN deck[a] - 1 ELSE deck[a])
      BY <1>4, <1>7
    <2>4. \A a \in Animals : deck[a] \in Int
      BY <1>4
    <2> QED BY <1>4, <2>1, <2>2, <2>3, <2>4 DEF AnimalsConserved
  <1>18. ZerosKept'
    <2>1. \A s \in Seated : s \in Seats /\ money[s][0] = 2
      BY <1>3, CardFacts DEF ZerosKept, IInv
    <2>2. \A s \in Seated : money'[s][0] = 2 + bonus[0]
      BY <1>7, <2>1 DEF Add, Denoms
    <2> QED BY <1>5, <1>8, <2>2 DEF ZerosKept
  <1> QED BY <1>11, <1>12, <1>13, <1>14, <1>15, <1>16, <1>17, <1>18 DEF IInv

\* Dealing keeps it: the bank can pay everyone, and seat 0 can auction.
LEMMA StartGameKeepsIInv ==
  ASSUME ConstantsAssumption, IInv, NEW actor \in Seats, StartGame(actor)
  PROVE  IInv'
  <1> DEFINE n == NumPlayers
  <1>1. /\ status = "lobby" /\ n \in 3..5 /\ ~Dealt /\ TypeOK /\ phase = "lobby"
        /\ auction = Nil /\ trade = Nil /\ donkeys = 0
    BY DEF StartGame, DecideStartGame, IInv, TypeOK, PhaseInv, NothingElsewhere, Dealt
  <1>2. \A s \in Seats, a \in Animals : animals[s][a] = 0
    BY <1>1 DEF IInv, NothingElsewhere
  <1>3. /\ status' = "playing" /\ phase' = "turn" /\ turn' = 0 /\ deck' = [a \in Animals |-> 4]
        /\ bank' = Minus(InitialBank, Times(n, StartingMoney))
        /\ money' = [s \in Seats |-> IF s \in Seated THEN StartingMoney ELSE NoMoney]
        /\ UNCHANGED <<players, donkeys, animals, auction, trade, applyError>>
    BY <1>1, DealSuffices DEF StartGame, ApplyGameStarted
  <1>4. Seated' = Seated /\ NumPlayers' = n /\ Dealt' /\ 0 \in Seated /\ 0 \in Seats
    BY <1>1, <1>3 DEF Seated, NumPlayers, Dealt, Seats
  <1>5. StartingMoney \in Money /\ NoMoney \in Money /\ bank' \in Money
    <2>1. n \in Int /\ StartingMoney \in Money /\ NoMoney \in Money /\ InitialBank \in Money
      BY <1>1, FixedPileTypes
    <2>2. Times(n, StartingMoney) \in Money
      BY <2>1, FixedPileTypes
    <2> QED BY <1>3, <2>1, <2>2, PileTypes
  <1>6. TypeOK'
    BY <1>1, <1>3, <1>4, <1>5 DEF TypeOK
  <1>7. PhaseInv'
    BY <1>1, <1>3, <1>4 DEF PhaseInv, Dealt
  <1>8. NothingElsewhere'
    BY <1>2, <1>3, <1>4 DEF NothingElsewhere
  <1>9. BankInv'
    BY <1>1, <1>3, <1>4, DealSuffices DEF BankInv
  <1>10. TurnInv'
    <2>1. PICK a \in Animals : TRUE
      BY DEF ConstantsAssumption
    <2>2. deck'[a] > 0
      BY <1>3
    <2> QED BY <2>2 DEF TurnInv, CardsLeft
  <1>11. ApplyNeverFails' /\ FinishedWithCompleteSets' /\ PendingCovered'
    BY <1>1, <1>3 DEF ApplyNeverFails, FinishedWithCompleteSets, PendingCovered, IInv
  <1>12. MoneyConserved'
    <2>1. Valid(NoMoney) /\ Valid(StartingMoney) /\ Valid(bank')
      BY <1>1, <1>3, DealSuffices DEF Valid, NoMoney, StartingMoney, Cash, Denoms
    <2>2. PilesValid'
      BY <1>3, <2>1 DEF PilesValid
    <2>3. ASSUME NEW d \in Denoms
          PROVE  bank'[d] + MoneyHeld(d)' = InitialBank[d]
      <3> DEFINE x == StartingMoney[d]
      <3> DEFINE f == [s \in Seats |-> 0]
      <3> DEFINE g == [s \in Seats |-> money'[s][d]]
      <3>1. x \in Int /\ InitialBank[d] \in Int
        BY FixedPileTypes DEF Money
      <3>2. \A s \in Seats : g[s] = (IF s \in Seated THEN f[s] + x ELSE f[s])
        BY <1>3, <3>1 DEF NoMoney
      <3>3. f \in [Seats -> Int] /\ g \in [Seats -> Int]
        BY <3>1, <3>2
      <3>4. g[0] + g[1] + g[2] + g[3] + g[4] = f[0] + f[1] + f[2] + f[3] + f[4] + n * x
        <4> HIDE DEF f, g, x
        <4> QED BY <1>1, <3>1, <3>2, <3>3, HandoutSum
      <3>5. n * x \in Int
        BY <1>1, <3>1
      <3>6. MoneyHeld(d)' = n * x
        BY <3>4, <3>5 DEF MoneyHeld, Seats
      <3>7. bank'[d] = InitialBank[d] - n * x
        BY <1>3 DEF Minus, Times
      <3> HIDE DEF x
      <3> QED BY <3>1, <3>5, <3>6, <3>7
    <2> QED BY <2>2, <2>3 DEF MoneyConserved
  <1>13. AnimalsConserved'
    BY <1>1, <1>2, <1>3 DEF AnimalsConserved, AnimalsHeld, UpForAuction, Seats
  <1>14. ZerosKept'
    <2>1. Seated \subseteq Seats
      BY <1>1 DEF Seated, Seats
    <2>2. StartingMoney[0] = 2
      BY DEF StartingMoney, Cash, Denoms
    <2> QED BY <1>3, <1>4, <2>1, <2>2 DEF ZerosKept
  <1> QED BY <1>6, <1>7, <1>8, <1>9, <1>10, <1>11, <1>12, <1>13, <1>14 DEF IInv

\* A room with its host keeps it.
LEMMA CreateRoomKeepsIInv ==
  ASSUME IInv, NEW id \in Identities, CreateRoom(id)
  PROVE  IInv'
  <1>1. /\ status = "none" /\ status' = "lobby" /\ phase' = "lobby" /\ players' = <<id>>
        /\ UNCHANGED <<turn, tray, hands, auction, trade, applyError>>
    BY DEF CreateRoom, DecideCreateRoom, ApplyRoomCreated
  <1>2. ~Dealt /\ ~Dealt' /\ NumPlayers' = 1 /\ players' \in Seq(Identities)
    BY <1>1 DEF Dealt, NumPlayers
  <1>3. TypeOK /\ phase = "none" /\ auction = Nil /\ trade = Nil
    BY <1>1 DEF IInv, PhaseInv
  <1>4. TypeOK'
    BY <1>1, <1>2, <1>3 DEF TypeOK, tray, hands
  <1>5. PhaseInv' /\ PendingCovered' /\ TurnInv' /\ FinishedWithCompleteSets' /\ ApplyNeverFails'
    BY <1>1, <1>2, <1>3 DEF PhaseInv, PendingCovered, TurnInv, FinishedWithCompleteSets,
                           ApplyNeverFails, IInv
  <1>6. NothingElsewhere'
    BY <1>1, <1>2 DEF NothingElsewhere, IInv, tray, hands
  <1>7. BankInv' /\ MoneyConserved' /\ AnimalsConserved' /\ ZerosKept'
    BY <1>2 DEF BankInv, MoneyConserved, AnimalsConserved, ZerosKept
  <1> QED BY <1>4, <1>5, <1>6, <1>7 DEF IInv

\* And so does a player who joins.
LEMMA JoinRoomKeepsIInv ==
  ASSUME IInv, NEW id \in Identities, JoinRoom(id)
  PROVE  IInv'
  <1>1. /\ status = "lobby" /\ NumPlayers < 5 /\ players' = Append(players, id)
        /\ UNCHANGED <<status, phase, turn, tray, hands, auction, trade, applyError>>
    BY DEF JoinRoom, DecideJoinRoom, ApplyPlayerJoined
  <1>2. TypeOK /\ phase = "lobby" /\ auction = Nil /\ trade = Nil /\ ~Dealt /\ ~Dealt'
    BY <1>1 DEF IInv, PhaseInv, Dealt
  <1>3. players' \in Seq(Identities) /\ NumPlayers' \in 0..5
    BY <1>1, <1>2 DEF TypeOK, NumPlayers
  <1>4. TypeOK'
    BY <1>1, <1>2, <1>3 DEF TypeOK, tray, hands
  <1>5. PhaseInv' /\ PendingCovered' /\ TurnInv' /\ FinishedWithCompleteSets' /\ ApplyNeverFails'
    BY <1>1, <1>2 DEF PhaseInv, PendingCovered, TurnInv, FinishedWithCompleteSets,
                      ApplyNeverFails, IInv
  <1>6. NothingElsewhere'
    BY <1>1, <1>2 DEF NothingElsewhere, IInv, tray, hands
  <1>7. BankInv' /\ MoneyConserved' /\ AnimalsConserved' /\ ZerosKept'
    BY <1>2 DEF BankInv, MoneyConserved, AnimalsConserved, ZerosKept
  <1> QED BY <1>4, <1>5, <1>6, <1>7 DEF IInv

-----------------------------------------------------------------------------
(* The theorems *)

\* The empty aggregate satisfies the invariant.
LEMMA InitSatisfiesIInv ==
  ASSUME ConstantsAssumption, Init
  PROVE  IInv
  <1> USE DEF Init
  <1>1. NumPlayers = 0 /\ ~Dealt /\ NoMoney \in Money
    BY FixedPileTypes DEF NumPlayers, Dealt
  <1>2. TypeOK
    <2>1. players \in Seq(Identities)
      OBVIOUS
    <2>2. turn \in Seats
      BY DEF Seats
    <2>3. /\ deck \in [Animals -> 0..4] /\ money \in [Seats -> Money]
          /\ animals \in [Seats -> [Animals -> Nat]]
      BY <1>1
    <2> QED BY <1>1, <2>1, <2>2, <2>3 DEF TypeOK
  <1>3. PhaseInv /\ PendingCovered /\ TurnInv /\ FinishedWithCompleteSets /\ ApplyNeverFails
    BY <1>1 DEF PhaseInv, PendingCovered, TurnInv, FinishedWithCompleteSets, ApplyNeverFails
  <1>4. NothingElsewhere
    BY DEF NothingElsewhere
  <1>5. BankInv /\ MoneyConserved /\ AnimalsConserved /\ ZerosKept
    BY <1>1 DEF BankInv, MoneyConserved, AnimalsConserved, ZerosKept
  <1> QED BY <1>2, <1>3, <1>4, <1>5 DEF IInv

\* Every command, and doing nothing, keeps the invariant.
LEMMA StepKeepsIInv ==
  ASSUME ConstantsAssumption, IInv, [Next]_vars
  PROVE  IInv'
  <1>0. Bids \subseteq Int /\ Offers \subseteq Money
    BY DEF ConstantsAssumption
  <1>1. CASE \E id \in Identities : CreateRoom(id)
    BY <1>1, CreateRoomKeepsIInv
  <1>2. CASE \E id \in Identities : JoinRoom(id)
    BY <1>2, JoinRoomKeepsIInv
  <1>3. CASE \E actor \in Seats : StartGame(actor)
    BY <1>3, StartGameKeepsIInv
  <1>4. CASE \E actor \in Seats : BeginAuction(actor)
    BY <1>4, BeginAuctionKeepsIInv
  <1>5. CASE \E actor \in Seats, amount \in Bids, payment \in Offers :
               PlaceBid(actor, amount, payment)
    BY <1>0, <1>5, PlaceBidKeepsIInv
  <1>6. CASE \E actor \in Seats : CloseAuction(actor)
    BY <1>6, CloseAuctionKeepsIInv
  <1>7. CASE \E actor \in Seats, buy \in BOOLEAN, payment \in Offers \cup {NoMoney} :
               ResolveAuction(actor, buy, payment)
    <2>1. Offers \cup {NoMoney} \subseteq Money
      BY FixedPileTypes DEF ConstantsAssumption
    <2> QED BY <1>7, <2>1, ResolveAuctionKeepsIInv
  <1>8. CASE \E actor, target \in Seats, animal \in Animals, offer \in Offers :
               BeginTrade(actor, target, animal, offer)
    BY <1>0, <1>8, BeginTradeKeepsIInv
  <1>9. CASE \E actor \in Seats : AcceptTrade(actor)
    BY <1>9, AcceptTradeKeepsIInv
  <1>10. CASE \E actor \in Seats, offer \in Offers : CounterTrade(actor, offer)
    BY <1>0, <1>10, CounterTradeKeepsIInv
  <1>11. CASE \E actor \in Seats, offer \in Offers : ReofferTrade(actor, offer)
    BY <1>0, <1>11, ReofferTradeKeepsIInv
  <1>12. CASE UNCHANGED vars
    BY <1>12 DEF IInv, vars, TypeOK, PhaseInv, NothingElsewhere, BankInv, TurnInv, ApplyNeverFails,
       MoneyConserved, PilesValid, MoneyHeld, AnimalsConserved, AnimalsHeld, UpForAuction, ZerosKept,
       PendingCovered, FinishedWithCompleteSets, Dealt, NumPlayers, Seated, CardsLeft, CanTrade,
       ValidateAuctionPayment
  <1> QED BY <1>1, <1>2, <1>3, <1>4, <1>5, <1>6, <1>7, <1>8, <1>9, <1>10, <1>11, <1>12 DEF Next

\* The inductive invariant holds of every reachable state.
THEOREM Invariant == Spec => []IInv
  <1>1. Init => IInv
    BY ConstantsAssumption, InitSatisfiesIInv
  <1>2. IInv /\ [Next]_vars => IInv'
    BY ConstantsAssumption, StepKeepsIInv
  <1> QED BY <1>1, <1>2, PTL DEF Spec

\* The variables keep their types.
THEOREM TypeCorrect == Spec => []TypeOK
  BY Invariant, PTL DEF IInv

\* An event that Decide accepted is never refused by Apply: no stored game is unreplayable.
THEOREM AcceptedEventsApply == Spec => []ApplyNeverFails
  BY Invariant, PTL DEF IInv

\* Players and bank together always hold the printed cards, no pile a negative number.
THEOREM MoneyIsConserved == Spec => []MoneyConserved
  BY Invariant, PTL DEF IInv

\* Deck, auction block and players together always hold four cards of each species.
THEOREM AnimalsAreConserved == Spec => []AnimalsConserved
  BY Invariant, PTL DEF IInv

\* Everyone keeps his two zero cards.
THEOREM ZerosAreKept == Spec => []ZerosKept
  BY Invariant, PTL DEF IInv

\* Bids, offers and stakes stay covered until they are settled.
THEOREM PendingIsCovered == Spec => []PendingCovered
  BY Invariant, PTL DEF IInv

\* A finished game leaves every species whole.
THEOREM FinishedIsComplete == Spec => []FinishedWithCompleteSets
  BY Invariant, PTL DEF IInv

\* Somebody always has a move: the turn player, or the one the transaction waits for.
THEOREM TheGameNeverSticks == Spec => []SomeoneCanMove
  <1>1. IInv => SomeoneCanMove
    <2> SUFFICES ASSUME IInv, status = "playing"
                 PROVE  \E seat \in Seated : LegalActions(seat) \ {"auction.bid"} # {}
      BY DEF SomeoneCanMove
    <2>1. /\ turn \in Seated /\ TypeOK
          /\ phase \in {"turn", "auction", "first_refusal", "trade_response",
                        "trade_reoffer", "trade_recounter"}
      BY DEF IInv, PhaseInv, TypeOK, Dealt
    <2>2. CASE phase = "turn"
      <3>1. CASE CardsLeft
        <4>1. "turn.auction" \in LegalActions(turn)
          BY <2>1, <2>2, <3>1 DEF LegalActions
        <4> QED BY <2>1, <4>1
      <3>2. CASE CanTrade(animals, turn)
        <4>1. "turn.trade" \in LegalActions(turn)
          BY <2>1, <2>2, <3>2 DEF LegalActions
        <4> QED BY <2>1, <4>1
      <3> QED BY <2>2, <3>1, <3>2 DEF IInv, TurnInv
    <2>3. CASE phase = "auction"
      <3>1. auction # Nil /\ auction.auctioneer = turn
        BY <2>3 DEF IInv, PhaseInv
      <3>2. "auction.close" \in LegalActions(turn)
        BY <2>1, <2>3, <3>1 DEF LegalActions
      <3> QED BY <2>1, <3>2
    <2>4. CASE phase = "first_refusal"
      <3>1. auction # Nil /\ auction.auctioneer = turn
        BY <2>4 DEF IInv, PhaseInv
      <3>2. "auction.resolve" \in LegalActions(turn)
        BY <2>1, <2>4, <3>1 DEF LegalActions
      <3> QED BY <2>1, <3>2
    <2>5. CASE phase \in {"trade_response", "trade_recounter"}
      <3>1. trade # Nil /\ trade.target \in Seated
        BY <2>5 DEF IInv, PhaseInv
      <3>2. "trade.counter" \in LegalActions(trade.target)
        BY <2>5, <3>1 DEF LegalActions
      <3> QED BY <3>1, <3>2
    <2>6. CASE phase = "trade_reoffer"
      <3>1. trade # Nil /\ trade.challenger = turn
        BY <2>6 DEF IInv, PhaseInv
      <3>2. "trade.reoffer" \in LegalActions(turn)
        BY <2>1, <2>6, <3>1 DEF LegalActions
      <3> QED BY <2>1, <3>2
    <2> QED BY <2>1, <2>2, <2>3, <2>4, <2>5, <2>6
  <1> QED BY <1>1, Invariant, PTL

\* A player with all four cards of a species leaves none to the deck, the block or the others.
LEMMA CompleteSetIsAlone ==
  ASSUME IInv, NEW s \in Seats, NEW a \in Animals, animals[s][a] = 4
  PROVE  /\ UpForAuction(a) = 0
         /\ \A other \in Seats \ {s} : animals[other][a] = 0
  <1>1. Dealt
    BY DEF IInv, NothingElsewhere
  <1>2. /\ deck[a] + UpForAuction(a) + AnimalsHeld(a) = 4 /\ deck[a] \in 0..4
        /\ animals \in [Seats -> [Animals -> Nat]]
    BY <1>1, CardFacts
  <1>3. UpForAuction(a) \in 0..1 /\ \A other \in Seats : animals[other][a] \in Nat
    BY <1>2 DEF UpForAuction
  <1> QED BY <1>2, <1>3 DEF AnimalsHeld, Seats

\* A zero card, which every seated player has, makes an offer.
LEMMA ZeroIsOfferable ==
  ASSUME IInv, Dealt, NEW seat \in Seated
  PROVE  Offerable(money[seat], ZeroCard)
  <1>1. seat \in Seats /\ money[seat] \in Money /\ Valid(money[seat]) /\ money[seat][0] = 2
    BY CardFacts DEF IInv, ZerosKept
  <1>2. Contains(money[seat], ZeroCard)
    BY <1>1 DEF Contains, Valid, ZeroCard, Cash, Denoms
  <1>3. Valid(ZeroCard) /\ CardCount(ZeroCard) = 1
    BY DEF Valid, CardCount, ZeroCard, Cash, Denoms
  <1> QED BY <1>2, <1>3 DEF Offerable

\* The turn player can trade exactly when some challenge of his would be accepted.
LEMMA TradeIsDecidable ==
  ASSUME IInv, Dealt, phase = "turn", status = "playing", NEW seat \in Seated, turn = seat
  PROVE  CanTrade(animals, seat) <=>
           \E target \in Seats, animal \in Animals : DecideBeginTrade(seat, target, animal, ZeroCard)
  <1>1. animals \in [Seats -> [Animals -> Nat]] /\ \A s \in Seated : s \in Seats
    BY CardFacts
  <1>2. ASSUME NEW a \in Animals, NEW other \in Seated \ {seat}, animals[seat][a] # 0
        PROVE  animals[other][a] > 0 <=> animals[other][a] \notin {0, 4}
    <2>1. \A s \in Seats : animals[s][a] \in Nat
      BY <1>1
    <2>2. animals[other][a] # 4
      <3> SUFFICES ASSUME animals[other][a] = 4
                   PROVE  FALSE
        OBVIOUS
      <3> QED BY <1>1, <1>2, CompleteSetIsAlone
    <2> QED BY <1>1, <2>1, <2>2
  <1>3. Offerable(money[seat], ZeroCard)
    BY ZeroIsOfferable
  <1> QED BY <1>1, <1>2, <1>3 DEF CanTrade, DecideBeginTrade, RequireTurn

\* The actions a snapshot lists as legal are those for which Decide accepts a command.
THEOREM LegalActionsAgreeWithDecide == Spec => []LegalActionsAreDecidable
  <1>1. IInv => LegalActionsAreDecidable
    <2> SUFFICES ASSUME IInv, NEW seat \in Seats,
                        NEW action \in {"turn.auction", "turn.trade", "auction.close",
                                        "auction.resolve", "trade.accept", "trade.counter",
                                        "trade.reoffer"}
                 PROVE  action \in LegalActions(seat) <=> CanDo(seat, action)
      BY DEF LegalActionsAreDecidable
    <2>1. /\ auction # Nil => /\ status = "playing" /\ Dealt /\ turn \in Seated
                              /\ auction.auctioneer = turn
          /\ trade # Nil => /\ status = "playing" /\ Dealt /\ turn \in Seated
                            /\ trade.challenger = turn /\ trade.target \in Seated
      BY AuctionFacts, TradeFacts
    <2>2. status = "playing" => Dealt /\ turn \in Seated
      BY DEF Dealt, IInv, PhaseInv
    <2>3. CASE action = "turn.auction"
      BY <2>2, <2>3 DEF LegalActions, CanDo, DecideBeginAuction, RequireTurn
    <2>4. CASE action = "turn.trade"
      <3>1. CASE status = "playing" /\ phase = "turn" /\ turn = seat
        BY <2>2, <2>4, <3>1, TradeIsDecidable DEF LegalActions, CanDo
      <3>2. CASE ~(status = "playing" /\ phase = "turn" /\ turn = seat)
        BY <2>4, <3>2 DEF LegalActions, CanDo, DecideBeginTrade, RequireTurn
      <3> QED BY <3>1, <3>2
    <2>5. CASE action = "auction.close"
      BY <2>1, <2>5 DEF LegalActions, CanDo, DecideCloseAuction
    <2>6. CASE action = "auction.resolve"
      BY <2>1, <2>6 DEF LegalActions, CanDo, DecideResolveAuction
    <2>7. CASE action = "trade.accept"
      BY <2>1, <2>7 DEF LegalActions, CanDo, DecideAcceptTrade
    <2>8. CASE action = "trade.counter"
      BY <2>1, <2>8, ZeroIsOfferable DEF LegalActions, CanDo, DecideCounterTrade
    <2>9. CASE action = "trade.reoffer"
      BY <2>1, <2>9, ZeroIsOfferable DEF LegalActions, CanDo, DecideReofferTrade
    <2> QED BY <2>3, <2>4, <2>5, <2>6, <2>7, <2>8, <2>9
  <1> QED BY <1>1, Invariant, PTL

\* How a step may move animals: not at all, one from the block to a player, or the
\* stake of a trade between its two players.
LEMMA AnimalMoves ==
  ASSUME IInv, Next
  PROVE  \/ animals' = animals
         \/ auction # Nil /\ \E seat \in Seated : animals' = Gain(animals, seat, auction.animal)
         \/ /\ trade # Nil
            /\ \E from, to \in {trade.challenger, trade.target} :
                  from # to /\ animals' = MoveAnimals(from, to)
  <1>1. CASE \/ \E id \in Identities : CreateRoom(id) \/ JoinRoom(id)
             \/ \E actor \in Seats, amount \in Bids, payment \in Offers : PlaceBid(actor, amount, payment)
             \/ \E actor, target \in Seats, animal \in Animals, offer \in Offers :
                   BeginTrade(actor, target, animal, offer)
             \/ \E actor \in Seats, offer \in Offers : ReofferTrade(actor, offer)
    BY <1>1 DEF CreateRoom, ApplyRoomCreated, JoinRoom, ApplyPlayerJoined, PlaceBid, ApplyBidPlaced,
                BeginTrade, ApplyTradeStarted, ReofferTrade, ApplyTradeReoffered, hands
  <1>2. CASE \E actor \in Seats : StartGame(actor) \/ BeginAuction(actor)
    BY <1>2 DEF StartGame, ApplyGameStarted, BeginAuction, ApplyAuctionStarted, ApplyFails, hands
  <1>3. CASE \E actor \in Seats : CloseAuction(actor)
    <2>1. auction # Nil /\ ApplyAuctionClosed
      BY <1>3 DEF CloseAuction, DecideCloseAuction
    <2>2. turn \in Seated
      BY <2>1, AuctionFacts
    <2> QED BY <2>1, <2>2 DEF ApplyAuctionClosed, hands
  <1>4. CASE \E actor \in Seats, buy \in BOOLEAN, payment \in Offers \cup {NoMoney} :
               ResolveAuction(actor, buy, payment)
    <2>1. PICK buy \in BOOLEAN, payment \in Offers \cup {NoMoney} :
            /\ phase = "first_refusal" /\ auction # Nil /\ ApplyAuctionResolved(buy, payment)
      BY <1>4 DEF ResolveAuction, DecideResolveAuction
    <2>2. auction.auctioneer \in Seated /\ auction.bidder \in Seated
      BY <2>1, AuctionFacts DEF IInv, PhaseInv
    <2> QED BY <2>1, <2>2 DEF ApplyAuctionResolved, ApplyFails, hands
  <1>5. CASE \E actor \in Seats : AcceptTrade(actor)
    <2>1. trade # Nil /\ ApplyTradeAccepted
      BY <1>5 DEF AcceptTrade, DecideAcceptTrade
    <2>2. trade.challenger # trade.target
      BY <2>1, TradeFacts
    <2> QED BY <2>1, <2>2 DEF ApplyTradeAccepted, ApplyFails, hands
  <1>6. CASE \E actor \in Seats, offer \in Offers : CounterTrade(actor, offer)
    <2>1. PICK offer \in Offers : trade # Nil /\ ApplyTradeCountered(offer)
      BY <1>6 DEF CounterTrade, DecideCounterTrade
    <2>2. trade.challenger # trade.target
      BY <2>1, TradeFacts
    <2> QED BY <2>1, <2>2 DEF ApplyTradeCountered, ApplyFails, hands
  <1> QED BY <1>1, <1>2, <1>3, <1>4, <1>5, <1>6 DEF Next

\* Once a player has the whole set of a species he keeps it for good.
THEOREM SetsArePermanent == Spec => CompleteSetsArePermanent
  <1> DEFINE Kept == \A s \in Seats, a \in Animals : animals[s][a] = 4 => animals'[s][a] = 4
  <1>1. IInv /\ [Next]_vars => [Kept]_vars
    <2> SUFFICES ASSUME IInv, Next, NEW s \in Seats, NEW a \in Animals, animals[s][a] = 4
                 PROVE  animals'[s][a] = 4
      OBVIOUS
    <2>1. /\ animals \in [Seats -> [Animals -> Nat]]
          /\ UpForAuction(a) = 0 /\ \A other \in Seats \ {s} : animals[other][a] = 0
      BY CompleteSetIsAlone DEF IInv, TypeOK
    <2>2. ASSUME auction # Nil, NEW seat \in Seated, animals' = Gain(animals, seat, auction.animal)
          PROVE  animals'[s][a] = 4
      <3>1. auction.animal # a /\ auction.animal \in Animals /\ seat \in Seats
        BY <2>1, <2>2, AuctionFacts, CardFacts DEF UpForAuction
      <3> QED BY <2>1, <2>2, <3>1 DEF Gain
    <2>3. ASSUME trade # Nil, NEW from \in {trade.challenger, trade.target},
                 NEW to \in {trade.challenger, trade.target}, from # to,
                 animals' = MoveAnimals(from, to)
          PROVE  animals'[s][a] = 4
      <3> DEFINE b == trade.animal
      <3> DEFINE n == trade.count
      <3>1. /\ from \in Seats /\ to \in Seats /\ b \in Animals /\ n \in 1..2
            /\ animals[from][b] >= n /\ animals[to][b] >= n
        BY <2>3, TradeFacts, CardFacts DEF OwnsStake
      <3>2. a # b
        <4>1. PICK other \in {from, to} : other # s
          BY <2>3
        <4> QED BY <2>1, <3>1, <4>1
      <3>3. animals' = [animals EXCEPT ![from][b] = @ - n, ![to][b] = @ + n]
        BY <2>3 DEF MoveAnimals
      <3> HIDE DEF b, n
      <3> QED BY <2>1, <3>1, <3>2, <3>3
    <2> QED BY <2>2, <2>3, AnimalMoves
  <1>2. Spec => [][Kept]_vars
    BY <1>1, Invariant, PTL DEF Spec
  <1> QED BY <1>2 DEF CompleteSetsArePermanent
=============================================================================
