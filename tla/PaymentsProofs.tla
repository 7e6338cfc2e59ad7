--------------------------- MODULE PaymentsProofs ---------------------------
(***************************************************************************)
(* The options of any purse: one pile for each total that can be paid with *)
(* its notes, and none that uses fewer notes or, of as many, larger ones.  *)
(***************************************************************************)
EXTENDS Payments, WellFoundedInduction, TLAPS

\* The piles that the notes of a purse of at most the given value can make.
Within(purse, top) ==
  {pile \in Money : \A d \in Denoms : pile[d] \in 0..(IF d \in 1..top THEN purse[d] ELSE 0)}

\* Among the options is one of the same total that the pile does not beat.
Matched(pile, options) ==
  \E option \in options : option.total = Total(pile) /\ ~Better(Option(pile), option)

AllMatched(piles, options) == \A pile \in piles : Matched(pile, options)

AreOptionsOf(options, piles) ==
  /\ \A pile \in piles : Option(pile) \in options
  /\ \A option \in options : \E pile \in piles : option = Option(pile)

\* What paymentOptions has found out when it has gone through the notes up to this value.
Level(options, top, purse) ==
  /\ \A option \in options : \E pile \in Within(purse, top) : option = Option(pile)
  /\ \A pile \in Within(purse, top) : Matched(pile, options)
  /\ \A option, other \in options : option.total = other.total => option = other

Put(pile, d, count) == [pile EXCEPT ![d] = count]
Worth(d, count) == d * count

-----------------------------------------------------------------------------
(* Comparing options *)

\* betterPayment as the comparison of six numbers, one after the other.
Larger(a, b) ==
  \/ a[500] > b[500]
  \/ a[500] = b[500] /\ a[200] > b[200]
  \/ a[500] = b[500] /\ a[200] = b[200] /\ a[100] > b[100]
  \/ a[500] = b[500] /\ a[200] = b[200] /\ a[100] = b[100] /\ a[50] > b[50]
  \/ a[500] = b[500] /\ a[200] = b[200] /\ a[100] = b[100] /\ a[50] = b[50] /\ a[10] > b[10]

LEMMA BetterMeans ==
  ASSUME NEW a, NEW b
  PROVE  Better(a, b) <=> \/ a.cards < b.cards
                          \/ a.cards = b.cards /\ Larger(a.money, b.money)
<1>1. /\ Notes[1] = 10 /\ Notes[2] = 50 /\ Notes[3] = 100 /\ Notes[4] = 200 /\ Notes[5] = 500
  BY DEF Notes
<1> DEFINE First(n) == /\ a.money[Notes[n]] > b.money[Notes[n]]
                       /\ \A m \in (n + 1)..5 : a.money[Notes[m]] = b.money[Notes[m]]
<1>2. 1..5 = {1, 2, 3, 4, 5} /\ 2..5 = {2, 3, 4, 5} /\ 3..5 = {3, 4, 5} /\ 4..5 = {4, 5} /\ 5..5 = {5} /\ 6..5 = {}
  OBVIOUS
<1>3. First(5) <=> a.money[500] > b.money[500] BY <1>1, <1>2
<1>4. First(4) <=> a.money[500] = b.money[500] /\ a.money[200] > b.money[200] BY <1>1, <1>2
<1>5. First(3) <=> a.money[500] = b.money[500] /\ a.money[200] = b.money[200] /\ a.money[100] > b.money[100]
  BY <1>1, <1>2
<1>6. First(2) <=> /\ a.money[500] = b.money[500] /\ a.money[200] = b.money[200] /\ a.money[100] = b.money[100]
                   /\ a.money[50] > b.money[50]
  BY <1>1, <1>2
<1>7. First(1) <=> /\ a.money[500] = b.money[500] /\ a.money[200] = b.money[200] /\ a.money[100] = b.money[100]
                   /\ a.money[50] = b.money[50] /\ a.money[10] > b.money[10]
  BY <1>1, <1>2
<1>8. Better(a, b) <=> \/ a.cards < b.cards
                       \/ a.cards = b.cards /\ \E n \in 1..5 : First(n)
  BY Zenon DEF Better
<1> HIDE DEF First
<1>9. (\E n \in 1..5 : First(n)) <=> First(1) \/ First(2) \/ First(3) \/ First(4) \/ First(5) BY <1>2
<1> QED BY <1>3, <1>4, <1>5, <1>6, <1>7, <1>8, <1>9 DEF Larger

LEMMA OptionFields ==
  ASSUME NEW pile \in Money
  PROVE  /\ Option(pile).money = pile /\ Option(pile).total = Total(pile)
         /\ Option(pile).cards = CardCount(pile)
         /\ Total(pile) \in Int /\ CardCount(pile) \in Int
         /\ \A d \in Denoms : pile[d] \in Int
BY DEF Option, Money, Total, CardCount, Denoms

LEMMA BetterPile ==
  ASSUME NEW x \in Money, NEW y \in Money
  PROVE  Better(Option(x), Option(y)) <=>
           \/ CardCount(x) < CardCount(y)
           \/ CardCount(x) = CardCount(y) /\ Larger(x, y)
<1>1. /\ Option(x).money = x /\ Option(x).cards = CardCount(x)
      /\ Option(y).money = y /\ Option(y).cards = CardCount(y)
  BY OptionFields
<1>2. Better(Option(x), Option(y)) <=>
        \/ Option(x).cards < Option(y).cards
        \/ Option(x).cards = Option(y).cards /\ Larger(Option(x).money, Option(y).money)
  BY BetterMeans, Zenon
<1> QED BY <1>1, <1>2

LEMMA CountsOfPurse ==
  ASSUME NEW purse \in Money, Valid(purse)
  PROVE  \A d \in Denoms : purse[d] \in Nat
<1> TAKE d \in Denoms
<1>1. purse[d] \in Int /\ purse[d] >= 0 BY DEF Money, Valid
<1> QED BY <1>1

LEMMA CountsOfPile ==
  ASSUME NEW purse \in Money, Valid(purse), NEW top, NEW pile \in Within(purse, top)
  PROVE  /\ pile \in Money /\ \A d \in Denoms : pile[d] \in Nat /\ pile[d] <= purse[d]
         /\ Total(pile) \in Nat /\ CardCount(pile) \in Nat /\ Option(pile) \in PaymentOption
<1>1. pile \in Money BY DEF Within
<1>2. ASSUME NEW d \in Denoms PROVE pile[d] \in Nat /\ pile[d] <= purse[d]
  <2>1. purse[d] \in Nat BY DEF Money, Valid
  <2>2. pile[d] \in 0..(IF d \in 1..top THEN purse[d] ELSE 0) BY DEF Within
  <2> QED BY <2>1, <2>2
<1>3. Total(pile) \in Nat /\ CardCount(pile) \in Nat BY <1>2 DEF Total, CardCount, Denoms
<1>4. Option(pile) \in PaymentOption BY <1>1, <1>3 DEF Option, PaymentOption
<1> QED BY <1>1, <1>2, <1>3, <1>4

\* What does not beat a second does not beat what the second does not beat.
LEMMA NotBetterTransitive ==
  ASSUME NEW a \in Money, NEW b \in Money, NEW c \in Money,
         ~Better(Option(a), Option(b)), ~Better(Option(b), Option(c))
  PROVE  ~Better(Option(a), Option(c))
<1>1. /\ \A d \in Denoms : a[d] \in Int /\ b[d] \in Int /\ c[d] \in Int
      /\ CardCount(a) \in Int /\ CardCount(b) \in Int /\ CardCount(c) \in Int
  BY OptionFields
<1>2. /\ CardCount(a) >= CardCount(b) /\ (CardCount(a) = CardCount(b) => ~Larger(a, b))
      /\ CardCount(b) >= CardCount(c) /\ (CardCount(b) = CardCount(c) => ~Larger(b, c))
  BY <1>1, BetterPile
<1>3. ~Larger(a, b) /\ ~Larger(b, c) => ~Larger(a, c) BY <1>1 DEF Larger, Denoms
<1>4. CardCount(a) >= CardCount(c) /\ (CardCount(a) = CardCount(c) => ~Larger(a, c))
  BY <1>1, <1>2, <1>3
<1>5. ~(CardCount(a) < CardCount(c)) BY <1>1, <1>4
<1> QED BY <1>4, <1>5, BetterPile

-----------------------------------------------------------------------------
(* The best of several *)

LEMMA Least ==
  ASSUME NEW S, S # {}, NEW f \in [S -> Nat]
  PROVE  \E x \in S : \A y \in S : f[x] <= f[y]
<1> DEFINE R == OpToRel(<, Nat)
           T == {f[x] : x \in S}
<1>1. \A m, n \in Nat : m < n => <<m, n>> \in R BY DEF OpToRel
<1>2. IsWellFoundedOn(R, Nat) BY NatLessThanWellFounded
<1>3. T \subseteq Nat /\ T # {} OBVIOUS
<1> HIDE DEF R, T
<1>4. PICK m \in T : \A n \in T : <<n, m>> \notin R BY <1>2, <1>3, WFMin
<1>5. PICK x \in S : f[x] = m BY <1>4 DEF T
<1>6. ASSUME NEW y \in S PROVE f[x] <= f[y]
  <2>1. f[y] \in T /\ f[y] \in Nat /\ f[x] \in Nat BY DEF T
  <2>2. ~(f[y] < f[x]) BY <1>1, <1>4, <1>5, <2>1
  <2> QED BY <2>1, <2>2
<1> QED BY <1>5, <1>6

\* Among the piles of a set there is one with the most notes of a denomination.
LEMMA MostOf ==
  ASSUME NEW purse \in Money, Valid(purse), NEW top, NEW piles, piles # {},
         piles \subseteq Within(purse, top), NEW d \in Denoms
  PROVE  \E x \in piles : \A y \in piles : x[d] >= y[d]
<1> DEFINE f == [x \in piles |-> purse[d] - x[d]]
<1>1. purse[d] \in Nat BY DEF Money, Valid
<1>2. \A x \in piles : x[d] \in Nat /\ x[d] <= purse[d] BY CountsOfPile
<1>3. f \in [piles -> Nat] BY <1>1, <1>2
<1>4. \A x \in piles : f[x] = purse[d] - x[d] OBVIOUS
<1> HIDE DEF f
<1>5. PICK x \in piles : \A y \in piles : f[x] <= f[y] BY <1>3, Least
<1> QED BY <1>1, <1>2, <1>4, <1>5

\* Some pile of a set is beaten by none: the one that is left when those of the fewest
\* cards are sifted by one denomination after the other.
LEMMA Unbeaten ==
  ASSUME NEW purse \in Money, Valid(purse), NEW top, NEW piles, piles # {},
         piles \subseteq Within(purse, top)
  PROVE  \E x \in piles : \A y \in piles : ~Better(Option(y), Option(x))
<1>1. \A x \in piles : /\ x \in Money /\ CardCount(x) \in Nat /\ \A d \in Denoms : x[d] \in Nat
  BY CountsOfPile
<1> DEFINE count == [x \in piles |-> CardCount(x)]
<1>2. count \in [piles -> Nat] /\ \A x \in piles : count[x] = CardCount(x) BY <1>1
<1> HIDE DEF count
<1>3. PICK a \in piles : \A y \in piles : CardCount(a) <= CardCount(y) BY <1>2, Least
<1>4. 500 \in Denoms /\ 200 \in Denoms /\ 100 \in Denoms /\ 50 \in Denoms /\ 10 \in Denoms BY DEF Denoms
<1>most. ASSUME NEW some, some # {}, some \subseteq Within(purse, top), NEW k, k \in Denoms
         PROVE  \E x \in some : \A y \in some : x[k] >= y[k]
  BY <1>most, MostOf
<1> DEFINE fewest == {x \in piles : CardCount(x) = CardCount(a)}
<1>5. fewest # {} /\ fewest \subseteq Within(purse, top) BY <1>3
<1> HIDE DEF fewest
<1>6. PICK b \in fewest : \A y \in fewest : b[500] >= y[500] BY <1>4, <1>5, <1>most
<1> DEFINE fives == {x \in fewest : x[500] = b[500]}
<1>7. fives # {} /\ fives \subseteq Within(purse, top) BY <1>5, <1>6
<1> HIDE DEF fives
<1>8. PICK c \in fives : \A y \in fives : c[200] >= y[200] BY <1>4, <1>7, <1>most
<1> DEFINE twos == {x \in fives : x[200] = c[200]}
<1>9. twos # {} /\ twos \subseteq Within(purse, top) BY <1>7, <1>8
<1> HIDE DEF twos
<1>10. PICK d \in twos : \A y \in twos : d[100] >= y[100] BY <1>4, <1>9, <1>most
<1> DEFINE hundreds == {x \in twos : x[100] = d[100]}
<1>11. hundreds # {} /\ hundreds \subseteq Within(purse, top) BY <1>9, <1>10
<1> HIDE DEF hundreds
<1>12. PICK e \in hundreds : \A y \in hundreds : e[50] >= y[50] BY <1>4, <1>11, <1>most
<1> DEFINE fifties == {x \in hundreds : x[50] = e[50]}
<1>13. fifties # {} /\ fifties \subseteq Within(purse, top) BY <1>11, <1>12
<1> HIDE DEF fifties
<1>14. PICK x \in fifties : \A y \in fifties : x[10] >= y[10] BY <1>4, <1>13, <1>most
<1> USE DEF fewest, fives, twos, hundreds, fifties
<1>15. /\ x \in piles /\ CardCount(x) = CardCount(a)
       /\ x[500] = b[500] /\ x[200] = c[200] /\ x[100] = d[100] /\ x[50] = e[50]
  BY <1>14
<1>16. ASSUME NEW y \in piles PROVE ~Better(Option(y), Option(x))
  <2>1. /\ \A k \in {10, 50, 100, 200, 500} : x[k] \in Nat /\ y[k] \in Nat
        /\ x \in Money /\ y \in Money /\ CardCount(x) \in Nat /\ CardCount(y) \in Nat
    BY <1>1, <1>15 DEF Denoms
  <2>2. CardCount(x) <= CardCount(y) BY <1>3, <1>15
  <2>3. CASE CardCount(x) = CardCount(y)
    <3>1. y \in fewest BY <1>15, <2>3
    <3>2. x[500] >= y[500] BY <1>6, <1>15, <3>1
    <3>3. x[500] = y[500] => y \in fives /\ x[200] >= y[200] BY <1>8, <1>15, <3>1
    <3>4. x[500] = y[500] /\ x[200] = y[200] => y \in twos /\ x[100] >= y[100] BY <1>10, <1>15, <3>3
    <3>5. x[500] = y[500] /\ x[200] = y[200] /\ x[100] = y[100] => y \in hundreds /\ x[50] >= y[50]
      BY <1>12, <1>15, <3>4
    <3>6. x[500] = y[500] /\ x[200] = y[200] /\ x[100] = y[100] /\ x[50] = y[50] => x[10] >= y[10]
      BY <1>14, <1>15, <3>5
    <3> HIDE DEF fewest, fives, twos, hundreds, fifties
    <3>7. ~Larger(y, x) BY <2>1, <3>2, <3>3, <3>4, <3>5, <3>6 DEF Larger
    <3> QED BY <2>1, <2>3, <3>7, BetterPile
  <2>4. CASE CardCount(x) < CardCount(y)
    BY <2>1, <2>4, BetterPile
  <2> QED BY <2>1, <2>2, <2>3, <2>4
<1> QED BY <1>15, <1>16

-----------------------------------------------------------------------------
(* Extending the options by one denomination *)

\* The map keeps one option of each total, and one that no other of this total beats.
LEMMA BestPerTotalFacts ==
  ASSUME NEW purse \in Money, Valid(purse), NEW top, NEW piles, piles \subseteq Within(purse, top),
         NEW all, AreOptionsOf(all, piles)
  PROVE  /\ BestPerTotal[all] \subseteq all
         /\ AllMatched(piles, BestPerTotal[all])
         /\ \A option, other \in BestPerTotal[all] : option.total = other.total => option = other
<1> DEFINE Rivals(total) == {option \in all : option.total = total}
           Best(total) == CHOOSE option \in Rivals(total) : \A other \in Rivals(total) : ~Better(other, option)
<1> USE DEF AreOptionsOf
<1>1. \A pile \in piles : Option(pile) \in PaymentOption /\ Option(pile).total = Total(pile)
  BY CountsOfPile, OptionFields
<1>2. all \in SUBSET PaymentOption BY <1>1
<1>3. BestPerTotal[all] = {Best(total) : total \in {option.total : option \in all}}
  <2>1. \A rivals \in SUBSET all :
          [rivals1 \in SUBSET all |-> CHOOSE option \in rivals1 : \A other \in rivals1 : ~Better(other, option)][rivals]
            = CHOOSE option \in rivals : \A other \in rivals : ~Better(other, option)
    OBVIOUS
  <2>2. \A total : Rivals(total) \in SUBSET all OBVIOUS
  <2>3. BestPerTotal[all] =
          {[rivals \in SUBSET all |-> CHOOSE option \in rivals : \A other \in rivals : ~Better(other, option)][Rivals(total)] :
             total \in {option.total : option \in all}}
    BY <1>2 DEF BestPerTotal
  <2> QED BY <2>1, <2>2, <2>3
<1>4. ASSUME NEW pile \in piles
      PROVE  /\ Best(Total(pile)) \in Rivals(Total(pile))
             /\ \A other \in Rivals(Total(pile)) : ~Better(other, Best(Total(pile)))
  <2> DEFINE alike == {x \in piles : Total(x) = Total(pile)}
  <2>1. alike # {} /\ alike \subseteq Within(purse, top) OBVIOUS
  <2>2. Rivals(Total(pile)) = {Option(x) : x \in alike} BY <1>1
  <2> HIDE DEF alike
  <2>3. PICK x \in alike : \A y \in alike : ~Better(Option(y), Option(x)) BY <2>1, Unbeaten
  <2>4. Option(x) \in Rivals(Total(pile)) /\ \A other \in Rivals(Total(pile)) : ~Better(other, Option(x))
    BY <2>2, <2>3
  <2> HIDE DEF Rivals
  <2> QED BY <2>4
<1>5. \A option \in all : \E pile \in piles : option = Option(pile) OBVIOUS
<1>6. \A pile \in piles : Option(pile) \in Rivals(Total(pile)) BY <1>1
<1>7. \A total : \A option \in Rivals(total) : option \in all /\ option.total = total OBVIOUS
<1> HIDE DEF Rivals, Best
<1>8. \A option \in BestPerTotal[all] : \E pile \in piles : option = Best(Total(pile)) /\ option.total = Total(pile)
  <2> TAKE option \in BestPerTotal[all]
  <2>1. PICK other \in all : option = Best(other.total) BY <1>3
  <2>2. PICK pile \in piles : other = Option(pile) BY <1>5
  <2> QED BY <1>1, <1>4, <1>7, <2>1, <2>2
<1>9. BestPerTotal[all] \subseteq all BY <1>4, <1>7, <1>8
<1>10. ASSUME NEW pile \in piles
       PROVE  Matched(pile, BestPerTotal[all])
  <2>1. Option(pile) \in all /\ Option(pile).total = Total(pile) BY <1>1, <1>6, <1>7
  <2>2. Best(Total(pile)) \in BestPerTotal[all] BY <1>3, <2>1
  <2> QED BY <1>4, <1>6, <1>7, <2>2 DEF Matched
<1>11. \A option, other \in BestPerTotal[all] : option.total = other.total => option = other BY <1>8
<1> QED BY <1>9, <1>10, <1>11 DEF AllMatched

LEMMA PutFacts ==
  ASSUME NEW pile \in Money, NEW d \in Denoms, NEW count \in Int
  PROVE  /\ Put(pile, d, count) \in Money /\ Put(pile, d, count)[d] = count
         /\ \A e \in Denoms \ {d} : Put(pile, d, count)[e] = pile[e]
BY DEF Put, Money

LEMMA PutSums ==
  ASSUME NEW pile \in Money, NEW d \in Denoms, NEW count \in Int, pile[d] = 0
  PROVE  /\ CardCount(Put(pile, d, count)) = CardCount(pile) + count
         /\ Total(Put(pile, d, count)) = Total(pile) + Worth(d, count)
<1> DEFINE more == Put(pile, d, count)
<1>1. more \in Money /\ more[d] = count /\ \A e \in Denoms \ {d} : more[e] = pile[e] BY PutFacts
<1>2. \A e \in Denoms : pile[e] \in Int BY DEF Money
<1>4. pile[10] \in Int /\ pile[50] \in Int /\ pile[100] \in Int /\ pile[200] \in Int /\ pile[500] \in Int
  BY <1>2 DEF Denoms
<1> HIDE DEF more
<1>3. Total(more) = Total(pile) + Worth(d, count) /\ CardCount(more) = CardCount(pile) + count
  <2>1. CASE d = 0
    <3>0. more[10] = pile[10] /\ more[50] = pile[50] /\ more[100] = pile[100] /\ more[200] = pile[200] /\ more[500] = pile[500]
      BY <1>1, <2>1 DEF Denoms
    <3>1. Total(more) = Total(pile) + 0 * count BY <1>4, <2>1, <3>0 DEF Total
    <3>2. CardCount(more) = CardCount(pile) + count BY <1>1, <1>2, <2>1 DEF Denoms, CardCount
    <3> QED BY <2>1, <3>1, <3>2 DEF Worth
  <2>2. CASE d = 10
    <3>0. more[10] = count /\ more[50] = pile[50] /\ more[100] = pile[100] /\ more[200] = pile[200] /\ more[500] = pile[500]
      BY <1>1, <2>2 DEF Denoms
    <3>1. Total(more) = Total(pile) + 10 * count BY <1>4, <2>2, <3>0 DEF Total
    <3>2. CardCount(more) = CardCount(pile) + count BY <1>1, <1>2, <2>2 DEF Denoms, CardCount
    <3> QED BY <2>2, <3>1, <3>2 DEF Worth
  <2>3. CASE d = 50
    <3>0. more[10] = pile[10] /\ more[50] = count /\ more[100] = pile[100] /\ more[200] = pile[200] /\ more[500] = pile[500]
      BY <1>1, <2>3 DEF Denoms
    <3>1. Total(more) = Total(pile) + 50 * count BY <1>4, <2>3, <3>0 DEF Total
    <3>2. CardCount(more) = CardCount(pile) + count BY <1>1, <1>2, <2>3 DEF Denoms, CardCount
    <3> QED BY <2>3, <3>1, <3>2 DEF Worth
  <2>4. CASE d = 100
    <3>0. more[10] = pile[10] /\ more[50] = pile[50] /\ more[100] = count /\ more[200] = pile[200] /\ more[500] = pile[500]
      BY <1>1, <2>4 DEF Denoms
    <3>1. Total(more) = Total(pile) + 100 * count BY <1>4, <2>4, <3>0 DEF Total
    <3>2. CardCount(more) = CardCount(pile) + count BY <1>1, <1>2, <2>4 DEF Denoms, CardCount
    <3> QED BY <2>4, <3>1, <3>2 DEF Worth
  <2>5. CASE d = 200
    <3>0. more[10] = pile[10] /\ more[50] = pile[50] /\ more[100] = pile[100] /\ more[200] = count /\ more[500] = pile[500]
      BY <1>1, <2>5 DEF Denoms
    <3>1. Total(more) = Total(pile) + 200 * count BY <1>4, <2>5, <3>0 DEF Total
    <3>2. CardCount(more) = CardCount(pile) + count BY <1>1, <1>2, <2>5 DEF Denoms, CardCount
    <3> QED BY <2>5, <3>1, <3>2 DEF Worth
  <2>6. CASE d = 500
    <3>0. more[10] = pile[10] /\ more[50] = pile[50] /\ more[100] = pile[100] /\ more[200] = pile[200] /\ more[500] = count
      BY <1>1, <2>6 DEF Denoms
    <3>1. Total(more) = Total(pile) + 500 * count BY <1>4, <2>6, <3>0 DEF Total
    <3>2. CardCount(more) = CardCount(pile) + count BY <1>1, <1>2, <2>6 DEF Denoms, CardCount
    <3> QED BY <2>6, <3>1, <3>2 DEF Worth
  <2> QED BY <2>1, <2>2, <2>3, <2>4, <2>5, <2>6 DEF Denoms
<1> QED BY <1>3 DEF more

\* As many notes of a denomination added to two piles without it, or any larger one, leave
\* the comparison as it was.
LEMMA BetterIsKept ==
  ASSUME NEW a \in Money, NEW b \in Money, NEW d \in {10, 50, 100, 200, 500}, NEW count \in Int,
         \A e \in Denoms : e >= d => a[e] = 0 /\ b[e] = 0,
         ~Better(Option(a), Option(b))
  PROVE  ~Better(Option(Put(a, d, count)), Option(Put(b, d, count)))
<1>1. d \in Denoms /\ a[d] = 0 /\ b[d] = 0 /\ (\A e \in Denoms : a[e] \in Int /\ b[e] \in Int)
  BY DEF Denoms, Money
<1>2. PICK a1 \in Money : /\ a1 = Put(a, d, count) /\ a1[d] = count /\ \A e \in Denoms \ {d} : a1[e] = a[e]
                          /\ CardCount(a1) = CardCount(a) + count
  <2>1. CardCount(Put(a, d, count)) = CardCount(a) + count BY <1>1, PutSums, Zenon
  <2> QED BY <1>1, <2>1, PutFacts
<1>3. PICK b1 \in Money : /\ b1 = Put(b, d, count) /\ b1[d] = count /\ \A e \in Denoms \ {d} : b1[e] = b[e]
                          /\ CardCount(b1) = CardCount(b) + count
  <2>1. CardCount(Put(b, d, count)) = CardCount(b) + count BY <1>1, PutSums, Zenon
  <2> QED BY <1>1, <2>1, PutFacts
<1>4. CardCount(a) \in Int /\ CardCount(b) \in Int BY OptionFields
<1>5. CardCount(a) >= CardCount(b) /\ (CardCount(a) = CardCount(b) => ~Larger(a, b)) BY <1>4, BetterPile
<1>6. Larger(a1, b1) => Larger(a, b)
  <2>1. CASE d = 10 BY <1>1, <1>2, <1>3, <2>1 DEF Larger, Denoms
  <2>2. CASE d = 50 BY <1>1, <1>2, <1>3, <2>2 DEF Larger, Denoms
  <2>3. CASE d = 100 BY <1>1, <1>2, <1>3, <2>3 DEF Larger, Denoms
  <2>4. CASE d = 200 BY <1>1, <1>2, <1>3, <2>4 DEF Larger, Denoms
  <2>5. CASE d = 500 BY <1>1, <1>2, <1>3, <2>5 DEF Larger, Denoms
  <2> QED BY <2>1, <2>2, <2>3, <2>4, <2>5
<1>7. CardCount(a1) >= CardCount(b1) /\ (CardCount(a1) = CardCount(b1) => ~Larger(a1, b1))
  BY <1>2, <1>3, <1>4, <1>5, <1>6
<1>8. CardCount(a1) \in Int /\ CardCount(b1) \in Int BY OptionFields
<1>9. ~Better(Option(a1), Option(b1)) BY <1>7, <1>8, BetterPile
<1> QED BY <1>2, <1>3, <1>9

LEMMA WithinOne ==
  ASSUME NEW purse \in Money, Valid(purse), NEW top \in Nat, NEW d \in Denoms, top < d,
         NEW pile \in Within(purse, top), NEW count \in 0..purse[d]
  PROVE  Put(pile, d, count) \in Within(purse, d)
<1>1. pile \in Money /\ \A e \in Denoms : pile[e] \in 0..(IF e \in 1..top THEN purse[e] ELSE 0) BY DEF Within
<1>2. \A e \in Denoms : purse[e] \in Nat BY DEF Money, Valid
<1>3. /\ Put(pile, d, count) \in Money /\ Put(pile, d, count)[d] = count
      /\ \A e \in Denoms \ {d} : Put(pile, d, count)[e] = pile[e]
  <2>1. count \in Int BY <1>2
  <2> QED BY <1>1, <2>1, PutFacts
<1>4. ASSUME NEW e \in Denoms PROVE Put(pile, d, count)[e] \in 0..(IF e \in 1..d THEN purse[e] ELSE 0)
  <2>1. purse[e] \in Nat /\ e \in Int /\ d \in Int BY <1>2 DEF Denoms
  <2>2. CASE e = d
    <3>1. d \in 1..d BY <2>1
    <3> QED BY <1>3, <2>2, <3>1
  <2>3. CASE e # d
    <3>1. Put(pile, d, count)[e] = pile[e] BY <1>3, <2>3
    <3>2. e \in 1..top => e \in 1..d BY <2>1
    <3> QED BY <1>1, <2>1, <3>1, <3>2
  <2> QED BY <2>2, <2>3
<1> QED BY <1>3, <1>4 DEF Within

\* One denomination after the other, from the smallest: what has been found out of the
\* smaller ones is enough to find out as much with the next.
LEMMA ExtendedLevel ==
  ASSUME NEW purse \in Money, Valid(purse), NEW top \in Nat,
         NEW d \in {10, 50, 100, 200, 500}, top < d, \A e \in Denoms : e < d => e <= top,
         NEW options, Level(options, top, purse)
  PROVE  Level(Extended(options, d, purse), d, purse)
<1>1. d \in Denoms /\ d \in 1..d /\ d \notin 1..top BY DEF Denoms
<1>2. /\ purse[d] \in Nat
      /\ \A e \in Denoms \ {d} : e \in 1..d <=> e \in 1..top
  BY <1>1 DEF Money, Valid, Denoms
<1>3. CASE purse[d] = 0
  <2>1. \A e \in Denoms : (IF e \in 1..top THEN purse[e] ELSE 0) = (IF e \in 1..d THEN purse[e] ELSE 0)
    <3> SUFFICES ASSUME NEW e \in Denoms
                 PROVE  (IF e \in 1..top THEN purse[e] ELSE 0) = (IF e \in 1..d THEN purse[e] ELSE 0)
      OBVIOUS
    <3>1. CASE e = d BY <1>1, <1>3, <3>1
    <3>2. CASE e # d
      <4>1. e \in 1..d <=> e \in 1..top BY <1>2, <3>2, Zenon
      <4> QED BY <4>1, Zenon
    <3> QED BY <3>1, <3>2
  <2>2. Within(purse, top) = Within(purse, d) BY <2>1 DEF Within
  <2>3. Extended(options, d, purse) = options BY <1>3 DEF Extended
  <2> QED BY <2>2, <2>3 DEF Level
<1>4. CASE purse[d] # 0
  <2> DEFINE piles == {Put(option.money, d, count) : option \in options, count \in 0..purse[d]}
             all == {Option(Put(option.money, d, count)) : option \in options, count \in 0..purse[d]}
  <2>1. Extended(options, d, purse) = BestPerTotal[all]
    <3>1. Extended(options, d, purse) = IF purse[d] = 0 THEN options ELSE BestPerTotal[all]
      BY DEF Extended, Counts, Put
    <3> HIDE DEF all
    <3> QED BY <1>4, <3>1
  <2>2. \A option \in options : \E rest \in Within(purse, top) :
          /\ option = Option(rest) /\ option.money = rest /\ option.total = Total(rest) /\ rest \in Money
    <3> TAKE option \in options
    <3>1. PICK rest \in Within(purse, top) : option = Option(rest) BY DEF Level
    <3> QED BY <3>1, OptionFields, CountsOfPile
  <2>3. piles \subseteq Within(purse, d)
    BY <1>1, <2>2, WithinOne
  <2>4. \A option \in options, count \in 0..purse[d] : Put(option.money, d, count) \in piles OBVIOUS
  <2>5. /\ \A pile \in piles : Option(pile) \in all
        /\ \A option \in all : \E pile \in piles : option = Option(pile)
    OBVIOUS
  <2> HIDE DEF piles, all
  <2>6. /\ BestPerTotal[all] \subseteq all
        /\ \A pile \in piles : Matched(pile, BestPerTotal[all])
        /\ \A option, other \in BestPerTotal[all] : option.total = other.total => option = other
    <3>1. AreOptionsOf(all, piles) BY <2>5 DEF AreOptionsOf
    <3>2. /\ BestPerTotal[all] \subseteq all
          /\ AllMatched(piles, BestPerTotal[all])
          /\ \A option, other \in BestPerTotal[all] : option.total = other.total => option = other
      BY <2>3, <3>1, BestPerTotalFacts
    <3> QED BY <3>2 DEF AllMatched
  <2>7. ASSUME NEW pile \in Within(purse, d)
        PROVE  \E other \in piles : Total(other) = Total(pile) /\ ~Better(Option(pile), Option(other))
    <3>1. pile \in Money /\ \A e \in Denoms : pile[e] \in 0..(IF e \in 1..d THEN purse[e] ELSE 0)
      BY DEF Within
    <3>2. pile[d] \in 0..purse[d] /\ pile[d] \in Int BY <1>1, <1>2, <3>1
    <3>3. PICK base \in Money : base = Put(pile, d, 0) /\ base[d] = 0 /\ \A e \in Denoms \ {d} : base[e] = pile[e]
      BY <1>1, <3>1, PutFacts
    <3>4. pile = Put(base, d, pile[d])
      <4>1. pile = [e \in Denoms |-> pile[e]] /\ DOMAIN pile = Denoms BY <3>1 DEF Money
      <4>2. base = [e \in Denoms |-> base[e]] BY <3>3 DEF Money
      <4>3. DOMAIN Put(base, d, pile[d]) = Denoms /\ Put(base, d, pile[d])[d] = pile[d]
        BY <1>1, <4>2 DEF Put
      <4>4. \A e \in Denoms \ {d} : Put(base, d, pile[d])[e] = base[e] BY <4>2 DEF Put
      <4>5. Put(base, d, pile[d]) = [e \in Denoms |-> Put(base, d, pile[d])[e]] BY <4>2 DEF Put
      <4>6. \A e \in Denoms : Put(base, d, pile[d])[e] = pile[e]
        <5> TAKE e \in Denoms
        <5>1. CASE e = d BY <4>3, <5>1
        <5>2. CASE e # d
          <6>1. Put(base, d, pile[d])[e] = base[e] BY <4>4, <5>2
          <6>2. base[e] = pile[e] BY <3>3, <5>2
          <6> QED BY <6>1, <6>2
        <5> QED BY <5>1, <5>2
      <4> QED BY <4>1, <4>5, <4>6
    <3>5. base \in Within(purse, top)
      <4>1. ASSUME NEW e \in Denoms PROVE base[e] \in 0..(IF e \in 1..top THEN purse[e] ELSE 0)
        BY <1>1, <1>2, <3>1, <3>3
      <4> QED BY <3>3, <4>1 DEF Within
    <3>6. PICK option \in options : option.total = Total(base) /\ ~Better(Option(base), option)
      BY <3>5 DEF Level, Matched
    <3>7. PICK rest \in Within(purse, top) :
            /\ option = Option(rest) /\ option.money = rest /\ option.total = Total(rest) /\ rest \in Money
      BY <2>2
    <3>8. ASSUME NEW e \in Denoms, e >= d PROVE rest[e] = 0 /\ base[e] = 0
      <4>1. e \notin 1..top BY <3>8 DEF Denoms
      <4>2. rest[e] \in 0..0 /\ base[e] \in 0..0 BY <3>5, <3>7, <4>1 DEF Within
      <4> QED BY <4>2
    <3>9. d >= d BY DEF Denoms
    <3>10. rest[d] = 0 /\ base[d] = 0 BY <1>1, <3>8, <3>9
    <3>11. Total(Put(rest, d, pile[d])) = Total(rest) + Worth(d, pile[d])
      BY <1>1, <3>2, <3>7, <3>10, PutSums
    <3>12. Total(Put(base, d, pile[d])) = Total(base) + Worth(d, pile[d])
      BY <1>1, <3>2, <3>10, PutSums
    <3>13. ~Better(Option(Put(base, d, pile[d])), Option(Put(rest, d, pile[d])))
      BY <3>2, <3>6, <3>7, <3>8, BetterIsKept
    <3>14. Put(rest, d, pile[d]) \in piles BY <2>4, <3>2, <3>7
    <3> QED BY <3>4, <3>6, <3>7, <3>11, <3>12, <3>13, <3>14
  <2>8. \A option \in BestPerTotal[all] : \E pile \in Within(purse, d) : option = Option(pile)
    BY <2>3, <2>5, <2>6
  <2>9. ASSUME NEW pile \in Within(purse, d)
        PROVE  Matched(pile, BestPerTotal[all])
    <3>1. PICK other \in piles : Total(other) = Total(pile) /\ ~Better(Option(pile), Option(other)) BY <2>7
    <3>2. PICK option \in BestPerTotal[all] : option.total = Total(other) /\ ~Better(Option(other), option)
      BY <2>6 DEF Matched
    <3>3. PICK best \in Within(purse, d) : option = Option(best) BY <2>8
    <3>4. pile \in Money /\ other \in Money /\ best \in Money BY <2>3, CountsOfPile
    <3>5. ~Better(Option(pile), option) BY <3>1, <3>2, <3>3, <3>4, NotBetterTransitive
    <3> QED BY <3>1, <3>2, <3>5 DEF Matched
  <2> QED BY <2>1, <2>6, <2>8, <2>9 DEF Level
<1> QED BY <1>3, <1>4

-----------------------------------------------------------------------------
(* The options of a purse *)

LEMMA AllLevels ==
  ASSUME NEW purse \in Money, Valid(purse)
  PROVE  \E options : /\ Level(options, 500, purse)
                      /\ PaymentOptions(purse) = {option \in options : option.total > 0}
<1> DEFINE none     == {Option(NoMoney)}
           tens     == Extended(none, 10, purse)
           fifties  == Extended(tens, 50, purse)
           hundreds == Extended(fifties, 100, purse)
           twos     == Extended(hundreds, 200, purse)
           fives    == Extended(twos, 500, purse)
<1>1. PaymentOptions(purse) = {option \in fives : option.total > 0}
  BY Zenon DEF PaymentOptions
<1>2. Level(none, 0, purse)
  <2>1. NoMoney \in Money BY DEF NoMoney, Money
  <2>2. 1..0 = {} /\ 0..0 = {0} OBVIOUS
  <2>3. Within(purse, 0) = {NoMoney}
    <3>1. NoMoney \in Within(purse, 0) BY <2>1, <2>2 DEF Within, NoMoney
    <3>2. ASSUME NEW pile \in Within(purse, 0) PROVE pile = NoMoney
      <4>1. pile \in Money /\ \A e \in Denoms : pile[e] \in 0..0 BY <2>2 DEF Within
      <4>2. \A e \in Denoms : pile[e] = 0 BY <2>2, <4>1
      <4> QED BY <4>1, <4>2 DEF Money, NoMoney
    <3> QED BY <3>1, <3>2
  <2>4. Option(NoMoney).total = Total(NoMoney) BY <2>1, OptionFields
  <2>5. ~Better(Option(NoMoney), Option(NoMoney))
    <3>1. CardCount(NoMoney) \in Int BY <2>1, OptionFields
    <3>2. ~Larger(NoMoney, NoMoney) BY DEF Larger, NoMoney, Denoms
    <3> QED BY <2>1, <3>1, <3>2, BetterPile
  <2> QED BY <2>3, <2>4, <2>5 DEF Level, Matched
<1> HIDE DEF none
<1>3. Level(tens, 10, purse)
  <2>1. \A e \in Denoms : e < 10 => e <= 0 BY DEF Denoms
  <2> QED BY <1>2, <2>1, ExtendedLevel
<1> HIDE DEF tens
<1>4. Level(fifties, 50, purse)
  <2>1. \A e \in Denoms : e < 50 => e <= 10 BY DEF Denoms
  <2> QED BY <1>3, <2>1, ExtendedLevel
<1> HIDE DEF fifties
<1>5. Level(hundreds, 100, purse)
  <2>1. \A e \in Denoms : e < 100 => e <= 50 BY DEF Denoms
  <2> QED BY <1>4, <2>1, ExtendedLevel
<1> HIDE DEF hundreds
<1>6. Level(twos, 200, purse)
  <2>1. \A e \in Denoms : e < 200 => e <= 100 BY DEF Denoms
  <2> QED BY <1>5, <2>1, ExtendedLevel
<1> HIDE DEF twos
<1>7. Level(fives, 500, purse)
  <2>1. \A e \in Denoms : e < 500 => e <= 200 BY DEF Denoms
  <2> QED BY <1>6, <2>1, ExtendedLevel
<1> HIDE DEF fives
<1> QED BY <1>1, <1>7

LEMMA InAll ==
  ASSUME NEW purse \in Money, Valid(purse), NEW pile
  PROVE  pile \in Within(purse, 500) <=>
           /\ pile \in Money /\ pile[0] = 0 /\ pile[10] \in 0..purse[10] /\ pile[50] \in 0..purse[50]
           /\ pile[100] \in 0..purse[100] /\ pile[200] \in 0..purse[200] /\ pile[500] \in 0..purse[500]
<1>1. \A d \in Denoms : d \in 1..500 <=> d # 0 BY DEF Denoms
<1>2. 0..0 = {0} OBVIOUS
<1> QED BY <1>1, <1>2 DEF Within, Denoms

\* Only nothing comes to nothing.
LEMMA PositiveTotal ==
  ASSUME NEW purse \in Money, Valid(purse), NEW pile \in Within(purse, 500)
  PROVE  Total(pile) > 0 <=> pile # NoMoney
<1>1. pile \in Money /\ pile[0] = 0 BY InAll
<1>2. \A d \in Denoms : pile[d] \in Nat BY CountsOfPile
<1>3. pile = NoMoney <=> \A d \in Denoms : pile[d] = 0
  <2>1. pile = [d \in Denoms |-> pile[d]] BY <1>1 DEF Money
  <2> QED BY <2>1 DEF NoMoney
<1>4. /\ pile[10] \in Nat /\ pile[50] \in Nat /\ pile[100] \in Nat /\ pile[200] \in Nat /\ pile[500] \in Nat
      /\ (\A d \in Denoms : pile[d] = 0) <=>
           pile[10] = 0 /\ pile[50] = 0 /\ pile[100] = 0 /\ pile[200] = 0 /\ pile[500] = 0
  BY <1>1, <1>2 DEF Denoms
<1>5. Total(pile) > 0 <=> ~(pile[10] = 0 /\ pile[50] = 0 /\ pile[100] = 0 /\ pile[200] = 0 /\ pile[500] = 0)
  <2>1. PICK ten \in Nat : pile[10] = ten BY <1>4
  <2>2. PICK fifty \in Nat : pile[50] = fifty BY <1>4
  <2>3. PICK hundred \in Nat : pile[100] = hundred BY <1>4
  <2>4. PICK twoHundred \in Nat : pile[200] = twoHundred BY <1>4
  <2>5. PICK fiveHundred \in Nat : pile[500] = fiveHundred BY <1>4
  <2>6. Total(pile) = 10 * ten + 50 * fifty + 100 * hundred + 200 * twoHundred + 500 * fiveHundred
    BY <2>1, <2>2, <2>3, <2>4, <2>5 DEF Total
  <2> QED BY <2>1, <2>2, <2>3, <2>4, <2>5, <2>6
<1> QED BY <1>3, <1>4, <1>5

LEMMA PilesAreWithin ==
  ASSUME NEW purse \in Money, Valid(purse)
  PROVE  Piles(purse) = Within(purse, 500) \ {NoMoney}
<1>1. \A d \in Denoms : purse[d] \in Nat BY CountsOfPurse
<1>2. ASSUME NEW ten \in 0..purse[10], NEW fifty \in 0..purse[50], NEW hundred \in 0..purse[100],
             NEW twoHundred \in 0..purse[200], NEW fiveHundred \in 0..purse[500]
      PROVE  Cash(0, ten, fifty, hundred, twoHundred, fiveHundred) \in Within(purse, 500)
  <2> DEFINE pile == Cash(0, ten, fifty, hundred, twoHundred, fiveHundred)
  <2>1. pile = [d \in Denoms |-> pile[d]] BY DEF Cash
  <2>2. /\ pile[0] = 0 /\ pile[10] = ten /\ pile[50] = fifty
        /\ pile[100] = hundred /\ pile[200] = twoHundred /\ pile[500] = fiveHundred
    BY DEF Cash, Denoms
  <2> HIDE DEF pile
  <2>3. ten \in Int /\ fifty \in Int /\ hundred \in Int /\ twoHundred \in Int /\ fiveHundred \in Int
    BY <1>1 DEF Denoms
  <2>4. \A d \in Denoms : pile[d] \in Int BY <2>2, <2>3 DEF Denoms
  <2>5. pile \in Money BY <2>1, <2>4 DEF Money
  <2>6. pile \in Within(purse, 500) BY <1>2, <2>2, <2>5, InAll
  <2> QED BY <2>6 DEF pile
<1>3. ASSUME NEW pile \in Within(purse, 500)
      PROVE  /\ pile = Cash(0, pile[10], pile[50], pile[100], pile[200], pile[500])
             /\ pile[10] \in 0..purse[10] /\ pile[50] \in 0..purse[50] /\ pile[100] \in 0..purse[100]
             /\ pile[200] \in 0..purse[200] /\ pile[500] \in 0..purse[500]
  <2>1. /\ pile \in Money /\ pile[0] = 0 /\ pile[10] \in 0..purse[10] /\ pile[50] \in 0..purse[50]
        /\ pile[100] \in 0..purse[100] /\ pile[200] \in 0..purse[200] /\ pile[500] \in 0..purse[500]
    BY InAll
  <2> DEFINE cash == Cash(0, pile[10], pile[50], pile[100], pile[200], pile[500])
  <2>2. /\ cash = [d \in Denoms |-> cash[d]]
        /\ cash[0] = 0 /\ cash[10] = pile[10] /\ cash[50] = pile[50]
        /\ cash[100] = pile[100] /\ cash[200] = pile[200] /\ cash[500] = pile[500]
    BY DEF Cash, Denoms
  <2> HIDE DEF cash
  <2>3. \A d \in Denoms : cash[d] = pile[d] BY <2>1, <2>2 DEF Denoms
  <2>4. pile = [d \in Denoms |-> pile[d]] BY <2>1 DEF Money
  <2>5. pile = cash BY <2>2, <2>3, <2>4
  <2> QED BY <2>1, <2>5 DEF cash
<1> QED BY <1>2, <1>3 DEF Piles

\* For every purse: the options are piles of its own notes, for every pile that it can pay
\* there is an option of the same total that it does not beat, and one option per total.
THEOREM OptionsAreBestOfAll ==
  ASSUME NEW purse \in Money, Valid(purse)
  PROVE  OptionsAreBest(purse)
<1>1. PICK options : /\ Level(options, 500, purse)
                     /\ PaymentOptions(purse) = {option \in options : option.total > 0}
  BY AllLevels
<1>2. ASSUME NEW option \in PaymentOptions(purse) PROVE option.money \in Piles(purse)
  <2>1. option \in options /\ option.total > 0 BY <1>1
  <2>2. PICK pile \in Within(purse, 500) : option = Option(pile) BY <1>1, <2>1 DEF Level
  <2>3. option.money = pile /\ option.total = Total(pile) BY <2>2, OptionFields, CountsOfPile
  <2> QED BY <2>1, <2>3, PositiveTotal, PilesAreWithin
<1>3. ASSUME NEW pile \in Piles(purse)
      PROVE  \E option \in PaymentOptions(purse) : option.total = Total(pile) /\ ~Better(Option(pile), option)
  <2>1. pile \in Within(purse, 500) /\ pile # NoMoney BY PilesAreWithin
  <2>2. PICK option \in options : option.total = Total(pile) /\ ~Better(Option(pile), option)
    BY <1>1, <2>1 DEF Level, Matched
  <2>3. option.total > 0 BY <2>1, <2>2, PositiveTotal
  <2> QED BY <1>1, <2>2, <2>3
<1>4. \A option, other \in PaymentOptions(purse) : option.total = other.total => option = other
  BY <1>1 DEF Level
<1> QED BY <1>2, <1>3, <1>4, Zenon DEF OptionsAreBest
=============================================================================
