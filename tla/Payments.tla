------------------------------ MODULE Payments ------------------------------
(***************************************************************************)
(* How a computer player picks the notes to pay with: money.go of          *)
(* internal/strategy.  There is no change, so the totals a purse can pay   *)
(* have gaps; for each total it can pay the players use one pile, that of  *)
(* the fewest notes and, among those, with the most of the largest.        *)
(*                                                                         *)
(* A lookup that may fail returns the set of its result: empty for "not    *)
(* ok", of one pile otherwise.                                             *)
(***************************************************************************)
EXTENDS Banknotes, Sequences

Notes == <<10, 50, 100, 200, 500>>

NoteOf(denom) == [NoMoney EXCEPT ![denom] = 1]

Option(pile) == [money |-> pile, total |-> Total(pile), cards |-> CardCount(pile)]

\* betterPayment
Better(candidate, current) ==
  \/ candidate.cards < current.cards
  \/ /\ candidate.cards = current.cards
     /\ \E n \in 1..5 :
          /\ candidate.money[Notes[n]] > current.money[Notes[n]]
          /\ \A m \in (n + 1)..5 : candidate.money[Notes[m]] = current.money[Notes[m]]

PaymentOption == [money : Money, total : Nat, cards : Nat]

\* The map from totals to options: of those of one total the best survives.  (A function, so
\* that TLC evaluates its argument once.)
BestPerTotal[options \in SUBSET PaymentOption] ==
  LET best[rivals \in SUBSET options] ==
        CHOOSE option \in rivals : \A other \in rivals : ~Better(other, option)
  IN  {best[{option \in options : option.total = total}] : total \in {option.total : option \in options}}

\* A mistake for the checks to notice: the last note of a kind stays in the purse.
SlipCounts(denom, purse) == 0..(purse[denom] - 1)

Counts(denom, purse) == 0..purse[denom]

\* The options are extended by every number of the notes of a denomination ...
Extended(options, denom, purse) ==
  IF purse[denom] = 0 THEN options
  ELSE BestPerTotal[{Option([option.money EXCEPT ![denom] = count]) :
                       option \in options, count \in Counts(denom, purse)}]

\* ... one after the other, from the smallest.
PaymentOptions(purse) ==
  LET tens     == Extended({Option(NoMoney)}, 10, purse)
      fifties  == Extended(tens, 50, purse)
      hundreds == Extended(fifties, 100, purse)
      twos     == Extended(hundreds, 200, purse)
      fives    == Extended(twos, 500, purse)
  IN  {option \in fives : option.total > 0}

\* What paymentAtLeast and paymentAtMost find among the options of a purse.
PaymentAtLeast(options, minimum, maximum) ==
  LET enough == {option \in options : option.total \in minimum..maximum}
  IN  {option.money : option \in {o \in enough : \A other \in enough : o.total <= other.total}}

PaymentAtMost(options, maximum) ==
  LET within == {option \in options : option.total <= maximum}
  IN  {option.money : option \in {o \in within : \A other \in within : o.total >= other.total}}

\* Someone without a single card would offer a five hundred he does not have.
SmallestOffer(purse) ==
  IF \E d \in Denoms : purse[d] > 0
  THEN NoteOf(CHOOSE d \in Denoms : purse[d] > 0 /\ \A e \in Denoms : purse[e] > 0 => d <= e)
  ELSE NoteOf(500)

-----------------------------------------------------------------------------
(* What the options are meant to be, stated over all piles in the purse *)

Piles(purse) ==
  {Cash(0, ten, fifty, hundred, twoHundred, fiveHundred) :
     ten \in 0..purse[10], fifty \in 0..purse[50], hundred \in 0..purse[100],
     twoHundred \in 0..purse[200], fiveHundred \in 0..purse[500]} \ {NoMoney}

OptionsAreBest(purse) ==
  LET options == PaymentOptions(purse)
  IN  /\ \A option \in options : option.money \in Piles(purse)
      /\ \A pile \in Piles(purse) : \E option \in options :
           option.total = Total(pile) /\ ~Better(Option(pile), option)
      /\ \A option, other \in options : option.total = other.total => option = other
=============================================================================
