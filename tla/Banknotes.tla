----------------------------- MODULE Banknotes -----------------------------
(***************************************************************************)
(* Arithmetic on piles of money cards: the Money struct of                 *)
(* internal/game/money.go.  A pile counts its cards of each denomination.  *)
(* The counts are integers, not naturals: a payment arrives as JSON and    *)
(* may carry a negative count until valid() has looked at it.              *)
(***************************************************************************)
EXTENDS Integers

Denoms == {0, 10, 50, 100, 200, 500}

Money == [Denoms -> Int]

Cash(zero, ten, fifty, hundred, twoHundred, fiveHundred) ==
  [d \in Denoms |-> CASE d = 0   -> zero
                      [] d = 10  -> ten
                      [] d = 50  -> fifty
                      [] d = 100 -> hundred
                      [] d = 200 -> twoHundred
                      [] OTHER   -> fiveHundred]

NoMoney == [d \in Denoms |-> 0]

Valid(m) == \A d \in Denoms : m[d] >= 0

Contains(m, other) == \A d \in Denoms : m[d] >= other[d]

Add(m, other) == [d \in Denoms |-> m[d] + other[d]]

\* subtract answers an error unless CanSubtract; Minus is what it returns then.
CanSubtract(m, other) == Valid(other) /\ Contains(m, other)

Minus(m, other) == [d \in Denoms |-> m[d] - other[d]]

\* What k equal handouts of m amount to: the code subtracts one by one.
Times(k, m) == [d \in Denoms |-> k * m[d]]

Total(m) == 10 * m[10] + 50 * m[50] + 100 * m[100] + 200 * m[200] + 500 * m[500]

CardCount(m) == m[0] + m[10] + m[50] + m[100] + m[200] + m[500]

\* A mistake for the checks to notice: the zeros change hands too.
SlipWithoutZero(m) == m

WithoutZero(m) == [m EXCEPT ![0] = 0]
=============================================================================
