--------------------------------- MODULE Money ---------------------------------
(***************************************************************************)
(* Sums of money over a finite set of rows.  The database computes them as *)
(* func.coalesce(func.sum(amount), 0); here a row whose amount is n is     *)
(* split into the n unit coins 1..n, and a sum is the number of coins.     *)
(* The definition needs no recursion, so what a sum does when one row is   *)
(* added or removed can be proved (module MoneyLemmas).                    *)
(***************************************************************************)
EXTENDS Integers, FiniteSets

CONSTANT MaxAmount      \* bound: no single row carries more coins than this

ASSUME MaxAmountAssumption == MaxAmount \in Nat \ {0}

\* What a caller may ask for: the request schemas accept strictly positive
\* amounts only.
Amounts == 1 .. MaxAmount

\* The coins of the rows S, where amount[x] is the amount of row x.
Coins(S, amount) == {coin \in S \X Amounts : coin[2] <= amount[coin[1]]}

\* SELECT coalesce(sum(amount), 0) over the rows S.
SumOf(S, amount) == Cardinality(Coins(S, amount))
=============================================================================
