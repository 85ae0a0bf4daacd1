------------------------------ MODULE MoneyLemmas ------------------------------
(***************************************************************************)
(* What a sum of money does when rows are added, removed or kept; and how  *)
(* what holds of zero and passes to the next number holds of all.          *)
(***************************************************************************)
EXTENDS Money, FiniteSetTheorems, WellFoundedInduction, TLAPS

\* The coins of finitely many rows are finitely many.
LEMMA CoinsFinite ==
    ASSUME NEW S, IsFiniteSet(S), NEW amount
    PROVE  IsFiniteSet(Coins(S, amount))
<1>1. IsFiniteSet(Amounts)
  BY FS_Interval, MaxAmountAssumption DEF Amounts
<1>2. IsFiniteSet(S \X Amounts)
  BY <1>1, FS_Product
<1>3. Coins(S, amount) \subseteq S \X Amounts
  BY DEF Coins
<1> QED BY <1>2, <1>3, FS_Subset

\* A sum of money is a natural number.
LEMMA SumType ==
    ASSUME NEW S, IsFiniteSet(S), NEW amount
    PROVE  SumOf(S, amount) \in Nat
BY CoinsFinite, FS_CardinalityType DEF SumOf

\* A sum over no rows is zero.
LEMMA SumEmpty ==
    ASSUME NEW amount
    PROVE  SumOf({}, amount) = 0
<1>1. Coins({}, amount) = {}
  BY DEF Coins
<1> QED BY <1>1, FS_EmptySet DEF SumOf

\* More rows with the same amounts never sum to less.
LEMMA SumMonotone ==
    ASSUME NEW S, NEW T, IsFiniteSet(T), S \subseteq T, NEW f, NEW g,
           \A x \in S : f[x] = g[x]
    PROVE  SumOf(S, f) <= SumOf(T, g)
<1>1. Coins(S, f) \subseteq Coins(T, g)
  BY DEF Coins
<1>2. IsFiniteSet(Coins(T, g))
  BY CoinsFinite
<1> QED BY <1>1, <1>2, FS_Subset DEF SumOf

\* Sums over the same rows with the same amounts are equal.
LEMMA SumCongruent ==
    ASSUME NEW S, NEW f, NEW g, \A x \in S : f[x] = g[x]
    PROVE  SumOf(S, f) = SumOf(S, g)
<1>1. Coins(S, f) = Coins(S, g)
  BY DEF Coins
<1> QED BY <1>1 DEF SumOf

\* Adding one row adds its amount.
LEMMA SumAdd ==
    ASSUME NEW S, IsFiniteSet(S), NEW x, x \notin S, NEW f, f[x] \in Amounts
    PROVE  SumOf(S \cup {x}, f) = SumOf(S, f) + f[x]
<1> DEFINE n == f[x]
           New == {x} \X (1 .. n)
<1>0. n \in Nat /\ n <= MaxAmount
  BY MaxAmountAssumption DEF Amounts
<1>1. IsFiniteSet(1 .. n) /\ Cardinality(1 .. n) = n
  BY <1>0, FS_Interval
<1>2. IsFiniteSet({x}) /\ Cardinality({x}) = 1
  BY FS_Singleton
<1>3. IsFiniteSet(New) /\ Cardinality(New) = n
  <2>1. IsFiniteSet(New) /\ Cardinality(New) = Cardinality({x}) * Cardinality(1 .. n)
    <3> HIDE DEF n
    <3> QED BY <1>1, <1>2, FS_Product, Zenon DEF New
  <2>2. Cardinality(New) = 1 * n
    <3> HIDE DEF New, n
    <3> QED BY <1>1, <1>2, <2>1
  <2> HIDE DEF New, n
  <2> QED BY <1>0, <2>1, <2>2
<1>4. Coins(S \cup {x}, f) = Coins(S, f) \cup New
  <2>1. ASSUME NEW coin \in Coins(S \cup {x}, f) PROVE coin \in Coins(S, f) \cup New
    BY DEF Coins, Amounts
  <2>2. ASSUME NEW coin \in New PROVE coin \in Coins(S \cup {x}, f)
    BY <1>0, MaxAmountAssumption DEF Coins, Amounts
  <2>3. Coins(S, f) \subseteq Coins(S \cup {x}, f)
    BY DEF Coins
  <2> QED BY <2>1, <2>2, <2>3
<1>5. Coins(S, f) \cap New = {}
  BY DEF Coins
<1>6. IsFiniteSet(Coins(S, f)) /\ Cardinality(Coins(S, f)) \in Nat
  BY CoinsFinite, FS_CardinalityType
<1>7. Cardinality(Coins(S, f) \cup New) = Cardinality(Coins(S, f)) + Cardinality(New)
  <2>1. Cardinality(Coins(S, f) \cup New) =
          Cardinality(Coins(S, f)) + Cardinality(New) - Cardinality(Coins(S, f) \cap New)
    BY <1>3, <1>6, FS_Union
  <2>2. Cardinality(Coins(S, f) \cap New) = 0
    BY <1>5, FS_EmptySet
  <2> HIDE DEF New
  <2> QED BY <1>0, <1>3, <1>6, <2>1, <2>2
<1> QED BY <1>3, <1>4, <1>7 DEF SumOf

\* The sum over T stands to the sum over S as the presence of row x does: it is the
\* same, or more or less by the amount of x.
MovedBy(S, f, T, g, x, a) ==
    /\ SumOf(S, f) \in Nat /\ SumOf(T, g) \in Nat
    /\ (x \in S <=> x \in T) => SumOf(T, g) = SumOf(S, f)
    /\ x \notin S /\ x \in T => SumOf(T, g) = SumOf(S, f) + a
    /\ x \in S /\ x \notin T => SumOf(S, f) = SumOf(T, g) + a

\* That is so when the rows differ in x at most and the others keep their amounts.
LEMMA SumMoves ==
    ASSUME NEW S, NEW T, IsFiniteSet(S), IsFiniteSet(T), NEW x, NEW f, NEW g, NEW a \in Amounts,
           S \ {x} = T \ {x}, \A y \in S \ {x} : f[y] = g[y],
           x \in S => f[x] = a, x \in T => g[x] = a
    PROVE  MovedBy(S, f, T, g, x, a)
<1> DEFINE R == S \ {x}
<1>1. IsFiniteSet(R) /\ x \notin R
  <2>1. R \subseteq S
    OBVIOUS
  <2> QED BY <2>1, FS_Subset
<1>2. SumOf(R, f) = SumOf(R, g)
  <2>1. \A y \in R : f[y] = g[y]
    OBVIOUS
  <2> HIDE DEF R
  <2> QED BY <2>1, SumCongruent
<1>3. SumOf(R, f) \in Nat
  BY <1>1, SumType
<1>4. /\ x \notin S => S = R
      /\ x \notin T => T = R
      /\ x \in S => S = R \cup {x}
      /\ x \in T => T = R \cup {x}
  OBVIOUS
<1> HIDE DEF R
<1>5. x \in S => SumOf(S, f) = SumOf(R, f) + a
  BY <1>1, <1>4, SumAdd
<1>6. x \in T => SumOf(T, g) = SumOf(R, f) + a
  BY <1>1, <1>2, <1>4, SumAdd
<1>7. (x \notin S => SumOf(S, f) = SumOf(R, f)) /\ (x \notin T => SumOf(T, g) = SumOf(R, f))
  BY <1>2, <1>4
<1>8. a \in Nat
  BY MaxAmountAssumption DEF Amounts
<1>9. SumOf(S, f) \in Nat /\ SumOf(T, g) \in Nat
  BY SumType
<1> QED BY <1>3, <1>5, <1>6, <1>7, <1>8, <1>9 DEF MovedBy

\* A row counts with its amount, and with no more than a sum can see of it.
LEMMA SumAddAny ==
    ASSUME NEW S, IsFiniteSet(S), NEW x, x \notin S, NEW f, f[x] \in Nat
    PROVE  SumOf(S \cup {x}, f) = SumOf(S, f) + (IF f[x] <= MaxAmount THEN f[x] ELSE MaxAmount)
<1>1. CASE f[x] \in Amounts
  BY <1>1, SumAdd DEF Amounts
<1>2. CASE f[x] = 0
  <2>1. Coins(S \cup {x}, f) = Coins(S, f)
    BY <1>2 DEF Coins, Amounts
  <2>2. SumOf(S, f) \in Nat
    BY SumType
  <2> QED BY <1>2, <2>1, <2>2, MaxAmountAssumption DEF SumOf
<1>3. CASE f[x] > MaxAmount
  <2> DEFINE g == [y \in S \cup {x} |-> IF y = x THEN MaxAmount ELSE f[y]]
  <2>1. \A y \in S \cup {x}, n \in Amounts : n <= f[y] <=> n <= g[y]
    BY <1>3, MaxAmountAssumption DEF Amounts
  <2>2. (\A y \in S : f[y] = g[y]) /\ g[x] = MaxAmount /\ MaxAmount \in Amounts
    BY MaxAmountAssumption DEF Amounts
  <2> HIDE DEF g
  <2>3. Coins(S \cup {x}, f) = Coins(S \cup {x}, g)
    BY <2>1, Zenon DEF Coins
  <2>4. SumOf(S \cup {x}, g) = SumOf(S, g) + MaxAmount
    BY <2>2, SumAdd
  <2>5. SumOf(S, f) = SumOf(S, g)
    BY <2>2, SumCongruent
  <2>6. SumOf(S \cup {x}, f) = SumOf(S \cup {x}, g)
    BY <2>3 DEF SumOf
  <2>7. ~(f[x] <= MaxAmount)
    BY <1>3, MaxAmountAssumption
  <2> QED BY <2>4, <2>5, <2>6, <2>7
<1>4. f[x] \in Amounts \/ f[x] = 0 \/ f[x] > MaxAmount
  BY MaxAmountAssumption DEF Amounts
<1> QED BY <1>1, <1>2, <1>3, <1>4

\* A set of naturals that holds zero and every successor holds them all.
LEMMA NatSetInduction ==
    ASSUME NEW S, 0 \in S, \A n \in Nat : n \in S => n + 1 \in S
    PROVE  \A n \in Nat : n \in S
<1> DEFINE T == Nat \ S
<1>1. SUFFICES ASSUME T # {} PROVE FALSE
  OBVIOUS
<1>2. IsWellFoundedOn(OpToRel(<, Nat), Nat)
  BY NatLessThanWellFounded
<1>3. PICK x \in T : \A y \in T : ~ (<<y, x>> \in OpToRel(<, Nat))
  BY <1>1, <1>2, WFMin
<1>4. \A y \in T : ~(y < x)
  BY <1>3 DEF OpToRel
<1>5. x # 0 /\ x - 1 \in Nat /\ x - 1 < x /\ (x - 1) + 1 = x
  BY SMT
<1>6. x - 1 \in S
  BY <1>4, <1>5
<1> QED BY <1>5, <1>6
=============================================================================
