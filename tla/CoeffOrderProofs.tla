-------------------------- MODULE CoeffOrderProofs --------------------------
(***************************************************************************)
(* The order of lengths and characters is that of the numbers, for texts   *)
(* without leading zeros of any length and in any base, and so the table   *)
(* of texts is a queue of numbers.                                         *)
(***************************************************************************)
EXTENDS CoeffOrder, WellFoundedInduction, TLAPS

USE OrderAssumption

-----------------------------------------------------------------------------
(***************************************************************************)
(* Induction, in the form of a least element.                              *)
(***************************************************************************)

\* Each set of naturals that is not empty has a least element.
LEMMA LeastOfNaturals ==
    ASSUME NEW S \in SUBSET Nat, S # {}
    PROVE  \E x \in S : \A y \in S : x <= y
<1> DEFINE R == OpToRel(<, Nat)
<1>1. IsWellFoundedOn(R, Nat)
  BY NatLessThanWellFounded
<1>2. \A x, y \in Nat : <<x, y>> \in R <=> x < y
  BY DEF OpToRel
<1> HIDE DEF R
<1>3. PICK x \in S : \A y \in S : <<y, x>> \notin R
  BY <1>1, WFMin
<1>4. \A y \in S : ~(y < x)
  BY <1>2, <1>3, Zenon
<1> QED BY <1>4

\* A set that has lo and with each number the next has all of lo .. hi.
LEMMA InductionFrom ==
    ASSUME NEW lo \in Nat, NEW hi \in Nat, NEW S, lo \in S,
           \A k \in lo .. hi - 1 : k \in S => k + 1 \in S
    PROVE  lo .. hi \subseteq S
<1> SUFFICES ASSUME (lo .. hi) \ S # {} PROVE FALSE
  OBVIOUS
<1>1. (lo .. hi) \ S \in SUBSET Nat
  OBVIOUS
<1>2. PICK x \in (lo .. hi) \ S : \A y \in (lo .. hi) \ S : x <= y
  BY <1>1, LeastOfNaturals, Zenon
<1>3. x # lo /\ x - 1 \in lo .. hi - 1
  BY <1>2
<1>4. x - 1 \in S
  BY <1>2, <1>3
<1> QED BY <1>2, <1>3, <1>4

-----------------------------------------------------------------------------
(***************************************************************************)
(* The number of a text, digit by digit.                                   *)
(***************************************************************************)

\* f[i] is the number that the first i digits of c name.
CountsUpTo(c, n, f) ==
    f = [i \in 0 .. n |-> IF i = 0 THEN 0 ELSE f[i - 1] * Base + c[i]]

Counts(c, f) ==
    /\ f[0] = 0
    /\ \A i \in 0 .. Len(c) : f[i] \in Nat
    /\ \A i \in 1 .. Len(c) : f[i] = f[i - 1] * Base + c[i]
    /\ f[Len(c)] = Value(c)

\* The function in Value exists: it can be extended by a digit.
LEMMA CountsExist ==
    ASSUME NEW c \in Seq(Digits)
    PROVE  \E f : CountsUpTo(c, Len(c), f)
<1> DEFINE n == Len(c)
           Good == {m \in 0 .. n : \E f : CountsUpTo(c, m, f)}
<1>0. n \in Nat
  OBVIOUS
<1>1. 0 \in Good
  <2>1. CountsUpTo(c, 0, [i \in 0 .. 0 |-> 0])
    BY DEF CountsUpTo
  <2> QED BY <2>1, <1>0
<1>2. ASSUME NEW k \in 0 .. n - 1, k \in Good PROVE k + 1 \in Good
  <2>1. PICK f : CountsUpTo(c, k, f)
    BY <1>2
  <2> DEFINE g == [i \in 0 .. k + 1 |-> IF i <= k THEN f[i] ELSE f[k] * Base + c[i]]
  <2>2. ASSUME NEW i \in 0 .. k + 1
        PROVE  g[i] = IF i = 0 THEN 0 ELSE g[i - 1] * Base + c[i]
    <3>0. k \in Nat /\ i \in Nat
      BY <1>0
    <3>1. ASSUME NEW j \in 0 .. k
          PROVE  f[j] = IF j = 0 THEN 0 ELSE f[j - 1] * Base + c[j]
      BY <2>1, Zenon DEF CountsUpTo
    <3>2. CASE i = k + 1
      <4>1. i \in 0 .. k + 1 /\ k \in 0 .. k + 1 /\ ~(i <= k) /\ i - 1 = k /\ i # 0 /\ k <= k
        BY <3>0, <3>2
      <4>2. g[i] = f[k] * Base + c[i]
        BY <4>1, Zenon
      <4>3. g[i - 1] = f[k]
        BY <4>1, Zenon
      <4> HIDE DEF g
      <4> QED BY <4>1, <4>2, <4>3
    <3>3. CASE i # k + 1
      <4>1. i \in 0 .. k /\ g[i] = f[i] /\ i \in Nat
        BY <3>0, <3>3
      <4>2. i # 0 => g[i - 1] = f[i - 1]
        BY <3>0, <4>1
      <4> HIDE DEF g
      <4> QED BY <3>1, <4>1, <4>2
    <3> QED BY <3>2, <3>3
  <2>3. CountsUpTo(c, k + 1, g)
    BY <2>2 DEF CountsUpTo
  <2> HIDE DEF g
  <2>4. k + 1 \in 0 .. n
    BY <1>0
  <2> QED BY <2>3, <2>4
<1> HIDE DEF Good
<1>3. 0 .. n \subseteq Good
  BY <1>0, <1>1, <1>2, InductionFrom
<1>4. n \in Good
  BY <1>0, <1>3
<1> QED BY <1>4 DEF Good

\* The digits of a number, one after the other.
LEMMA ValueUnfolds ==
    ASSUME NEW c \in Seq(Digits)
    PROVE  \E f : Counts(c, f)
<1> DEFINE upTo[i \in 0 .. Len(c)] == IF i = 0 THEN 0 ELSE upTo[i - 1] * Base + c[i]
<1>1. upTo = CHOOSE f : CountsUpTo(c, Len(c), f)
  BY DEF CountsUpTo
<1>2. CountsUpTo(c, Len(c), upTo)
  <2> HIDE DEF upTo
  <2> QED BY <1>1, CountsExist, Zenon
<1>3. Value(c) = upTo[Len(c)]
  BY DEF Value
<1> HIDE DEF upTo
<1>4. ASSUME NEW i \in 0 .. Len(c)
      PROVE  upTo[i] = IF i = 0 THEN 0 ELSE upTo[i - 1] * Base + c[i]
  BY <1>2, Zenon DEF CountsUpTo
<1>5. upTo[0] = 0 /\ \A i \in 1 .. Len(c) : upTo[i] = upTo[i - 1] * Base + c[i]
  BY <1>4
<1> DEFINE Good == {i \in 0 .. Len(c) : upTo[i] \in Nat}
<1>6. 0 \in Good
  BY <1>5
<1>7. ASSUME NEW k \in 0 .. Len(c) - 1, k \in Good PROVE k + 1 \in Good
  <2>1. k + 1 \in 1 .. Len(c) /\ (k + 1) - 1 = k
    OBVIOUS
  <2>2. upTo[k + 1] = upTo[k] * Base + c[k + 1]
    BY <1>5, <2>1
  <2>3. c[k + 1] \in Nat /\ upTo[k] * Base \in Nat
    BY <1>7, <2>1 DEF Digits
  <2> QED BY <2>1, <2>2, <2>3
<1> HIDE DEF Good
<1>8. 0 .. Len(c) \subseteq Good
  BY <1>6, <1>7, InductionFrom
<1> QED BY <1>3, <1>5, <1>8 DEF Counts, Good

-----------------------------------------------------------------------------
(***************************************************************************)
(* The order of two texts is that of their numbers.                        *)
(***************************************************************************)

\* A number that is greater before the last digit is greater with it.
LEMMA NextDigit ==
    ASSUME NEW a \in Nat, NEW b \in Nat, NEW x \in Digits, NEW y \in Digits, a < b
    PROVE  a * Base + x < b * Base + y
<1>1. PICK k \in Nat : b = a + 1 + k
  <2>1. b - a - 1 \in Nat /\ b = a + 1 + (b - a - 1)
    OBVIOUS
  <2> QED BY <2>1
<1>2. k * Base \in Nat /\ a * Base \in Nat
  OBVIOUS
<1>3. b * Base = a * Base + Base + k * Base
  BY <1>1
<1>4. x < Base /\ x \in Int /\ y \in Nat
  BY DEF Digits
<1> QED BY <1>2, <1>3, <1>4

\* Equal digits make equal numbers.
LEMMA SameDigits ==
    ASSUME NEW c \in Seq(Digits), NEW d \in Seq(Digits), NEW f, NEW g, Counts(c, f), Counts(d, g),
           NEW n \in Nat, n <= Len(c), n <= Len(d), \A j \in 1 .. n : c[j] = d[j]
    PROVE  f[n] = g[n]
<1> DEFINE Good == {i \in 0 .. n : f[i] = g[i]}
<1>1. 0 \in Good
  BY DEF Counts
<1>2. ASSUME NEW k \in 0 .. n - 1, k \in Good PROVE k + 1 \in Good
  <2>1. /\ k + 1 \in 1 .. n /\ k + 1 \in 1 .. Len(c) /\ k + 1 \in 1 .. Len(d)
        /\ (k + 1) - 1 = k
    OBVIOUS
  <2>2. f[k + 1] = f[k] * Base + c[k + 1] /\ g[k + 1] = g[k] * Base + d[k + 1]
    BY <2>1 DEF Counts
  <2> QED BY <1>2, <2>1, <2>2
<1> HIDE DEF Good
<1>3. 0 .. n \subseteq Good
  BY <1>1, <1>2, InductionFrom
<1> QED BY <1>3 DEF Good

\* A number that is less when the digits that remain are as many is less at the end.
LEMMA LessToTheEnd ==
    ASSUME NEW c \in Seq(Digits), NEW d \in Seq(Digits), NEW f, NEW g, Counts(c, f), Counts(d, g),
           Len(c) <= Len(d),
           NEW i \in 0 .. Len(c), f[i] < g[i + Len(d) - Len(c)]
    PROVE  Value(c) < Value(d)
<1> DEFINE n == Len(c)
           m == Len(d) - Len(c)
           Good == {k \in i .. n : f[k] < g[k + m]}
<1>0. n \in Nat /\ m \in Nat /\ i \in Nat /\ n + m = Len(d)
  OBVIOUS
<1>1. i \in Good
  <2>1. i + m = i + Len(d) - Len(c) /\ i \in i .. n
    BY <1>0
  <2> QED BY <2>1
<1>2. ASSUME NEW k \in i .. n - 1, k \in Good PROVE k + 1 \in Good
  <2>1. /\ k + 1 \in i .. n /\ k + 1 \in 1 .. Len(c) /\ k + 1 + m \in 1 .. Len(d)
        /\ (k + 1) - 1 = k /\ (k + 1 + m) - 1 = k + m
        /\ k \in 0 .. Len(c) /\ k + m \in 0 .. Len(d)
    BY <1>0
  <2> HIDE DEF m
  <2>2. f[k + 1] = f[k] * Base + c[k + 1] /\ g[k + 1 + m] = g[k + m] * Base + d[k + 1 + m]
    BY <2>1 DEF Counts
  <2>3. f[k] \in Nat /\ g[k + m] \in Nat
    BY <2>1 DEF Counts
  <2>4. c[k + 1] \in Digits /\ d[k + 1 + m] \in Digits
    BY <2>1
  <2>5. f[k] < g[k + m]
    BY <1>2
  <2>6. f[k + 1] < g[k + 1 + m]
    BY <2>2, <2>3, <2>4, <2>5, NextDigit
  <2> QED BY <2>1, <2>6
<1> HIDE DEF Good
<1>3. i .. n \subseteq Good
  BY <1>0, <1>1, <1>2, InductionFrom
<1>4. n \in Good
  BY <1>0, <1>3
<1>5. f[n] < g[n + m]
  BY <1>4 DEF Good
<1> QED BY <1>0, <1>5 DEF Counts

\* The first digits of a text without leading zeros name a number of at least one.
LEMMA PositiveFromTheFirst ==
    ASSUME NEW d \in Seq(Digits), NEW g, Counts(d, g), Canonical(d), NEW n \in 1 .. Len(d)
    PROVE  g[n] >= 1
<1> DEFINE Good == {i \in 1 .. n : g[i] >= 1}
<1>1. 1 \in Good
  <2>1. 1 \in 1 .. Len(d) /\ 1 - 1 = 0
    OBVIOUS
  <2>2. g[1] = g[0] * Base + d[1] /\ g[0] = 0 /\ d[1] \in Nat /\ d[1] # 0
    BY <2>1 DEF Counts, Canonical, Digits
  <2> QED BY <2>2
<1>2. ASSUME NEW k \in 1 .. n - 1, k \in Good PROVE k + 1 \in Good
  <2>1. k + 1 \in 1 .. n /\ k + 1 \in 1 .. Len(d) /\ (k + 1) - 1 = k /\ k \in 0 .. Len(d)
    OBVIOUS
  <2>2. g[k + 1] = g[k] * Base + d[k + 1] /\ d[k + 1] \in Nat /\ g[k] \in Nat
    <3>1. g[k + 1] = g[(k + 1) - 1] * Base + d[k + 1] /\ g[k] \in Nat
      BY <2>1 DEF Counts
    <3>2. d[k + 1] \in Nat
      BY <2>1 DEF Digits
    <3> QED BY <2>1, <3>1, <3>2
  <2>3. g[k] * Base >= 1
    <3>1. g[k] >= 1 /\ g[k] \in Nat
      BY <1>2, <2>2
    <3>2. PICK x \in Nat : g[k] = 1 + x
      <4>1. g[k] - 1 \in Nat /\ g[k] = 1 + (g[k] - 1)
        BY <3>1
      <4> QED BY <4>1
    <3>3. (1 + x) * Base = Base + x * Base /\ x * Base \in Nat
      OBVIOUS
    <3> QED BY <3>2, <3>3
  <2>4. g[k] * Base \in Nat
    BY <2>2
  <2> QED BY <2>1, <2>2, <2>3, <2>4
<1> HIDE DEF Good
<1>3. 1 .. n \subseteq Good
  <2>1. 1 \in Nat /\ n \in Nat /\ 1 <= n
    OBVIOUS
  <2> QED BY <1>1, <1>2, <2>1, InductionFrom
<1>4. n \in Good
  BY <1>3
<1> QED BY <1>4 DEF Good

\* A text names a number.
LEMMA ValueNatural ==
    ASSUME NEW c \in Seq(Digits)
    PROVE  Value(c) \in Nat
<1>1. PICK f : Counts(c, f)
  BY ValueUnfolds
<1> QED BY <1>1 DEF Counts

\* A text without leading zeros names a positive one.
LEMMA ValuePositive ==
    ASSUME NEW c \in Seq(Digits), Canonical(c)
    PROVE  Value(c) \in Nat \ {0}
<1>1. PICK f : Counts(c, f)
  BY ValueUnfolds
<1>2. Len(c) \in 1 .. Len(c)
  BY DEF Canonical
<1>3. f[Len(c)] >= 1
  BY <1>1, <1>2, PositiveFromTheFirst
<1> QED BY <1>1, <1>3, ValueNatural DEF Counts

\* What comes before a text without leading zeros is a lesser number.
LEMMA BeforeIsLess ==
    ASSUME NEW c \in Seq(Digits), NEW d \in Seq(Digits), Canonical(d), ComesFirst(c, d)
    PROVE  Value(c) < Value(d)
<1>1. PICK f : Counts(c, f)
  BY ValueUnfolds
<1>2. PICK g : Counts(d, g)
  BY ValueUnfolds
<1>3. CASE Len(c) < Len(d)
  <2> DEFINE n == Len(d) - Len(c)
  <2>1. n \in 1 .. Len(d) /\ 0 \in 0 .. Len(c) /\ 0 + Len(d) - Len(c) = n /\ Len(c) <= Len(d)
    BY <1>3
  <2>2. g[n] >= 1 /\ g[n] \in Nat
    <3>1. n \in 0 .. Len(d)
      BY <2>1
    <3> HIDE DEF n
    <3> QED BY <1>2, <2>1, <3>1, PositiveFromTheFirst DEF Counts
  <2>3. f[0] < g[0 + Len(d) - Len(c)]
    BY <1>1, <2>1, <2>2 DEF Counts
  <2> QED BY <1>1, <1>2, <2>1, <2>3, LessToTheEnd
<1>4. CASE Len(c) = Len(d) /\ TextBefore(c, d)
  <2>1. PICK k \in 1 .. Len(d) : /\ \A j \in 1 .. k - 1 : c[j] = d[j]
                                 /\ c[k] < d[k]
    BY <1>4 DEF TextBefore
  <2>2. k - 1 \in Nat /\ k - 1 <= Len(c) /\ k - 1 <= Len(d) /\ k \in 1 .. Len(c) /\ k \in 0 .. Len(c)
    BY <1>4
  <2>3. f[k - 1] = g[k - 1]
    BY <1>1, <1>2, <2>1, <2>2, SameDigits
  <2>4. f[k] = f[k - 1] * Base + c[k] /\ g[k] = g[k - 1] * Base + d[k]
    <3>1. f[k] = f[k - 1] * Base + c[k]
      BY <1>1, <2>2 DEF Counts
    <3>2. g[k] = g[k - 1] * Base + d[k]
      BY <1>2 DEF Counts
    <3> QED BY <3>1, <3>2
  <2>5. f[k - 1] \in Nat /\ c[k] \in Int /\ d[k] \in Int
    <3>1. k - 1 \in 0 .. Len(c)
      BY <2>2
    <3>2. f[k - 1] \in Nat
      BY <1>1, <3>1 DEF Counts
    <3>3. c[k] \in Int /\ d[k] \in Int
      BY <2>2 DEF Digits
    <3> QED BY <3>2, <3>3
  <2>6. f[k] < g[k]
    <3>1. f[k - 1] * Base \in Nat
      BY <2>5
    <3> QED BY <2>1, <2>3, <2>4, <2>5, <3>1
  <2>7. k + Len(d) - Len(c) = k /\ Len(c) <= Len(d)
    BY <1>4
  <2> QED BY <1>1, <1>2, <2>2, <2>6, <2>7, LessToTheEnd
<1> QED BY <1>3, <1>4 DEF ComesFirst

\* Of two texts one comes before the other.
LEMMA BeforeIsTotal ==
    ASSUME NEW c \in Seq(Digits), NEW d \in Seq(Digits), c # d
    PROVE  ComesFirst(c, d) \/ ComesFirst(d, c)
<1> SUFFICES ASSUME Len(c) = Len(d) PROVE TextBefore(c, d) \/ TextBefore(d, c)
  BY DEF ComesFirst
<1> DEFINE Differ == {i \in 1 .. Len(c) : c[i] # d[i]}
<1>1. Differ # {} /\ Differ \in SUBSET Nat
  OBVIOUS
<1>2. PICK k \in Differ : \A j \in Differ : k <= j
  <2> HIDE DEF Differ
  <2> QED BY <1>1, LeastOfNaturals
<1>3. /\ k \in DOMAIN c /\ k \in DOMAIN d /\ k \in 1 .. Len(c) /\ k \in 1 .. Len(d)
      /\ c[k] # d[k] /\ c[k] \in Int /\ d[k] \in Int
  BY DEF Digits
<1>4. \A j \in 1 .. k - 1 : j \in DOMAIN c /\ j \in DOMAIN d /\ c[j] = d[j]
  BY <1>2, <1>3
<1>5. c[k] < d[k] \/ d[k] < c[k]
  BY <1>3
<1> HIDE DEF Differ
<1> QED BY <1>3, <1>4, <1>5 DEF TextBefore

\* Without leading zeros, the order that the database makes is that of the numbers.
THEOREM OrderIsNumeric ==
    ASSUME NEW c \in Seq(Digits), NEW d \in Seq(Digits), Canonical(c), Canonical(d)
    PROVE  ComesFirst(c, d) <=> Value(c) < Value(d)
<1>1. Value(c) \in Nat /\ Value(d) \in Nat
  BY ValueNatural
<1>2. CASE c = d
  <2>1. ComesFirst(c, d) => Value(c) < Value(d)
    BY BeforeIsLess
  <2> QED BY <1>1, <1>2, <2>1
<1>3. CASE c # d
  <2>1. ComesFirst(c, d) => Value(c) < Value(d)
    BY BeforeIsLess
  <2>2. ComesFirst(d, c) => Value(d) < Value(c)
    BY BeforeIsLess
  <2> QED BY <1>1, <1>3, <2>1, <2>2, BeforeIsTotal
<1> QED BY <1>2, <1>3

\* One text for each number.
LEMMA OneTextPerNumber ==
    ASSUME NEW c \in Seq(Digits), NEW d \in Seq(Digits), Canonical(c), Canonical(d),
           Value(c) = Value(d)
    PROVE  c = d
<1>1. Value(c) \in Nat /\ ~(Value(c) < Value(d)) /\ ~(Value(d) < Value(c))
  BY ValueNatural
<1> QED BY <1>1, OrderIsNumeric, BeforeIsTotal

-----------------------------------------------------------------------------
(***************************************************************************)
(* The table holds listed texts, and is the queue of their numbers.        *)
(***************************************************************************)
NoLeadingZeros == \A c \in Written : Canonical(c)

RowsListed == rows \subseteq Written /\ available \subseteq rows /\ leased \subseteq rows

LEMMA RowsListedAlways == OrderSpec => []RowsListed
<1>1. OrderInit => RowsListed
  BY DEF OrderInit, RowsListed
<1>2. RowsListed /\ [OrderNext]_orderVars => RowsListed'
  <2> SUFFICES ASSUME RowsListed, [OrderNext]_orderVars PROVE RowsListed'
    OBVIOUS
  <2> USE DEF RowsListed
  <2>1. ASSUME NEW list \in SUBSET Written, Insert(list) PROVE RowsListed'
    BY <2>1 DEF Insert
  <2>2. CASE LeaseFirst
    BY <2>2 DEF LeaseFirst
  <2>3. ASSUME NEW c \in leased, Requeue(c) PROVE RowsListed'
    BY <2>3 DEF Requeue
  <2>4. ASSUME NEW c \in leased, Settle(c) PROVE RowsListed'
    BY <2>4 DEF Settle
  <2>5. CASE UNCHANGED orderVars
    BY <2>5 DEF orderVars
  <2> QED BY <2>1, <2>2, <2>3, <2>4, <2>5 DEF OrderNext
<1> QED BY <1>1, <1>2, PTL DEF OrderSpec

\* A listed text names one positive number, which no other listed text names.
LEMMA NumbersOfListed ==
    ASSUME NoLeadingZeros
    PROVE  /\ \A c \in Written : Value(c) \in Nat \ {0}
           /\ \A c, d \in Written : Value(c) = Value(d) => c = d
           /\ \A c, d \in Written : ComesFirst(c, d) => Value(c) <= Value(d)
<1>1. \A c \in Written : c \in Seq(Digits) /\ Canonical(c)
  BY DEF NoLeadingZeros
<1>2. \A c \in Written : Value(c) \in Nat \ {0}
  BY <1>1, ValuePositive
<1>3. \A c, d \in Written : Value(c) = Value(d) => c = d
  BY <1>1, OneTextPerNumber
<1>4. \A c, d \in Written : ComesFirst(c, d) => Value(c) < Value(d)
  BY <1>1, BeforeIsLess
<1>5. \A c, d \in Written : ComesFirst(c, d) => Value(c) <= Value(d)
  BY <1>2, <1>4
<1> QED BY <1>2, <1>3, <1>5

\* While no list has a text with leading zeros, a coefficient has one row, however
\* often and in how many lists it is inserted.
THEOREM OneRowPerNumberAlways == NoLeadingZeros => (OrderSpec => []OneRowPerNumber)
<1> SUFFICES ASSUME NoLeadingZeros PROVE OrderSpec => []OneRowPerNumber
  OBVIOUS
<1>1. RowsListed => OneRowPerNumber
  BY NumbersOfListed DEF RowsListed, OneRowPerNumber
<1> QED BY <1>1, RowsListedAlways, PTL

\* While no list has a text with leading zeros, each lease takes the lowest number.
LEMMA LowestTaken ==
    ASSUME NoLeadingZeros, RowsListed, [OrderNext]_orderVars
    PROVE  LowestStep
<1> SUFFICES ASSUME NEW c \in available \ available', NEW d \in available
             PROVE  Value(c) <= Value(d)
  BY DEF LowestStep
<1>1. c \in Written /\ d \in Written
  BY DEF RowsListed
<1>2. LeaseFirst
  BY DEF OrderNext, Insert, Requeue, Settle, orderVars
<1>3. c = d \/ ComesFirst(c, d)
  BY <1>2 DEF LeaseFirst
<1>4. Value(c) <= Value(c)
  BY <1>1, NumbersOfListed
<1> QED BY <1>1, <1>3, <1>4, NumbersOfListed

THEOREM LowestLeasedAlways == NoLeadingZeros => (OrderSpec => LowestLeased)
<1> SUFFICES ASSUME NoLeadingZeros PROVE OrderSpec => LowestLeased
  OBVIOUS
<1>1. RowsListed /\ [OrderNext]_orderVars => [LowestStep]_orderVars
  BY LowestTaken
<1> QED BY <1>1, RowsListedAlways, PTL DEF OrderSpec, LowestLeased

\* The numbers of the texts of S but c.
LEMMA ValuesWithout ==
    ASSUME NoLeadingZeros, NEW S \in SUBSET Written, NEW c \in S
    PROVE  Values(S \ {c}) = Values(S) \ {Value(c)}
BY NumbersOfListed DEF Values

LEMMA ValuesWith ==
    ASSUME NEW S, NEW T
    PROVE  Values(S \cup T) = Values(S) \cup Values(T)
BY DEF Values

LEMMA ValuesNotIn ==
    ASSUME NoLeadingZeros, NEW S \in SUBSET Written, NEW T \in SUBSET Written
    PROVE  Values(S \ T) = Values(S) \ Values(T)
BY NumbersOfListed DEF Values

\* An insert lists, a lease takes the lowest, a row that is available again returns.
LEMMA QueueStep ==
    ASSUME NoLeadingZeros, RowsListed, [OrderNext]_orderVars
    PROVE  [Queue!Next]_(Queue!vars)
<1> USE DEF RowsListed
<1>1. ASSUME NEW list \in SUBSET Written, Insert(list) PROVE Queue!List
  <2>1. /\ Values(rows)' = Values(rows) \cup Values(list)
        /\ Values(available)' = Values(available) \cup Values(list \ rows)
    BY <1>1, ValuesWith DEF Insert, Values
  <2>2. Values(list \ rows) = Values(list) \ Values(rows)
    BY ValuesNotIn
  <2>3. Values(rows) \cup Values(list) \in SUBSET (Nat \ {0})
    BY NumbersOfListed DEF Values
  <2>4. Values(list) \ Values(rows) = (Values(rows) \cup Values(list)) \ Values(rows)
    OBVIOUS
  <2> QED BY <2>1, <2>2, <2>3, <2>4 DEF Queue!List
<1>2. CASE LeaseFirst
  <2>1. PICK c \in available : /\ \A d \in available \ {c} : ComesFirst(c, d)
                               /\ available' = available \ {c}
                               /\ UNCHANGED rows
    BY <1>2 DEF LeaseFirst
  <2>2. Values(available)' = Values(available) \ {Value(c)} /\ UNCHANGED Values(rows)
    BY <2>1, ValuesWithout DEF Values
  <2>3. Value(c) \in Values(available)
    BY DEF Values
  <2>4. ASSUME NEW m \in Values(available) PROVE Value(c) <= m
    <3>1. PICK d \in available : m = Value(d)
      BY DEF Values
    <3>2. d # c => ComesFirst(c, d)
      BY <2>1
    <3>3. Value(c) <= Value(c)
      BY NumbersOfListed
    <3> QED BY <3>1, <3>2, <3>3, NumbersOfListed
  <2>5. Queue!TakeLowest
    BY <2>2, <2>3, <2>4 DEF Queue!TakeLowest
  <2> QED BY <2>5 DEF Queue!Next
<1>3. ASSUME NEW c \in leased, Requeue(c) PROVE Queue!Next
  <2>1. /\ Values(available)' = Values(available) \cup {Value(c)}
        /\ UNCHANGED Values(rows)
    BY <1>3 DEF Requeue, Values
  <2>2. Value(c) \in Values(rows)
    BY DEF Values
  <2> QED BY <2>1, <2>2 DEF Queue!Return, Queue!Next
<1>4. ASSUME NEW c \in leased, Settle(c) PROVE UNCHANGED Queue!vars
  BY <1>4 DEF Settle, Queue!vars, Values
<1>5. CASE UNCHANGED orderVars
  BY <1>5 DEF orderVars, Queue!vars, Values
<1> QED BY <1>1, <1>2, <1>3, <1>4, <1>5 DEF OrderNext, Queue!Next

\* While no list has a text with leading zeros, the table of texts implements the
\* queue of numbers.
THEOREM ImplementsQueue == NoLeadingZeros => (OrderSpec => QueueSpec)
<1> SUFFICES ASSUME NoLeadingZeros PROVE OrderSpec => QueueSpec
  OBVIOUS
<1>1. OrderInit => Queue!Init
  BY DEF OrderInit, Queue!Init, Values
<1>2. RowsListed /\ [OrderNext]_orderVars => [Queue!Next]_(Queue!vars)
  BY QueueStep
<1> QED BY <1>1, <1>2, RowsListedAlways, PTL DEF OrderSpec, QueueSpec, Queue!Spec
=============================================================================
