------------------------------ MODULE OrderLemmas ------------------------------
(***************************************************************************)
(* Lemmas about finite sets and their order that proofs of several         *)
(* components need: least and greatest numbers of a set, the first member  *)
(* of a set by a strict order, how many members have a place below a bound *)
(* in it, and bounds of quotients.                                        *)
(***************************************************************************)
EXTENDS Integers, FiniteSets, FiniteSetsExt, Functions, FiniteSetTheorems, WellFoundedInduction,
        TLAPS

Less == {ss \in Nat \X Nat : ss[1] < ss[2]}

LEMMA LessWellFounded == IsWellFoundedOn(Less, Nat)
BY NatLessThanWellFounded DEF OpToRel, Less

\* A set of naturals that is not empty has a least element.
LEMMA MinOfSet ==
  ASSUME NEW S \in SUBSET Nat, S # {}
  PROVE  Min(S) \in S /\ \A y \in S : Min(S) <= y
<1>1. PICK m \in S : \A y \in S : ~(<<y, m>> \in Less)
  BY LessWellFounded, WFMin
<1>2. ASSUME NEW y \in S PROVE m <= y
  <2>1. y \in Nat /\ m \in Nat
    OBVIOUS
  <2>2. ~(y < m)
    BY <1>1, <2>1 DEF Less
  <2>3. QED  BY <2>1, <2>2
<1>3. QED  BY <1>2 DEF Min

\* The smaller and the greater of two numbers.
LEMMA MinOfTwo ==
  ASSUME NEW a \in Int, NEW b \in Int
  PROVE  Min({a, b}) = IF a <= b THEN a ELSE b
<1>1. CASE a <= b
  BY <1>1 DEF Min
<1>2. CASE ~(a <= b)
  BY <1>2 DEF Min
<1>3. QED  BY <1>1, <1>2

LEMMA MaxOfTwo ==
  ASSUME NEW a \in Int, NEW b \in Int
  PROVE  Max({a, b}) = IF a >= b THEN a ELSE b
<1>1. CASE a >= b
  BY <1>1 DEF Max
<1>2. CASE ~(a >= b)
  BY <1>2 DEF Max
<1>3. QED  BY <1>1, <1>2

\* A bounded set of naturals has a greatest element.
LEMMA MaxOfSet ==
  ASSUME NEW n \in Nat, NEW S \in SUBSET (0 .. n), S # {}
  PROVE  Max(S) \in S /\ \A y \in S : Max(S) >= y
<1>1. PICK x \in {n - y : y \in S} : \A y \in {n - z : z \in S} : ~(<<y, x>> \in Less)
  <2>1. ASSUME NEW y \in S PROVE n - y \in Nat
    <3>1. y \in 0 .. n
      OBVIOUS
    <3>2. QED  BY <3>1
  <2>2. {n - y : y \in S} \subseteq Nat /\ {n - y : y \in S} # {}
    BY <2>1
  <2>3. QED  BY <2>2, LessWellFounded, WFMin
<1>2. PICK m \in S : x = n - m
  BY <1>1
<1>3. ASSUME NEW y \in S PROVE m >= y
  <2>1. ~(<<n - y, n - m>> \in Less)
    BY <1>1, <1>2
  <2>2. y \in 0 .. n /\ m \in 0 .. n
    OBVIOUS
  <2>3. n - y \in Nat /\ n - m \in Nat
    BY <2>2
  <2>4. ~(n - y < n - m)
    BY <2>1, <2>3 DEF Less
  <2>5. QED  BY <2>2, <2>4
<1>4. QED  BY <1>3 DEF Max

\* The range of a function of a finite domain is finite.
LEMMA ImageOfFinite ==
  ASSUME NEW f, IsFiniteSet(DOMAIN f)
  PROVE  IsFiniteSet({f[x] : x \in DOMAIN f})
<1> DEFINE T == {f[x] : x \in DOMAIN f}
           g == [x \in DOMAIN f |-> f[x]]
<1>1. g \in Surjection(DOMAIN f, T)
  BY DEF Surjection
<1> HIDE DEF T, g
<1>2. IsFiniteSet(T)
  BY <1>1, FS_Surjection
<1>3. QED  BY <1>2 DEF T

--------------------------------------------------------------------------------
(* Strict orders                                                            *)

\* R orders S strictly: no two members are equal in it.
Orders(R, S) ==
  /\ \A x \in S : <<x, x>> \notin R
  /\ \A x, y, z \in S : <<x, y>> \in R /\ <<y, z>> \in R => <<x, z>> \in R
  /\ \A x, y \in S : x = y \/ <<x, y>> \in R \/ <<y, x>> \in R

Ahead(x, S, R) == {y \in S : <<y, x>> \in R}
PlaceIn(x, S, R) == Cardinality(Ahead(x, S, R))

\* There are fewer members ahead of one than there are members.
LEMMA PlaceBound ==
  ASSUME NEW S, IsFiniteSet(S), NEW R, Orders(R, S), NEW x \in S
  PROVE  /\ IsFiniteSet(Ahead(x, S, R))
         /\ PlaceIn(x, S, R) \in Nat /\ PlaceIn(x, S, R) < Cardinality(S)
<1> DEFINE A == Ahead(x, S, R)
<1>1. A \in SUBSET S /\ x \notin A
  BY DEF Ahead, Orders
<1> HIDE DEF A
<1>2. /\ IsFiniteSet(A) /\ Cardinality(A) <= Cardinality(S)
      /\ Cardinality(S) = Cardinality(A) => S = A
  BY <1>1, FS_Subset
<1>3. Cardinality(A) \in Nat /\ Cardinality(S) \in Nat
  BY <1>2, FS_CardinalityType
<1>4. QED  BY <1>1, <1>2, <1>3 DEF PlaceIn, A

\* Who is ahead of another has the lower place.
LEMMA PlaceGrows ==
  ASSUME NEW S, IsFiniteSet(S), NEW R, Orders(R, S), NEW x \in S, NEW y \in S, <<x, y>> \in R
  PROVE  PlaceIn(x, S, R) < PlaceIn(y, S, R)
<1> DEFINE A == Ahead(x, S, R)
           B == Ahead(y, S, R)
<1>1. A \in SUBSET B /\ x \in B /\ x \notin A
  BY DEF Ahead, Orders
<1>2. IsFiniteSet(A) /\ IsFiniteSet(B)
  BY PlaceBound
<1> HIDE DEF A, B
<1>3. Cardinality(A) <= Cardinality(B) /\ (Cardinality(B) = Cardinality(A) => B = A)
  BY <1>1, <1>2, FS_Subset
<1>4. Cardinality(A) \in Nat /\ Cardinality(B) \in Nat
  BY <1>2, FS_CardinalityType
<1>5. QED  BY <1>1, <1>3, <1>4 DEF PlaceIn, A, B

\* A finite set that is not empty has a first member.
LEMMA FirstExists ==
  ASSUME NEW S, IsFiniteSet(S), S # {}, NEW R, Orders(R, S)
  PROVE  \E x \in S : \A y \in S \ {x} : <<x, y>> \in R
<1> DEFINE places == {PlaceIn(x, S, R) : x \in S}
<1>1. places \in SUBSET Nat /\ places # {}
  BY PlaceBound
<1>2. PICK p \in places : \A q \in places : p <= q
  BY <1>1, MinOfSet
<1>3. PICK x \in S : p = PlaceIn(x, S, R)
  OBVIOUS
<1>4. ASSUME NEW y \in S \ {x} PROVE <<x, y>> \in R
  <2>1. p <= PlaceIn(y, S, R) /\ PlaceIn(y, S, R) \in Nat /\ p \in Nat
    BY <1>2, <1>3, PlaceBound
  <2>2. <<y, x>> \notin R
    <3>1. SUFFICES ASSUME <<y, x>> \in R PROVE FALSE
      OBVIOUS
    <3>2. PlaceIn(y, S, R) < p
      BY <1>3, <3>1, PlaceGrows
    <3>3. QED  BY <2>1, <3>2
  <2>3. QED  BY <2>2 DEF Orders
<1>5. QED  BY <1>4

\* The extremes of a finite set of integers.
LEMMA MinOfFinite ==
  ASSUME NEW S \in SUBSET Int, IsFiniteSet(S), S # {}
  PROVE  Min(S) \in S /\ \A y \in S : Min(S) <= y
<1> DEFINE R == {ss \in S \X S : ss[1] < ss[2]}
<1>1. Orders(R, S)
  BY DEF Orders
<1>2. PICK m \in S : \A y \in S \ {m} : <<m, y>> \in R
  BY <1>1, FirstExists
<1>3. ASSUME NEW y \in S PROVE m <= y
  <2>1. CASE y = m
    <3>1. m \in Int
      OBVIOUS
    <3>2. QED  BY <2>1, <3>1
  <2>2. CASE y # m
    <3>1. <<m, y>> \in R /\ m \in Int /\ y \in Int
      BY <1>2, <2>2
    <3>2. QED  BY <3>1
  <2>3. QED  BY <2>1, <2>2
<1>4. QED  BY <1>3 DEF Min

LEMMA MaxOfFinite ==
  ASSUME NEW S \in SUBSET Int, IsFiniteSet(S), S # {}
  PROVE  Max(S) \in S /\ \A y \in S : Max(S) >= y
<1> DEFINE R == {ss \in S \X S : ss[1] > ss[2]}
<1>1. Orders(R, S)
  BY DEF Orders
<1>2. PICK m \in S : \A y \in S \ {m} : <<m, y>> \in R
  BY <1>1, FirstExists
<1>3. ASSUME NEW y \in S PROVE m >= y
  <2>1. CASE y = m
    <3>1. m \in Int
      OBVIOUS
    <3>2. QED  BY <2>1, <3>1
  <2>2. CASE y # m
    <3>1. <<m, y>> \in R /\ m \in Int /\ y \in Int
      BY <1>2, <2>2
    <3>2. QED  BY <3>1
  <2>3. QED  BY <2>1, <2>2
<1>4. QED  BY <1>3 DEF Max

\* Each place is that of one member at most ...
LEMMA PlaceInjective ==
  ASSUME NEW S, IsFiniteSet(S), NEW R, Orders(R, S), NEW x \in S, NEW y \in S,
         PlaceIn(x, S, R) = PlaceIn(y, S, R)
  PROVE  x = y
<1>1. SUFFICES ASSUME x # y PROVE FALSE
  OBVIOUS
<1>2. PlaceIn(x, S, R) \in Nat /\ PlaceIn(y, S, R) \in Nat
  BY PlaceBound
<1>3. CASE <<x, y>> \in R
  BY <1>2, <1>3, PlaceGrows
<1>4. CASE <<y, x>> \in R
  BY <1>2, <1>4, PlaceGrows
<1>5. QED  BY <1>1, <1>3, <1>4 DEF Orders

\* ... and the members with a place from a on and below b are no more than b - a,
LEMMA SlotCount ==
  ASSUME NEW S, IsFiniteSet(S), NEW R, Orders(R, S), NEW a \in Nat, NEW b \in Nat, a <= b
  PROVE  LET T == {x \in S : a <= PlaceIn(x, S, R) /\ PlaceIn(x, S, R) < b}
         IN  IsFiniteSet(T) /\ Cardinality(T) <= b - a
<1> DEFINE T == {x \in S : a <= PlaceIn(x, S, R) /\ PlaceIn(x, S, R) < b}
           f == [x \in T |-> PlaceIn(x, S, R)]
           slots == a .. b - 1
<1>1. f \in Injection(T, slots)
  <2>1. \A x \in T : PlaceIn(x, S, R) \in slots
    BY PlaceBound
  <2>2. \A x, y \in T : f[x] = f[y] => x = y
    BY PlaceInjective
  <2>3. QED  BY <2>1, <2>2 DEF Injection, IsInjective
<1>2. IsFiniteSet(slots) /\ Cardinality(slots) = b - a
  <2>1. b - 1 \in Int /\ a \in Int /\ (a > b - 1 => b - a = 0) /\ b - 1 - a + 1 = b - a
    OBVIOUS
  <2>2. QED  BY <2>1, FS_Interval
<1> HIDE DEF T, f, slots
<1>3. IsFiniteSet(T) /\ Cardinality(T) <= Cardinality(slots)
  BY <1>1, <1>2, FS_Injection
<1>4. QED  BY <1>2, <1>3 DEF T

\* and as many as b where there are others behind them.
LEMMA FrontCount ==
  ASSUME NEW S, IsFiniteSet(S), NEW R, Orders(R, S), NEW b \in Nat,
         NEW z \in S, b <= PlaceIn(z, S, R)
  PROVE  Cardinality({x \in S : PlaceIn(x, S, R) < b}) = b
<1> DEFINE n == Cardinality(S)
           f == [x \in S |-> PlaceIn(x, S, R)]
           all == 0 .. n - 1
           T == {x \in S : PlaceIn(x, S, R) < b}
           g == [x \in T |-> PlaceIn(x, S, R)]
           front == 0 .. b - 1
<1>0. n \in Nat /\ b < n
  BY PlaceBound, FS_CardinalityType
<1>1. f \in Injection(S, all)
  <2>1. \A x \in S : PlaceIn(x, S, R) \in all
    BY <1>0, PlaceBound
  <2>2. \A x, y \in S : f[x] = f[y] => x = y
    BY PlaceInjective
  <2>3. QED  BY <2>1, <2>2 DEF Injection, IsInjective
<1>2. IsFiniteSet(all) /\ Cardinality(all) = n
  <2> HIDE DEF n
  <2>1. n - 1 \in Int /\ 0 \in Int /\ ~(0 > n - 1) /\ n - 1 - 0 + 1 = n
    BY <1>0
  <2>2. QED  BY <2>1, FS_Interval
<1>3. f \in Surjection(S, all)
  <2> HIDE DEF f, all
  <2>1. QED  BY <1>1, <1>2, FS_Injection
<1>4. g \in Injection(T, front)
  <2>1. \A x \in T : PlaceIn(x, S, R) \in front
    BY PlaceBound
  <2>2. \A x, y \in T : g[x] = g[y] => x = y
    BY PlaceInjective
  <2>3. QED  BY <2>1, <2>2 DEF Injection, IsInjective
<1>5. \A k \in front : \E x \in T : g[x] = k
  <2> SUFFICES ASSUME NEW k \in front PROVE \E x \in T : g[x] = k
    OBVIOUS
  <2>1. k \in all
    <3> HIDE DEF n
    <3>1. QED  BY <1>0
  <2>2. PICK x \in S : f[x] = k
    BY <1>3, <2>1 DEF Surjection
  <2>3. x \in T
    BY <2>2
  <2>4. QED  BY <2>2, <2>3
<1>6. g \in Surjection(T, front)
  BY <1>4, <1>5 DEF Surjection, Injection
<1>7. IsFiniteSet(front) /\ Cardinality(front) = b
  <2>1. b - 1 \in Int /\ 0 \in Int /\ (0 > b - 1 => b = 0) /\ b - 1 - 0 + 1 = b
    OBVIOUS
  <2>2. QED  BY <2>1, FS_Interval
<1> HIDE DEF T, g, front
<1>8. Cardinality(T) = Cardinality(front)
  BY <1>4, <1>6, <1>7, FS_Injection
<1>9. QED  BY <1>7, <1>8 DEF T

--------------------------------------------------------------------------------
(* Quotients                                                                *)

\* A product grows with its factor ...
LEMMA TimesGrows ==
  ASSUME NEW n \in Nat, NEW q \in Int, NEW r \in Int, q <= r
  PROVE  n * q <= n * r
<1> DEFINE k == r - q
<1>1. k \in Nat /\ r = q + k
  OBVIOUS
<1>2. n * k >= 0
  <2> HIDE DEF k
  <2>1. QED  BY <1>1
<1>3. n * r = n * q + n * k
  OBVIOUS
<1>4. n * q \in Int /\ n * k \in Int
  OBVIOUS
<1> HIDE DEF k
<1>5. QED  BY <1>2, <1>3, <1>4

\* ... so that a quotient is bounded by whom its number is between, and grows with it.
LEMMA Quotient ==
  ASSUME NEW a \in Int, NEW n \in Nat \ {0}
  PROVE  a \div n \in Int /\ n * (a \div n) <= a /\ a < n * (a \div n) + n
OBVIOUS

LEMMA QuotientBelow ==
  ASSUME NEW a \in Int, NEW n \in Nat \ {0}, NEW r \in Int, a < n * r
  PROVE  a \div n < r
<1> DEFINE q == a \div n
<1>1. q \in Int /\ n * q <= a
  BY Quotient
<1>2. SUFFICES ASSUME r <= q PROVE FALSE
  BY <1>1
<1>3. n * r <= n * q
  BY <1>1, <1>2, TimesGrows
<1>4. n * r \in Int /\ n * q \in Int
  BY <1>1
<1> HIDE DEF q
<1>5. QED  BY <1>1, <1>3, <1>4

LEMMA QuotientAbove ==
  ASSUME NEW a \in Int, NEW n \in Nat \ {0}, NEW r \in Int, n * r <= a
  PROVE  r <= a \div n
<1> DEFINE q == a \div n
<1>1. q \in Int /\ a < n * q + n
  BY Quotient
<1>2. SUFFICES ASSUME q + 1 <= r PROVE FALSE
  BY <1>1
<1>3. n * (q + 1) <= n * r
  BY <1>1, <1>2, TimesGrows
<1>4. n * r \in Int /\ n * q \in Int /\ n * (q + 1) = n * q + n
  BY <1>1
<1> HIDE DEF q
<1>5. QED  BY <1>1, <1>3, <1>4

LEMMA QuotientGrows ==
  ASSUME NEW a \in Int, NEW b \in Int, NEW n \in Nat \ {0}, a <= b
  PROVE  a \div n <= b \div n
<1>1. a \div n \in Int /\ n * (a \div n) <= a
  BY Quotient
<1> DEFINE q == a \div n
<1> HIDE DEF q
<1>2. n * q <= b /\ q \in Int
  BY <1>1 DEF q
<1>3. q <= b \div n
  BY <1>2, QuotientAbove
<1>4. QED  BY <1>3 DEF q
================================================================================
