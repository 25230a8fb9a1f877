------------------------------ MODULE FetchProofs ------------------------------
(***************************************************************************)
(* What TLC checks of the three components of fetch/ on small instances,   *)
(* proved for any number of days, sources, readers, fills and calls.       *)
(*                                                                         *)
(* GapFill: coverage() reports every wide hole and nothing that is stored, *)
(* and nothing is stored that its source has not published.                *)
(* EgressCircuit: for every threshold and cooldown, the hash makes sense   *)
(* whatever overtakes what, and an exit is retired for its failed probes   *)
(* only.  ReadThrough: what was answered stays answered, and a miss has    *)
(* tried every source.                                                     *)
(***************************************************************************)
EXTENDS GapFill, EgressCircuit, ReadThrough, OrderLemmas

--------------------------------------------------------------------------------
(* Gap filling                                                              *)

\* The same of days, which are bounded.
LEMMA DaysBounds ==
  ASSUME NEW S \in SUBSET Days, S # {}
  PROVE  /\ Min(S) \in S /\ \A y \in S : Min(S) <= y
         /\ Max(S) \in S /\ \A y \in S : Max(S) >= y
<1>1. S \in SUBSET Nat /\ S \in SUBSET (0 .. LastDay) /\ LastDay \in Nat
  BY DayAssumption DEF Days
<1>2. QED  BY <1>1, MinOfSet, MaxOfSet

--------------------------------------------------------------------------------
(* Runs                                                                     *)

\* A run of a set of days is an interval of it.
LEMMA RunsWithin ==
  ASSUME NEW S \in SUBSET Days, NEW g \in Runs(S)
  PROVE  g \in Intervals /\ DaysOf(g) \subseteq S
<1> DEFINE last  == {d \in S : d + 1 \notin S}
           ends  == {e \in last : e >= g[1]}
<1>1. PICK d \in S : g = <<d, Min({e \in last : e >= d})>>
  BY DEF Runs
<1>2. g[1] = d /\ g[2] = Min(ends)
  BY <1>1
<1>3. ends # {}
  <2> DEFINE m == Max(S)
  <2>1. m \in S /\ \A y \in S : m >= y
    BY DaysBounds, <1>1
  <2> HIDE DEF m
  <2>2. m \in Nat /\ d \in Nat /\ m >= d
    BY <2>1 DEF Days
  <2>3. m + 1 \notin S
    BY <2>1, <2>2
  <2>4. QED  BY <1>2, <2>1, <2>2, <2>3
<1>4. ends \in SUBSET Days
  OBVIOUS
<1>5. g[2] \in ends /\ \A y \in ends : g[2] <= y
  BY <1>2, <1>3, <1>4, DaysBounds
<1>6. g[1] \in S /\ g[2] \in S /\ g[2] >= g[1] /\ g = <<g[1], g[2]>>
  BY <1>1, <1>2, <1>5
<1>7. g \in Intervals
  <2>1. g[1] \in Days /\ g[2] \in Days /\ g[1] <= g[2]
    BY <1>6 DEF Days
  <2>2. QED  BY <1>6, <2>1 DEF Intervals
<1>8. ASSUME NEW x \in DaysOf(g) PROVE x \in S
  <2> DEFINE out == {y \in g[1] .. g[2] : y \notin S}
  <2>1. SUFFICES ASSUME x \notin S PROVE FALSE
    OBVIOUS
  <2>n. g[1] \in Nat /\ g[2] \in Nat
    BY <1>6 DEF Days
  <2>2. out \in SUBSET Nat /\ out # {}
    BY <1>8, <2>1, <2>n DEF DaysOf
  <2>3. Min(out) \in out /\ \A y \in out : Min(out) <= y
    BY <2>2, MinOfSet
  <2>4. PICK y \in out : \A z \in out : y <= z
    BY <2>3
  <2>5. y \in Nat /\ y # g[1] /\ y >= g[1] /\ y <= g[2] /\ y \notin S
    BY <1>6, <2>n
  <2>6. y - 1 \in g[1] .. g[2] /\ y - 1 \notin out
    BY <2>4, <2>5, <2>n
  <2>7. y - 1 \in S /\ (y - 1) + 1 = y /\ y - 1 >= g[1]
    BY <2>5, <2>6, <2>n
  <2>8. y - 1 \in ends
    BY <2>5, <2>7
  <2>9. g[2] <= y - 1
    BY <1>5, <2>8
  <2>10. QED  BY <2>5, <2>9, <2>n
<1>9. QED  BY <1>7, <1>8

\* An interval of a set of days is inside one of its runs.
LEMMA RunsCover ==
  ASSUME NEW S \in SUBSET Days, NEW a \in Days, NEW b \in Days, a <= b, a .. b \subseteq S
  PROVE  \E g \in Runs(S) : a .. b \subseteq DaysOf(g)
<1> DEFINE last   == {d \in S : d + 1 \notin S}
           starts == {d \in S : d <= a /\ d .. a \subseteq S}
<1>n. a \in Nat /\ b \in Nat /\ 1 <= a
  BY DEF Days
<1>1. a \in starts
  BY <1>n
<1>2. starts \in SUBSET Nat
  <2>1. S \subseteq Nat
    BY DEF Days
  <2>2. QED  BY <2>1
<1>3. PICK d \in starts : \A y \in starts : d <= y
  BY <1>1, <1>2, MinOfSet
<1>4. d \in S /\ d \in Nat /\ d <= a /\ d .. a \subseteq S
  BY <1>2
<1>5. d - 1 \notin S
  <2>1. SUFFICES ASSUME d - 1 \in S PROVE FALSE
    OBVIOUS
  <2>2. d - 1 \in Nat /\ d - 1 <= a
    BY <1>4, <1>n, <2>1 DEF Days
  <2>3. ASSUME NEW y \in d - 1 .. a PROVE y \in S
    <3>1. CASE y = d - 1
      BY <2>1, <3>1
    <3>2. CASE y # d - 1
      <4>1. y \in d .. a
        BY <1>4, <1>n, <3>2
      <4>2. QED  BY <1>4, <4>1
    <3>3. QED  BY <3>1, <3>2
  <2>4. d - 1 \in starts
    BY <2>1, <2>2, <2>3
  <2>5. d <= d - 1
    BY <1>3, <2>4
  <2>6. QED  BY <1>4, <2>5
<1> DEFINE ends == {e \in last : e >= d}
           g    == <<d, Min(ends)>>
<1>6. g \in Runs(S)
  BY <1>4, <1>5 DEF Runs
<1>7. ends # {}
  <2> DEFINE m == Max(S)
  <2>1. m \in S /\ \A y \in S : m >= y
    BY DaysBounds, <1>4
  <2> HIDE DEF m
  <2>2. m \in Nat /\ m >= d
    BY <1>4, <2>1 DEF Days
  <2>3. m + 1 \notin S
    BY <2>1, <2>2
  <2>4. QED  BY <2>1, <2>2, <2>3
<1>8. ends \in SUBSET Days
  OBVIOUS
<1>9. PICK e \in ends : e = Min(ends)
  BY <1>7, <1>8, DaysBounds
<1>10. e \in Nat /\ e >= d /\ e + 1 \notin S
  BY <1>8 DEF Days
<1>11. b <= e
  <2>1. SUFFICES ASSUME e < b PROVE FALSE
    BY <1>n, <1>10
  <2>2. CASE e < a
    <3>1. e + 1 \in d .. a
      BY <1>4, <1>n, <1>10, <2>2
    <3>2. QED  BY <1>4, <1>10, <3>1
  <2>3. CASE ~(e < a)
    <3>1. e + 1 \in a .. b
      BY <1>n, <1>10, <2>1, <2>3
    <3>2. QED  BY <1>10, <3>1
  <2>4. QED  BY <2>2, <2>3
<1>12. g[1] = d /\ g[2] = e
  BY <1>9
<1> HIDE DEF g, ends
<1>13. ASSUME NEW y \in a .. b PROVE y \in DaysOf(g)
  <2>1. y \in Nat /\ d <= y /\ y <= e
    BY <1>n, <1>4, <1>10, <1>11
  <2>2. QED  BY <1>4, <1>10, <1>12, <2>1 DEF DaysOf
<1>14. QED  BY <1>6, <1>13

--------------------------------------------------------------------------------
(* coverage() reports the intervals actually missing                        *)

\* The known-empty intervals, cut to a window, are days of the window.
LEMMA ClipsAreDays ==
  ASSUME NEW known \in SUBSET Intervals, NEW w \in Intervals
  PROVE  DaysIn({Clip(i, w) : i \in {k \in known : Meets(k, w)}}) \in SUBSET (Days \cap DaysIn(known))
<1> DEFINE met == {k \in known : Meets(k, w)}
           clips == {Clip(i, w) : i \in met}
<1>1. ASSUME NEW x \in DaysIn(clips) PROVE x \in Days /\ x \in DaysIn(known)
  <2>1. PICK k \in met : x \in DaysOf(Clip(k, w))
    BY <1>1 DEF DaysIn
  <2>2. k \in known /\ k \in Intervals
    OBVIOUS
  <2>3. /\ k[1] \in Days /\ k[2] \in Days /\ w[1] \in Days /\ w[2] \in Days
    BY <2>2 DEF Intervals
  <2>4. /\ k[1] \in Nat /\ k[2] \in Nat /\ w[1] \in Nat /\ w[2] \in Nat /\ 1 <= k[1]
        /\ k[2] <= LastDay /\ LastDay \in Nat
    BY <2>3, DayAssumption DEF Days
  <2>5. Max({k[1], w[1]}) \in Nat /\ k[1] <= Max({k[1], w[1]})
    <3>1. \E m \in {k[1], w[1]} : \A y \in {k[1], w[1]} : m >= y
      BY <2>4
    <3>2. Max({k[1], w[1]}) \in {k[1], w[1]} /\ \A y \in {k[1], w[1]} : Max({k[1], w[1]}) >= y
      BY <3>1 DEF Max
    <3>3. PICK m \in {k[1], w[1]} : m = Max({k[1], w[1]})
      BY <3>2
    <3>4. m \in Nat /\ m >= k[1]
      BY <2>4, <3>2, <3>3
    <3>5. QED  BY <2>4, <3>3, <3>4
  <2>6. Min({k[2], w[2]}) \in Nat /\ Min({k[2], w[2]}) <= k[2]
    BY <2>4, MinOfSet
  <2> DEFINE lo == Max({k[1], w[1]})
             hi == Min({k[2], w[2]})
  <2>7. x \in lo .. hi
    BY <2>1 DEF DaysOf, Clip
  <2> HIDE DEF lo, hi
  <2>8. lo \in Nat /\ hi \in Nat /\ k[1] <= lo /\ hi <= k[2]
    BY <2>5, <2>6 DEF lo, hi
  <2>9. x \in k[1] .. k[2] /\ x \in 1 .. LastDay
    BY <2>4, <2>7, <2>8
  <2>10. QED  BY <2>2, <2>9 DEF DaysIn, DaysOf, Days
<1>2. QED  BY <1>1

LEMMA KnownEmptyWithin ==
  ASSUME NEW known \in SUBSET Intervals, NEW w \in Intervals
  PROVE  /\ KnownEmpty(known, w) \subseteq Intervals
         /\ DaysIn(KnownEmpty(known, w)) \subseteq DaysIn(known)
<1> DEFINE clipped == DaysIn({Clip(i, w) : i \in {k \in known : Meets(k, w)}})
<1>1. clipped \in SUBSET Days /\ clipped \subseteq DaysIn(known)
  BY ClipsAreDays
<1>2. KnownEmpty(known, w) = Runs(clipped)
  BY DEF KnownEmpty
<1> HIDE DEF clipped
<1>3. \A g \in Runs(clipped) : g \in Intervals /\ DaysOf(g) \subseteq clipped
  BY <1>1, RunsWithin
<1>4. QED  BY <1>1, <1>2, <1>3 DEF DaysIn

LEMMA IntervalDays == ASSUME NEW I \in SUBSET Intervals PROVE DaysIn(I) \in SUBSET Days
<1>1. ASSUME NEW i \in I, NEW x \in DaysOf(i) PROVE x \in Days
  <2>1. i[1] \in Days /\ i[2] \in Days
    BY DEF Intervals
  <2>2. QED  BY <2>1, DayAssumption, <1>1 DEF Days, DaysOf
<1>2. QED  BY <1>1 DEF DaysIn

\* What is reported of a series that has points, and before adjacent parts of it
\* are merged.
Missing(held, known, w) == KnownEmpty(known, w) \cup Outer(held, w) \cup Interior(held, w)

LEMMA OuterWithin ==
  ASSUME NEW held \in SUBSET Days, held # {}, NEW w \in Intervals
  PROVE  Outer(held, w) \subseteq Intervals /\ DaysIn(Outer(held, w)) \cap held = {}
<1> DEFINE m == Min(held)
           n == Max(held)
<1>1. m \in held /\ n \in held /\ \A y \in held : m <= y /\ n >= y
  BY DaysBounds
<1>2. w[1] \in Days /\ w[2] \in Days
  BY DEF Intervals
<1>3. Outer(held, w) = {i \in {<<w[1], m - 1>>, <<n + 1, w[2]>>} : i[1] <= i[2] /\ Wide(i)}
  BY DEF Outer
<1> HIDE DEF m, n
<1>4. m \in Days /\ n \in Days
  BY <1>1
<1>5. ASSUME NEW i \in Outer(held, w) PROVE i \in Intervals /\ DaysOf(i) \cap held = {}
  <2>1. CASE i = <<w[1], m - 1>>
    <3>1. w[1] <= m - 1
      BY <1>3, <1>5, <2>1
    <3>2. m - 1 \in Days
      BY <1>2, <1>4, <3>1, DayAssumption DEF Days
    <3>3. \A y \in held : y \notin w[1] .. m - 1
      BY <1>1, <1>2, <1>4 DEF Days
    <3>4. QED  BY <1>2, <2>1, <3>1, <3>2, <3>3 DEF Intervals, DaysOf
  <2>2. CASE i = <<n + 1, w[2]>>
    <3>1. n + 1 <= w[2]
      BY <1>3, <1>5, <2>2
    <3>2. n + 1 \in Days
      BY <1>2, <1>4, <3>1, DayAssumption DEF Days
    <3>3. \A y \in held : y \notin n + 1 .. w[2]
      BY <1>1, <1>2, <1>4 DEF Days
    <3>4. QED  BY <1>2, <2>2, <3>1, <3>2, <3>3 DEF Intervals, DaysOf
  <2>3. QED  BY <1>3, <1>5, <2>1, <2>2
<1>6. QED  BY <1>5 DEF DaysIn

\* The days between which interior holes are looked for.
LEMMA SpanBounds ==
  ASSUME NEW held \in SUBSET Days, held # {}, NEW w \in Intervals
  PROVE  /\ Max({w[1], Min(held)}) \in Days /\ Min({w[2], Max(held)}) \in Days
         /\ \A x \in Nat : x \in Max({w[1], Min(held)}) .. Min({w[2], Max(held)}) <=>
                             x \in w[1] .. w[2] /\ x \in Min(held) .. Max(held)
<1>1. Min(held) \in held /\ Max(held) \in held
  BY DaysBounds
<1>2. w[1] \in Days /\ w[2] \in Days /\ Min(held) \in Days /\ Max(held) \in Days
  BY <1>1 DEF Intervals
<1> DEFINE m == Min(held)
           n == Max(held)
<1>3. {w[1], m} \in SUBSET Days /\ {w[2], n} \in SUBSET Days
  BY <1>2
<1> HIDE DEF m, n
<1>4. /\ Max({w[1], m}) \in {w[1], m} /\ \A y \in {w[1], m} : Max({w[1], m}) >= y
      /\ Min({w[2], n}) \in {w[2], n} /\ \A y \in {w[2], n} : Min({w[2], n}) <= y
  BY <1>3, DaysBounds
<1>5. PICK lo \in {w[1], m}, hi \in {w[2], n} : lo = Max({w[1], m}) /\ hi = Min({w[2], n})
  BY <1>4
<1>6. /\ lo >= w[1] /\ lo >= m /\ hi <= w[2] /\ hi <= n
  BY <1>4, <1>5
<1>7. /\ lo \in Nat /\ hi \in Nat /\ w[1] \in Nat /\ w[2] \in Nat /\ m \in Nat /\ n \in Nat
      /\ lo \in Days /\ hi \in Days
  BY <1>2, <1>5 DEF m, n, Days
<1>8. (lo = w[1] \/ lo = m) /\ (hi = w[2] \/ hi = n)
  BY <1>5
<1>9. \A x \in Nat : x \in lo .. hi <=> x \in w[1] .. w[2] /\ x \in m .. n
  BY <1>6, <1>7, <1>8
<1>10. QED  BY <1>5, <1>7, <1>9 DEF m, n

LEMMA InteriorWithin ==
  ASSUME NEW held \in SUBSET Days, held # {}, NEW w \in Intervals
  PROVE  Interior(held, w) \subseteq Intervals /\ DaysIn(Interior(held, w)) \cap held = {}
<1> DEFINE lo == Max({w[1], Min(held)})
           hi == Min({w[2], Max(held)})
           free == (lo .. hi) \ held
<1>1. lo \in Days /\ hi \in Days
  BY SpanBounds
<1>2. Interior(held, w) \subseteq Runs(free)
  BY DEF Interior
<1> HIDE DEF lo, hi
<1>3. free \in SUBSET Days
  BY <1>1, DayAssumption DEF Days
<1>4. \A g \in Runs(free) : g \in Intervals /\ DaysOf(g) \subseteq free
  BY <1>3, RunsWithin
<1>5. QED  BY <1>2, <1>4 DEF DaysIn

LEMMA MissingWithin ==
  ASSUME NEW held \in SUBSET Days, held # {}, NEW known \in SUBSET Intervals, NEW w \in Intervals
  PROVE  /\ Missing(held, known, w) \subseteq Intervals
         /\ DaysIn(Missing(held, known, w)) \cap held \subseteq DaysIn(known)
<1>1. /\ KnownEmpty(known, w) \subseteq Intervals /\ DaysIn(KnownEmpty(known, w)) \subseteq DaysIn(known)
      /\ Outer(held, w) \subseteq Intervals /\ DaysIn(Outer(held, w)) \cap held = {}
      /\ Interior(held, w) \subseteq Intervals /\ DaysIn(Interior(held, w)) \cap held = {}
  BY KnownEmptyWithin, OuterWithin, InteriorWithin
<1>2. DaysIn(Missing(held, known, w)) =
        DaysIn(KnownEmpty(known, w)) \cup DaysIn(Outer(held, w)) \cup DaysIn(Interior(held, w))
  BY DEF DaysIn, Missing
<1>3. QED  BY <1>1, <1>2 DEF Missing

\* A stretch of the window without a stored day, wide, and outside the dense
\* part: its days are among those reported.
LEMMA HoleMissing ==
  ASSUME NEW held \in SUBSET Days, held # {}, NEW known \in SUBSET Intervals, NEW w \in Intervals,
         NEW i \in Runs(WindowDays(w) \ held), Cardinality(DaysOf(i)) >= MinHole,
         \/ i[2] < Min(held)
         \/ i[1] > Max(held)
         \/ Cardinality(held \cap WindowDays(w)) * 100
              < MinCoverage * Cardinality(WindowDays(w) \cap (Min(held) .. Max(held)))
  PROVE  DaysOf(i) \subseteq DaysIn(Missing(held, known, w))
<1> DEFINE m == Min(held)
           n == Max(held)
           open == WindowDays(w) \ held
<1>1. m \in held /\ n \in held /\ \A y \in held : m <= y /\ n >= y
  BY DaysBounds
<1>w. w[1] \in Days /\ w[2] \in Days
  BY DEF Intervals
<1>2. open \in SUBSET Days
  BY <1>w, DayAssumption DEF WindowDays, Days
<1>3. i \in Intervals /\ DaysOf(i) \subseteq open
  BY <1>2, RunsWithin
<1> DEFINE a == i[1]
           b == i[2]
<1>4. a \in Days /\ b \in Days /\ a <= b /\ DaysOf(i) = a .. b
  BY <1>3 DEF Intervals, DaysOf
<1>n. /\ a \in Nat /\ b \in Nat /\ m \in Nat /\ n \in Nat /\ w[1] \in Nat /\ w[2] \in Nat
      /\ m \in Days /\ n \in Days
  <2>1. m \in Days /\ n \in Days
    BY <1>1
  <2> HIDE DEF m, n, a, b
  <2>2. QED  BY <1>w, <1>4, <2>1 DEF Days
<1> HIDE DEF m, n
<1>5. a \in open /\ b \in open
  BY <1>3, <1>4, <1>n
<1> HIDE DEF a, b
<1>6. w[1] <= a /\ b <= w[2] /\ a \notin held /\ b \notin held
  BY <1>5, <1>n DEF WindowDays
<1>7. b - a + 1 >= MinHole /\ MinHole \in Nat
  BY <1>4, <1>n, FS_Interval, ThresholdAssumption
<1>8. CASE b < m
  <2> DEFINE o == <<w[1], m - 1>>
  <2>1. a .. b \subseteq w[1] .. m - 1 /\ w[1] <= m - 1 /\ m - 1 - w[1] + 1 >= MinHole
    BY <1>4, <1>6, <1>7, <1>8, <1>n
  <2>2. o \in Outer(held, w)
    BY <2>1 DEF Outer, Wide, m
  <2>3. DaysOf(i) \subseteq DaysOf(o) /\ o \in Missing(held, known, w)
    BY <1>4, <2>1, <2>2 DEF Missing, DaysOf
  <2>4. QED  BY <2>3 DEF DaysIn
<1>9. CASE n < a
  <2> DEFINE o == <<n + 1, w[2]>>
  <2>1. a .. b \subseteq n + 1 .. w[2] /\ n + 1 <= w[2] /\ w[2] - (n + 1) + 1 >= MinHole
    BY <1>4, <1>6, <1>7, <1>9, <1>n
  <2>2. o \in Outer(held, w)
    BY <2>1 DEF Outer, Wide, n
  <2>3. DaysOf(i) \subseteq DaysOf(o) /\ o \in Missing(held, known, w)
    BY <1>4, <2>1, <2>2 DEF Missing, DaysOf
  <2>4. QED  BY <2>3 DEF DaysIn
<1>10. CASE ~(b < m) /\ ~(n < a)
  <2> DEFINE lo == Max({w[1], Min(held)})
             hi == Min({w[2], Max(held)})
             free == (lo .. hi) \ held
  <2>1. lo \in Days /\ hi \in Days /\ \A x \in Nat : x \in lo .. hi <=> x \in w[1] .. w[2] /\ x \in m .. n
    BY SpanBounds DEF m, n
  <2>2. ~(m \in a .. b) /\ ~(n \in a .. b)
    BY <1>1, <1>3, <1>4
  <2>3. m <= a /\ b <= n
    BY <1>4, <1>10, <1>n, <2>2
  <2> HIDE DEF lo, hi
  <2>n. lo \in Nat /\ hi \in Nat
    BY <2>1 DEF Days
  <2>4. ASSUME NEW x \in a .. b PROVE x \in free
    <3>1. x \in Nat /\ x \in w[1] .. w[2] /\ x \in m .. n
      BY <1>6, <1>n, <2>3
    <3>2. x \notin held
      BY <1>3, <1>4
    <3>3. QED  BY <2>1, <3>1, <3>2
  <2>5. free \in SUBSET Days
    BY <2>1, DayAssumption DEF Days
  <2>6. PICK g \in Runs(free) : a .. b \subseteq DaysOf(g)
    BY <1>4, <2>4, <2>5, RunsCover
  <2>7. g \in Intervals
    BY <2>5, RunsWithin
  <2>8. Wide(g)
    <3>1. g[1] \in Nat /\ g[2] \in Nat
      BY <2>7 DEF Intervals, Days
    <3>2. a \in g[1] .. g[2] /\ b \in g[1] .. g[2]
      BY <1>4, <1>n, <2>6 DEF DaysOf
    <3>3. g[2] - g[1] + 1 >= MinHole
      BY <1>7, <1>n, <3>1, <3>2
    <3>4. QED  BY <3>3 DEF Wide
  <2>9. Cardinality(held \cap (w[1] .. w[2])) * 100 < MinCoverage * (hi - lo + 1)
    <3>1. WindowDays(w) \cap (m .. n) = lo .. hi
      <4>1. \A x : x \in WindowDays(w) \cap (m .. n) => x \in Nat
        BY <1>n DEF WindowDays
      <4>2. \A x : x \in lo .. hi => x \in Nat
        BY <2>n
      <4>3. QED  BY <2>1, <4>1, <4>2 DEF WindowDays
    <3>2. a \in lo .. hi
      BY <2>4, <1>4, <1>n
    <3>3. Cardinality(lo .. hi) = hi - lo + 1
      BY <2>n, <3>2, FS_Interval
    <3>4. Cardinality(held \cap WindowDays(w)) * 100 < MinCoverage * Cardinality(WindowDays(w) \cap (m .. n))
      BY <1>10, <1>n DEF m, n, a, b
    <3>5. QED  BY <3>1, <3>3, <3>4 DEF WindowDays
  <2>10. g \in Interior(held, w)
    BY <2>6, <2>8, <2>9 DEF Interior, lo, hi
  <2>11. QED  BY <1>4, <2>6, <2>10 DEF Missing, DaysIn
<1>11. QED  BY <1>8, <1>9, <1>10

LEMMA HolesReported ==
  ASSUME NEW held \in SUBSET Days, held # {}, NEW known \in SUBSET Intervals, NEW w \in Intervals
  PROVE  /\ \A i \in Runs(WindowDays(w) \ held) :
              DaysOf(i) \subseteq DaysIn(Missing(held, known, w)) =>
                \E g \in Gaps(held, known, w) : DaysOf(i) \subseteq DaysOf(g)
         /\ \A g \in Gaps(held, known, w) : DaysOf(g) \cap held \subseteq DaysIn(known)
<1> DEFINE missing == DaysIn(Missing(held, known, w))
           open == WindowDays(w) \ held
<1>1. missing \in SUBSET Days /\ missing \cap held \subseteq DaysIn(known)
  BY MissingWithin, IntervalDays
<1>2. Gaps(held, known, w) = Runs(missing)
  BY DEF Gaps, Missing
<1> HIDE DEF missing
<1>3. \A g \in Runs(missing) : DaysOf(g) \subseteq missing
  BY <1>1, RunsWithin
<1>4. w[1] \in Days /\ w[2] \in Days
  BY DEF Intervals
<1>5. open \in SUBSET Days
  BY <1>4, DayAssumption DEF WindowDays, Days
<1>6. ASSUME NEW i \in Runs(open), DaysOf(i) \subseteq missing
      PROVE  \E g \in Runs(missing) : DaysOf(i) \subseteq DaysOf(g)
  <2>1. i[1] \in Days /\ i[2] \in Days /\ i[1] <= i[2]
    BY <1>5, RunsWithin DEF Intervals
  <2>2. QED  BY <1>1, <1>6, <2>1, RunsCover DEF DaysOf
<1>7. QED  BY <1>1, <1>2, <1>3, <1>6 DEF missing

--------------------------------------------------------------------------------
(* What is stored                                                           *)

Types ==
  /\ published \in [Sources -> SUBSET Tradable]
  /\ rows \in [Sources -> SUBSET Tradable]
  /\ probed \in SUBSET Intervals
  /\ pc \in [Fillers -> {"idle", "ask", "store", "insert", "next"}]
  /\ todo \in [Fillers -> SUBSET Intervals]
  /\ answer \in [Fillers -> [source : Sources \cup {0}, days : SUBSET Tradable,
                             down : SUBSET Sources]]

\* What a fill is about to store was published by the source it has it from, and
\* a fill in progress has an interval that it is about.
Sourced ==
  \A f \in Fillers :
    /\ pc[f] # "idle" => todo[f] # {}
    /\ pc[f] \in {"store", "insert"} =>
         answer[f].source \in Sources /\ answer[f].days \subseteq published[answer[f].source]

Stored == Types /\ Sourced /\ StoredWasPublished

LEMMA HeldDays == ASSUME Types PROVE Held \in SUBSET Days
BY DayAssumption DEF Types, Held

\* The first of some intervals.
LEMMA HeadOf ==
  ASSUME NEW f \in Fillers, todo[f] \in SUBSET Intervals, todo[f] # {}
  PROVE  NextHole(f) \in todo[f]
<1> DEFINE firsts == {i[1] : i \in todo[f]}
<1>1. firsts \in SUBSET Nat /\ firsts # {}
  BY DEF Intervals, Days
<1>2. PICK i \in todo[f] : i[1] = Min(firsts)
  BY <1>1, MinOfSet
<1>3. \A j \in todo[f] : i[1] <= j[1]
  BY <1>1, <1>2, MinOfSet
<1>4. QED  BY <1>3 DEF NextHole

LEMMA FetchableIntervals ==
  ASSUME Types, NEW w \in Intervals
  PROVE  Fetchable(Held, probed, w) \in SUBSET Intervals
<1>1. Held \in SUBSET Days /\ probed \in SUBSET Intervals
  BY HeldDays DEF Types
<1>2. CASE Held = {}
  BY <1>1, <1>2, KnownEmptyWithin DEF Fetchable, Gaps
<1>3. CASE Held # {}
  <2> DEFINE missing == DaysIn(Missing(Held, probed, w))
  <2>1. missing \in SUBSET Days
    BY <1>1, <1>3, MissingWithin, IntervalDays
  <2>2. Gaps(Held, probed, w) = Runs(missing)
    BY <1>3 DEF Gaps, Missing
  <2> HIDE DEF missing
  <2>3. \A g \in Runs(missing) : g \in Intervals
    BY <2>1, RunsWithin
  <2>4. QED  BY <2>2, <2>3 DEF Fetchable
<1>4. QED  BY <1>2, <1>3

LEMMA StoredInit == Init => Stored
BY PublishedAssumption DEF Init, Stored, Types, Sourced, StoredWasPublished, NoAnswer

LEMMA StoredStep == Stored /\ [Next]_vars => Stored'
<1> SUFFICES ASSUME Stored, [Next]_vars PROVE Stored'
  OBVIOUS
<1>a. Types /\ Sourced /\ StoredWasPublished
  BY DEF Stored
<1>h. ASSUME NEW f \in Fillers, pc[f] # "idle" PROVE todo[f] # {} /\ NextHole(f) \in Intervals
  <2>1. todo[f] # {} /\ todo[f] \in SUBSET Intervals
    BY <1>a, <1>h DEF Sourced, Types
  <2>2. QED  BY <2>1, HeadOf
<1>1. ASSUME NEW f \in Fillers, Assess(f) PROVE Stored'
  <2>1. PICK gaps \in SUBSET Intervals : gaps # {} /\ todo' = [todo EXCEPT ![f] = gaps]
    <3>1. Window[f] \in Intervals
      BY WindowAssumption
    <3>2. QED  BY <1>1, <1>a, <3>1, FetchableIntervals DEF Assess
  <2>2. /\ pc' = [pc EXCEPT ![f] = "ask"]
        /\ UNCHANGED <<published, rows, probed, answer>>
    BY <1>1 DEF Assess
  <2>3. Types'
    BY <1>a, <2>1, <2>2 DEF Types
  <2>4. Sourced'
    BY <1>a, <2>1, <2>2 DEF Types, Sourced
  <2>5. QED  BY <1>a, <2>2, <2>3, <2>4 DEF Stored, StoredWasPublished
<1>2. ASSUME NEW f \in Fillers, Ask(f) PROVE Stored'
  <2>1. PICK down \in SUBSET Sources : answer' = [answer EXCEPT ![f] = Answer(NextHole(f), down)]
    BY <1>2 DEF Ask
  <2> DEFINE asked == Sources \ down
             found == {s \in asked : published[s] \cap DaysOf(NextHole(f)) # {}}
             a     == Answer(NextHole(f), down)
  <2>2. found # {} => Min(found) \in found
    BY SourceAssumption, MinOfSet
  <2>3. asked # {} => Max(asked) \in asked
    <3>1. IsFiniteSet(asked)
      BY SourceAssumption, FS_Subset
    <3>2. QED  BY <3>1, MaxOfFinite, SourceAssumption
  <2>4. /\ a.source = IF found # {} THEN Min(found) ELSE IF asked # {} THEN Max(asked) ELSE 0
        /\ a.days = IF found # {} THEN published[Min(found)] \cap DaysOf(NextHole(f)) ELSE {}
        /\ a.down = down /\ a = [source |-> a.source, days |-> a.days, down |-> a.down]
    BY DEF Answer
  <2> HIDE DEF a
  <2>5. a.source \in Sources \cup {0} /\ a.days \in SUBSET Tradable
    <3>1. CASE found # {}
      BY <1>a, <2>2, <2>4, <3>1 DEF Types
    <3>2. CASE found = {}
      BY <2>3, <2>4, <3>2
    <3>3. QED  BY <3>1, <3>2
  <2>6. a.source # 0 => a.source \in Sources /\ a.days \subseteq published[a.source]
    BY <2>2, <2>3, <2>4
  <2>7. /\ UNCHANGED <<published, rows, probed, todo>> /\ pc[f] = "ask"
        /\ pc' = [pc EXCEPT ![f] = IF answer'[f].source = 0 THEN "next" ELSE "store"]
    BY <1>2 DEF Ask
  <2>8. answer' = [answer EXCEPT ![f] = a]
    BY <2>1 DEF a
  <2>9. Types'
    BY <1>a, <2>4, <2>5, <2>7, <2>8 DEF Types
  <2>10. Sourced'
    BY <1>a, <2>6, <2>7, <2>8 DEF Types, Sourced
  <2>11. QED  BY <1>a, <2>7, <2>9, <2>10 DEF Stored, StoredWasPublished
<1>3. ASSUME NEW f \in Fillers, RecordEmpty(f) PROVE Stored'
  <2>1. /\ pc[f] = "store" /\ probed' = probed \cup {NextHole(f)} /\ pc' = [pc EXCEPT ![f] = "next"]
        /\ UNCHANGED <<published, rows, todo, answer>>
    BY <1>3 DEF RecordEmpty, Remember
  <2>2. Types'
    BY <1>a, <1>h, <2>1 DEF Types
  <2>3. Sourced'
    BY <1>a, <2>1 DEF Types, Sourced
  <2>4. QED  BY <1>a, <2>1, <2>2, <2>3 DEF Stored, StoredWasPublished
<1>4. ASSUME NEW f \in Fillers, ReadExisting(f) PROVE Stored'
  <2>1. /\ pc[f] = "store" /\ pc' = [pc EXCEPT ![f] = "insert"]
        /\ answer' = [answer EXCEPT ![f].days = @ \ rows[answer[f].source]]
        /\ UNCHANGED <<published, rows, probed, todo>>
    BY <1>4 DEF ReadExisting
  <2>2. Types'
    BY <1>a, <2>1 DEF Types
  <2>3. Sourced'
    BY <1>a, <2>1 DEF Types, Sourced
  <2>4. QED  BY <1>a, <2>1, <2>2, <2>3 DEF Stored, StoredWasPublished
<1>5. ASSUME NEW f \in Fillers, Insert(f) PROVE Stored'
  <2>1. /\ pc[f] = "insert" /\ pc' = [pc EXCEPT ![f] = "next"]
        /\ \/ rows' = rows
           \/ rows' = [rows EXCEPT ![answer[f].source] = @ \cup answer[f].days]
        /\ UNCHANGED <<published, probed, todo, answer>>
    BY <1>5 DEF Insert
  <2>2. answer[f].source \in Sources /\ answer[f].days \subseteq published[answer[f].source]
    BY <1>a, <2>1 DEF Sourced
  <2>3. answer[f].days \subseteq Tradable
    BY <1>a, <2>2 DEF Types
  <2>4. Types'
    BY <1>a, <2>1, <2>2, <2>3 DEF Types
  <2>5. Sourced'
    BY <1>a, <2>1 DEF Types, Sourced
  <2>6. StoredWasPublished'
    BY <1>a, <2>1, <2>2 DEF Types, StoredWasPublished
  <2>7. QED  BY <2>4, <2>5, <2>6 DEF Stored
<1>6. ASSUME NEW f \in Fillers, Advance(f) PROVE Stored'
  <2>1. /\ pc[f] = "next" /\ todo' = [todo EXCEPT ![f] = @ \ {NextHole(f)}]
        /\ answer' = [answer EXCEPT ![f] = NoAnswer]
        /\ pc' = [pc EXCEPT ![f] = IF todo'[f] = {} THEN "idle" ELSE "ask"]
        /\ UNCHANGED <<published, rows, probed>>
    BY <1>6 DEF Advance
  <2>2. Types'
    BY <1>a, <2>1 DEF Types, NoAnswer
  <2>3. Sourced'
    BY <1>a, <2>1 DEF Types, Sourced
  <2>4. QED  BY <1>a, <2>1, <2>2, <2>3 DEF Stored, StoredWasPublished
<1>7. ASSUME NEW s \in Sources, NEW d \in Tradable, Crawl(s, d) PROVE Stored'
  <2>1. /\ d \in published[s] /\ rows' = [rows EXCEPT ![s] = @ \cup {d}]
        /\ UNCHANGED <<published, probed, pc, todo, answer>>
    BY <1>7 DEF Crawl
  <2>2. Types' /\ Sourced'
    BY <1>a, <2>1 DEF Types, Sourced
  <2>3. StoredWasPublished'
    BY <1>a, <2>1 DEF Types, StoredWasPublished
  <2>4. QED  BY <2>2, <2>3 DEF Stored
<1>8. ASSUME NEW s \in Sources, NEW d \in Tradable, PublishDay(s, d) PROVE Stored'
  <2>1. /\ published' = [published EXCEPT ![s] = @ \cup {d}]
        /\ UNCHANGED <<rows, probed, pc, todo, answer>>
    BY <1>8 DEF PublishDay
  <2>2. Types'
    BY <1>a, <2>1 DEF Types
  <2>3. \A t \in Sources : published[t] \subseteq published'[t]
    BY <1>a, <2>1 DEF Types
  <2>4. Sourced' /\ StoredWasPublished'
    BY <1>a, <2>1, <2>3 DEF Sourced, StoredWasPublished
  <2>5. QED  BY <2>2, <2>4 DEF Stored
<1>9. CASE UNCHANGED vars
  BY <1>a, <1>9 DEF vars, Stored, Types, Sourced, StoredWasPublished
<1>10. QED
  BY <1>1, <1>2, <1>3, <1>4, <1>5, <1>6, <1>7, <1>8, <1>9 DEF Next, FillStep

\* However fills, crawls and late publications interleave, and whichever sources
\* fail, a day is stored under a source only if that source has published it
\* (_fetch_interval, write_cache_range_new_only).
THEOREM OnlyPublishedIsStored == Spec => []StoredWasPublished
<1>1. Stored => StoredWasPublished
  BY DEF Stored
<1>2. QED  BY <1>1, StoredInit, StoredStep, PTL DEF Spec

LEMMA StoredReports == Stored => WideHolesReported
<1> SUFFICES ASSUME Stored, Held # {}, NEW w \in Intervals
             PROVE  /\ \A i \in Runs(WindowDays(w) \ Held) :
                         /\ Cardinality(DaysOf(i)) >= MinHole
                         /\ ~Dense(w) \/ i[2] < Min(Held) \/ i[1] > Max(Held)
                         => \E g \in Gaps(Held, probed, w) : DaysOf(i) \subseteq DaysOf(g)
                    /\ \A g \in Gaps(Held, probed, w) : DaysOf(g) \cap Held \subseteq DaysIn(probed)
  BY DEF WideHolesReported
<1>1. Held \in SUBSET Days /\ probed \in SUBSET Intervals
  BY HeldDays DEF Stored, Types
<1> DEFINE present == Cardinality(Held \cap WindowDays(w)) * 100
           wanted  == MinCoverage * Cardinality(WindowDays(w) \cap (Min(Held) .. Max(Held)))
<1>2. ~Dense(w) => present < wanted
  <2>1. present \in Int /\ wanted \in Int
    <3>1. w[1] \in Int /\ w[2] \in Int
      BY DEF Intervals, Days
    <3>2. IsFiniteSet(WindowDays(w))
      BY <3>1, FS_Interval DEF WindowDays
    <3>3. /\ IsFiniteSet(Held \cap WindowDays(w))
          /\ IsFiniteSet(WindowDays(w) \cap (Min(Held) .. Max(Held)))
      BY <3>2, FS_Subset
    <3>4. /\ Cardinality(Held \cap WindowDays(w)) \in Nat
          /\ Cardinality(WindowDays(w) \cap (Min(Held) .. Max(Held))) \in Nat
      BY <3>3, FS_CardinalityType
    <3>5. MinCoverage \in Nat
      BY ThresholdAssumption
    <3>6. QED  BY <3>4, <3>5
  <2>2. Dense(w) <=> present >= wanted
    BY DEF Dense
  <2> HIDE DEF present, wanted
  <2>3. QED  BY <2>1, <2>2
<1>3. ASSUME NEW i \in Runs(WindowDays(w) \ Held),
             Cardinality(DaysOf(i)) >= MinHole,
             ~Dense(w) \/ i[2] < Min(Held) \/ i[1] > Max(Held)
      PROVE  \E g \in Gaps(Held, probed, w) : DaysOf(i) \subseteq DaysOf(g)
  <2>1. DaysOf(i) \subseteq DaysIn(Missing(Held, probed, w))
    BY <1>1, <1>2, <1>3, HoleMissing
  <2>2. QED  BY <1>1, <2>1, HolesReported
<1>4. QED  BY <1>1, <1>3, HolesReported

\* For any held days, recorded empty intervals, thresholds and window: a wide hole
\* of a series that has a point is reported, and what is reported is not held
\* (coverage of fetch/coverage.py, over every state that fills can reach).
THEOREM HolesAreReported == Spec => []WideHolesReported
<1>1. QED
  BY StoredInit, StoredStep, StoredReports, PTL DEF Spec

--------------------------------------------------------------------------------
(* The egress circuit                                                       *)

\* The doubled cooldown of the probe job, and its cap, is a number of seconds.
LEMMA MinIsNat ==
  ASSUME NEW a \in Nat, NEW b \in Nat
  PROVE  Min({a, b}) \in Nat
BY MinOfTwo

Good(st) == st \in Circuit /\ Sound(st)

LEMMA FreshGood == Good(Fresh)
BY CircuitAssumption DEF Good, Fresh, Circuit, Sound, None

\* A trip leaves full cycles permanent and gives the circuit its cooldown.
LEMMA TripGood ==
  ASSUME NEW st \in Circuit, NEW left \in Nat,
         st.cycles = PermanentCycles => st.permanent
  PROVE  Good(Trip(st, left))
<1> DEFINE open == "open"
           tripped == [st EXCEPT !.state = open, !.cooldown = left]
<1>1. open \in {"closed", "open"} /\ open = "open" /\ Trip(st, left) = tripped
  BY DEF Trip
<1> HIDE DEF open
<1>2. /\ tripped \in Circuit
      /\ tripped.state = open /\ tripped.cooldown = left
      /\ tripped.cycles = st.cycles /\ tripped.permanent = st.permanent
  BY <1>1 DEF Circuit
<1> HIDE DEF tripped
<1>3. Sound(tripped)
  BY <1>1, <1>2 DEF Sound, None
<1>4. QED  BY <1>1, <1>2, <1>3 DEF Good

\* What record_outcome makes of a sound hash is sound.
LEMMA OutcomeGood ==
  ASSUME NEW st, Good(st), NEW class \in Classes
  PROVE  Good(AfterOutcome(st, class))
<1>1. st \in Circuit /\ Sound(st)
  BY DEF Good
<1> DEFINE fail      == Count(st.fail, BanThreshold)
           transient == Count(st.transient, TransientThreshold)
           zero      == 0
<1>2. /\ fail \in 0 .. BanThreshold /\ transient \in 0 .. TransientThreshold
      /\ zero \in 0 .. BanThreshold /\ zero \in 0 .. TransientThreshold
      /\ zero = 0
  BY <1>1, CircuitAssumption DEF Count, Circuit
<1>3. AfterBan(st) =
        LET banned == [st EXCEPT !.fail = fail, !.transient = zero]
        IN IF banned.fail = BanThreshold /\ st.state # "open"
           THEN Trip(banned, CooldownSec) ELSE banned
  BY DEF AfterBan
<1>4. AfterTransient(st) =
        LET flaky == [st EXCEPT !.transient = transient]
        IN IF flaky.transient = TransientThreshold /\ st.state # "open"
           THEN Trip(flaky, TransientCooldownSec) ELSE flaky
  BY DEF AfterTransient
<1>5. AfterOk(st) = [st EXCEPT !.fail = zero, !.transient = zero]
  BY DEF AfterOk
<1> HIDE DEF fail, transient, zero
<1>6. Good(AfterBan(st))
  <2> DEFINE banned == [st EXCEPT !.fail = fail, !.transient = zero]
  <2>1. /\ banned \in Circuit
        /\ banned.state = st.state /\ banned.cooldown = st.cooldown
        /\ banned.cycles = st.cycles /\ banned.permanent = st.permanent
        /\ banned.fail = fail /\ banned.transient = zero
    BY <1>1, <1>2 DEF Circuit
  <2>2. AfterBan(st) = IF fail = BanThreshold /\ st.state # "open"
                       THEN Trip(banned, CooldownSec) ELSE banned
    BY <1>3, <2>1
  <2> HIDE DEF banned
  <2>3. CASE fail = BanThreshold /\ st.state # "open"
    <3>1. Good(Trip(banned, CooldownSec))
      BY <1>1, <2>1, TripGood, CooldownAssumption DEF Sound
    <3>2. QED  BY <2>2, <2>3, <3>1
  <2>4. CASE ~(fail = BanThreshold /\ st.state # "open")
    <3>1. st.state = "closed" => banned.fail < BanThreshold
      BY <1>2, <2>1, <2>4, CircuitAssumption
    <3>2. Sound(banned)
      BY <1>1, <1>2, <2>1, <3>1, CircuitAssumption DEF Sound
    <3>3. QED  BY <2>1, <2>2, <2>4, <3>2 DEF Good
  <2>5. QED  BY <2>3, <2>4
<1>7. Good(AfterTransient(st))
  <2> DEFINE flaky == [st EXCEPT !.transient = transient]
  <2>1. /\ flaky \in Circuit
        /\ flaky.state = st.state /\ flaky.cooldown = st.cooldown /\ flaky.fail = st.fail
        /\ flaky.cycles = st.cycles /\ flaky.permanent = st.permanent
        /\ flaky.transient = transient
    BY <1>1, <1>2 DEF Circuit
  <2>2. AfterTransient(st) = IF transient = TransientThreshold /\ st.state # "open"
                             THEN Trip(flaky, TransientCooldownSec) ELSE flaky
    BY <1>4, <2>1
  <2> HIDE DEF flaky
  <2>3. CASE transient = TransientThreshold /\ st.state # "open"
    <3>1. Good(Trip(flaky, TransientCooldownSec))
      BY <1>1, <2>1, TripGood, CooldownAssumption DEF Sound
    <3>2. QED  BY <2>2, <2>3, <3>1
  <2>4. CASE ~(transient = TransientThreshold /\ st.state # "open")
    <3>1. st.state = "closed" => flaky.transient < TransientThreshold
      BY <1>2, <2>1, <2>4, CircuitAssumption
    <3>2. Sound(flaky)
      BY <1>1, <2>1, <3>1 DEF Sound
    <3>3. QED  BY <2>1, <2>2, <2>4, <3>2 DEF Good
  <2>5. QED  BY <2>3, <2>4
<1>8. Good(AfterOk(st))
  <2> DEFINE fine == [st EXCEPT !.fail = zero, !.transient = zero]
  <2>1. /\ fine \in Circuit
        /\ fine.state = st.state /\ fine.cooldown = st.cooldown
        /\ fine.cycles = st.cycles /\ fine.permanent = st.permanent
        /\ fine.fail = zero /\ fine.transient = zero
    BY <1>1, <1>2 DEF Circuit
  <2> HIDE DEF fine
  <2>2. Sound(fine)
    BY <1>1, <1>2, <2>1, CircuitAssumption DEF Sound
  <2>3. QED  BY <1>5, <2>1, <2>2 DEF Good, fine
<1>9. QED
  <2>1. CASE class = "ban"
    BY <1>6, <2>1 DEF AfterOutcome
  <2>2. CASE class = "transient"
    BY <1>7, <2>2 DEF AfterOutcome
  <2>3. CASE class = "ok"
    BY <1>8, <2>3 DEF AfterOutcome
  <2>4. CASE class \notin {"ban", "transient", "ok"}
    <3>1. AfterOutcome(st, class) = st
      BY <2>4 DEF AfterOutcome
    <3>2. QED  BY <3>1
  <2>5. QED  BY <2>1, <2>2, <2>3, <2>4

\* Neither outcome of a probe leaves the hash unsound.
LEMMA ProbedGood ==
  ASSUME NEW st, Good(st)
  PROVE  Good(ProbedHealthy(st)) /\ Good(ProbedBad(st))
<1>1. st \in Circuit /\ Sound(st)
  BY DEF Good
<1> DEFINE closed == "closed"
           open   == "open"
           zero   == 0
<1>2. /\ closed \in {"closed", "open"} /\ open \in {"closed", "open"}
      /\ zero \in 0 .. BanThreshold /\ zero \in 0 .. TransientThreshold
      /\ zero \in 0 .. PermanentCycles
      /\ zero = 0 /\ closed = "closed" /\ open = "open"
  BY CircuitAssumption
<1>3. Good(ProbedHealthy(st))
  <2> DEFINE none == None
             well == [st EXCEPT !.state = closed, !.fail = zero, !.transient = zero,
                                !.cycles = zero, !.cooldown = none]
  <2>1. none \in Nat \cup {None}
    OBVIOUS
  <2>2. ProbedHealthy(st) = well
    BY DEF ProbedHealthy
  <2> HIDE DEF closed, open, zero, none
  <2>3. /\ well \in Circuit
        /\ well.state = closed /\ well.fail = zero /\ well.transient = zero
        /\ well.cycles = zero
    BY <1>1, <1>2, <2>1 DEF Circuit
  <2> HIDE DEF well
  <2>4. Sound(well)
    BY <1>2, <2>3, CircuitAssumption DEF Sound
  <2>5. QED  BY <2>2, <2>3, <2>4 DEF Good
<1>4. Good(ProbedBad(st))
  <2> DEFINE cycles    == Count(st.cycles, PermanentCycles)
             left      == IF st.cooldown # 0 THEN CooldownMaxSec
                          ELSE Min({2 * CooldownSec, CooldownMaxSec})
             permanent == st.permanent \/ cycles = PermanentCycles
             bad == [st EXCEPT !.state = open, !.transient = zero, !.cooldown = left,
                               !.cycles = cycles, !.permanent = permanent]
  <2>1. cycles \in 0 .. PermanentCycles
    BY <1>1, CircuitAssumption DEF Count, Circuit
  <2>2. left \in Nat
    BY MinIsNat, CooldownAssumption
  <2>3. permanent \in BOOLEAN
    BY <1>1 DEF Circuit
  <2>4. ProbedBad(st) = bad
    BY DEF ProbedBad
  <2>5. cycles = PermanentCycles => permanent
    OBVIOUS
  <2> HIDE DEF cycles, left, permanent, closed, open, zero
  <2>6. /\ bad \in Circuit
        /\ bad.state = open /\ bad.cooldown = left /\ bad.cycles = cycles
        /\ bad.permanent = permanent
    BY <1>1, <1>2, <2>1, <2>2, <2>3 DEF Circuit
  <2> HIDE DEF bad
  <2>7. Sound(bad)
    BY <1>2, <2>2, <2>5, <2>6 DEF Sound, None
  <2>8. QED  BY <2>4, <2>6, <2>7 DEF Good
<1>5. QED  BY <1>3, <1>4

\* A cooldown that a write leaves out is the one of the hash: an open circuit has one.
LEMMA HSetGood ==
  ASSUME Good(circuit), NEW st, Good(st)
  PROVE  /\ Good(HSet(st))
         /\ HSet(st).cycles = st.cycles /\ HSet(st).permanent = st.permanent
         /\ HSet(st).state = st.state
BY DEF Good, HSet, Circuit, Sound, None

\* Time changes the cooldown alone, and keeps it one.
LEMMA LaterGood ==
  ASSUME NEW st, Good(st)
  PROVE  /\ Good(Later(st))
         /\ Later(st).cycles = st.cycles /\ Later(st).permanent = st.permanent
BY DEF Good, Later, Circuit, Sound, None

--------------------------------------------------------------------------------
(* Types and soundness                                                      *)

\* All copies of the hash are sound: a stale one may be written.
CopiesSound ==
  /\ Sound(circuit) /\ Sound(scanned)
  /\ \A w \in Workers : Sound(read[w])

IInv == CircuitTypeOK /\ CopiesSound

LEMMA CopiesGood ==
  ASSUME IInv
  PROVE  Good(circuit) /\ Good(scanned) /\ \A w \in Workers : Good(read[w])
BY DEF IInv, CircuitTypeOK, CopiesSound, Good

LEMMA InitInv == CircuitInit => IInv
<1> SUFFICES ASSUME CircuitInit PROVE IInv
  OBVIOUS
<1>1. Fresh \in Circuit /\ Sound(Fresh)
  BY FreshGood DEF Good
<1>2. started \in 0 .. MaxFetches /\ deaths \in 0 .. MaxDeaths /\ fails \in 0 .. PermanentCycles
  BY CircuitAssumption DEF CircuitInit
<1>3. CircuitTypeOK
  BY <1>1, <1>2, Zenon DEF CircuitInit, CircuitTypeOK, Classes
<1>4. CopiesSound
  BY <1>1 DEF CircuitInit, CopiesSound
<1>5. QED  BY <1>3, <1>4 DEF IInv

\* The bookkeeping of an attempt keeps its type.
LEMMA ContinueTypes ==
  ASSUME CircuitTypeOK, NEW w \in Workers, NEW class \in Classes, Continue(w, class)
  PROVE  /\ retried' \in [Workers -> BOOLEAN]
         /\ outcome' \in [Workers -> Classes]
         /\ stage' \in [Workers -> {"idle", "fetch", "release", "write"}]
<1> DEFINE retry == class = "transient" /\ ~retried[w]
<1>1. retry \in BOOLEAN
  OBVIOUS
<1>2. /\ retried' = [retried EXCEPT ![w] = retry]
      /\ outcome' = [outcome EXCEPT ![w] = "ok"]
      /\ stage' = [stage EXCEPT ![w] = IF retry THEN "fetch" ELSE "idle"]
  BY DEF Continue
<1> HIDE DEF retry
<1>3. QED  BY <1>1, <1>2 DEF CircuitTypeOK, Classes

LEMMA StepInv == IInv /\ [CircuitNext]_circuitVars => IInv'
<1> SUFFICES ASSUME IInv, [CircuitNext]_circuitVars PROVE IInv'
  OBVIOUS
<1> USE DEF circuitBounds
<1>1. CircuitTypeOK /\ CopiesSound
  BY DEF IInv
<1>2. /\ Good(circuit) /\ Good(scanned) /\ Good(Fresh)
      /\ \A w \in Workers : Good(read[w])
  BY CopiesGood, FreshGood
<1>3. ASSUME NEW w \in Workers, Acquire(w) PROVE IInv'
  <2>1. started' \in 0 .. MaxFetches
    BY <1>1, <1>3, CircuitAssumption DEF Acquire, CircuitTypeOK
  <2>2. QED  BY <1>1, <1>3, <2>1 DEF Acquire, probeVars, CircuitTypeOK, CopiesSound, IInv
<1>4. ASSUME NEW w \in Workers, Fetch(w) PROVE IInv'
  <2>1. PICK class \in Classes :
          IF class = "permanent"
          THEN Continue(w, class)
          ELSE /\ outcome' = [outcome EXCEPT ![w] = class]
               /\ stage' = [stage EXCEPT ![w] = "release"]
               /\ UNCHANGED retried
    BY <1>4 DEF Fetch
  <2>2. /\ retried' \in [Workers -> BOOLEAN]
        /\ outcome' \in [Workers -> Classes]
        /\ stage' \in [Workers -> {"idle", "fetch", "release", "write"}]
    BY <1>1, <2>1, ContinueTypes DEF CircuitTypeOK
  <2>3. QED  BY <1>1, <1>4, <2>2 DEF Fetch, probeVars, CircuitTypeOK, CopiesSound, IInv
<1>5. ASSUME NEW w \in Workers, Unreleased(w) PROVE IInv'
  <2>1. outcome[w] \in Classes
    BY <1>1 DEF CircuitTypeOK
  <2>2. /\ retried' \in [Workers -> BOOLEAN]
        /\ outcome' \in [Workers -> Classes]
        /\ stage' \in [Workers -> {"idle", "fetch", "release", "write"}]
    BY <1>1, <1>5, <2>1, ContinueTypes DEF Unreleased
  <2>3. QED  BY <1>1, <1>5, <2>2 DEF Unreleased, probeVars, CircuitTypeOK, CopiesSound, IInv
<1>6. ASSUME NEW w \in Workers, ReadCircuit(w) PROVE IInv'
  <2>1. read' \in [Workers -> Circuit] /\ \A v \in Workers : Sound(read'[v])
    BY <1>1, <1>6 DEF ReadCircuit, CircuitTypeOK, CopiesSound
  <2>2. stage' \in [Workers -> {"idle", "fetch", "release", "write"}]
    BY <1>1, <1>6 DEF ReadCircuit, CircuitTypeOK
  <2>3. UNCHANGED <<circuit, active, retried, outcome, probe, healthy, scanned, started,
                    deaths, fails, raced>>
    BY <1>6 DEF ReadCircuit, probeVars
  <2>4. CopiesSound'
    <3>1. Sound(circuit)' /\ Sound(scanned)'
      BY <1>1, <2>3 DEF CopiesSound, Sound
    <3>2. QED  BY <2>1, <3>1 DEF CopiesSound, Sound
  <2>5. CircuitTypeOK'
    BY <1>1, <2>1, <2>2, <2>3 DEF CircuitTypeOK
  <2>6. QED  BY <2>4, <2>5 DEF IInv
<1>7. ASSUME NEW w \in Workers, WriteCircuit(w) PROVE IInv'
  <2>1. outcome[w] \in Classes
    BY <1>1 DEF CircuitTypeOK
  <2>2. Good(HSet(AfterOutcome(read[w], outcome[w])))
    BY <1>2, <2>1, OutcomeGood, HSetGood
  <2>3. circuit' \in Circuit /\ Sound(circuit')
    BY <1>7, <2>2 DEF WriteCircuit, Good
  <2>4. /\ retried' \in [Workers -> BOOLEAN]
        /\ outcome' \in [Workers -> Classes]
        /\ stage' \in [Workers -> {"idle", "fetch", "release", "write"}]
    BY <1>1, <1>7, <2>1, ContinueTypes DEF WriteCircuit
  <2>5. read' = [read EXCEPT ![w] = Fresh]
    BY <1>7 DEF WriteCircuit
  <2>6. read' \in [Workers -> Circuit] /\ \A v \in Workers : Sound(read'[v])
    BY <1>1, <1>2, <2>5 DEF CircuitTypeOK, CopiesSound, Good
  <2>7. raced' \in BOOLEAN /\ UNCHANGED <<active, probe, healthy, scanned, started, deaths, fails>>
    BY <1>1, <1>7 DEF WriteCircuit, probeVars, CircuitTypeOK
  <2>8. CircuitTypeOK'
    BY <1>1, <2>3, <2>4, <2>6, <2>7 DEF CircuitTypeOK
  <2>9. CopiesSound'
    <3>1. Sound(scanned)'
      BY <1>1, <2>7 DEF CopiesSound, Sound
    <3>2. QED  BY <2>3, <2>6, <3>1 DEF CopiesSound, Sound
  <2>10. QED  BY <2>8, <2>9 DEF IInv
<1>8. ASSUME ProbeStart \/ ProbeEscapes PROVE IInv'
  BY <1>1, <1>8 DEF ProbeStart, ProbeEscapes, workerVars, CircuitTypeOK, CopiesSound, IInv
<1>9. ASSUME ProbeAsk PROVE IInv'
  BY <1>1, <1>9 DEF ProbeAsk, workerVars, CircuitTypeOK, CopiesSound, IInv
<1>10. ASSUME ProbeRead PROVE IInv'
  BY <1>1, <1>10 DEF ProbeRead, workerVars, CircuitTypeOK, CopiesSound, IInv, Sound
<1>11. ASSUME ProbeWrite PROVE IInv'
  <2> DEFINE st == IF healthy THEN ProbedHealthy(scanned) ELSE ProbedBad(scanned)
  <2>1. Good(st)
    BY <1>2, ProbedGood
  <2>2. Good(HSet(st))
    BY <1>2, <2>1, HSetGood
  <2>3. circuit' = HSet(st)
    BY <1>11 DEF ProbeWrite
  <2> HIDE DEF st
  <2>4. circuit' \in Circuit /\ Sound(circuit')
    BY <2>2, <2>3 DEF Good
  <2>5. scanned' \in Circuit /\ Sound(scanned')
    BY <1>2, <1>11 DEF ProbeWrite, Good
  <2>6. fails' \in 0 .. PermanentCycles
    BY <1>1, <1>11, CircuitAssumption DEF ProbeWrite, CircuitTypeOK, Count
  <2>7. probe' \in {"idle", "retire"}
    BY <1>11 DEF ProbeWrite
  <2>8. /\ raced' \in BOOLEAN /\ healthy' = FALSE
        /\ UNCHANGED <<active, stage, retried, outcome, read, started, deaths>>
    BY <1>1, <1>11 DEF ProbeWrite, workerVars, CircuitTypeOK
  <2>9. CircuitTypeOK'
    BY <1>1, <2>4, <2>5, <2>6, <2>7, <2>8 DEF CircuitTypeOK
  <2>10. CopiesSound'
    <3>1. \A v \in Workers : Sound(read[v])'
      BY <1>1, <2>8 DEF CopiesSound, Sound
    <3>2. QED  BY <2>4, <2>5, <3>1 DEF CopiesSound, Sound
  <2>11. QED  BY <2>9, <2>10 DEF IInv
<1>12. ASSUME Retire PROVE IInv'
  BY <1>1, <1>12 DEF Retire, workerVars, CircuitTypeOK, CopiesSound, IInv
<1>13. ASSUME ProbeDies PROVE IInv'
  <2>1. deaths' \in 0 .. MaxDeaths
    BY <1>1, <1>13, CircuitAssumption DEF ProbeDies, CircuitTypeOK
  <2>2. scanned' \in Circuit /\ Sound(scanned')
    BY <1>2, <1>13 DEF ProbeDies, Good
  <2>3. /\ probe' = "idle" /\ healthy' = FALSE
        /\ UNCHANGED <<circuit, active, stage, retried, outcome, read, started, fails, raced>>
    BY <1>13 DEF ProbeDies, workerVars
  <2>4. CircuitTypeOK'
    BY <1>1, <2>1, <2>2, <2>3 DEF CircuitTypeOK
  <2>5. CopiesSound'
    <3>1. Sound(circuit)' /\ \A v \in Workers : Sound(read[v])'
      BY <1>1, <2>3 DEF CopiesSound, Sound
    <3>2. QED  BY <2>2, <3>1 DEF CopiesSound, Sound
  <2>6. QED  BY <2>4, <2>5 DEF IInv
<1>14. ASSUME Tick PROVE IInv'
  <2>1. /\ Good(Later(circuit)) /\ Good(Later(scanned))
        /\ \A v \in Workers : Good(Later(read[v]))
    BY <1>2, LaterGood
  <2>2. circuit' \in Circuit /\ Sound(circuit') /\ scanned' \in Circuit /\ Sound(scanned')
    BY <1>14, <2>1 DEF Tick, Good
  <2>3. read' = [v \in Workers |-> Later(read[v])]
    BY <1>14 DEF Tick
  <2>4. read' \in [Workers -> Circuit] /\ \A v \in Workers : Sound(read'[v])
    BY <2>1, <2>3 DEF Good
  <2>5. UNCHANGED <<active, stage, retried, outcome, probe, healthy, started, deaths, fails, raced>>
    BY <1>14 DEF Tick
  <2>6. CircuitTypeOK'
    BY <1>1, <2>2, <2>4, <2>5 DEF CircuitTypeOK
  <2>7. CopiesSound'
    BY <2>2, <2>4 DEF CopiesSound, Sound
  <2>8. QED  BY <2>6, <2>7 DEF IInv
<1>15. ASSUME UNCHANGED circuitVars PROVE IInv'
  BY <1>1, <1>15 DEF circuitVars, workerVars, probeVars, CircuitTypeOK, CopiesSound, Sound, IInv
<1>16. QED
  BY <1>3, <1>4, <1>5, <1>6, <1>7, <1>8, <1>9, <1>10, <1>11, <1>12, <1>13, <1>14, <1>15
     DEF CircuitNext, FetchEnds, ProbeStep

LEMMA Invariant == CircuitSpec => []IInv
BY InitInv, StepInv, PTL DEF CircuitSpec

\* Every variable of the circuit, its calls and the probe job keeps its type.
THEOREM CircuitTypeCorrect == CircuitSpec => []CircuitTypeOK
<1>1. IInv => CircuitTypeOK
  BY DEF IInv
<1>2. QED  BY <1>1, Invariant, PTL

\* However forwarder and probe job overtake each other, the hash makes sense.
THEOREM CircuitStaysSound == CircuitSpec => []CircuitSound
<1>1. IInv => CircuitSound
  BY DEF IInv, CopiesSound, CircuitSound
<1>2. QED  BY <1>1, Invariant, PTL

--------------------------------------------------------------------------------
(* Retirement                                                               *)

\* As long as no write has buried another, the cycles of the hash are the failed
\* probes in a row, and the probe job looks at no unit it has given up.
Earned ==
  ~raced =>
    /\ circuit.cycles = fails
    /\ circuit.permanent => fails = PermanentCycles
    /\ probe \in {"ask", "read", "write"} => ~circuit.permanent
    /\ probe = "retire" => circuit.permanent
    /\ ~active => circuit.permanent

LEMMA InitEarned == CircuitInit => Earned
BY DEF CircuitInit, Earned, Fresh

\* record_outcome leaves what the probe job keeps.
LEMMA OutcomeKeeps ==
  ASSUME NEW st \in Circuit, NEW class
  PROVE  /\ AfterOutcome(st, class).cycles = st.cycles
         /\ AfterOutcome(st, class).permanent = st.permanent
<1>1. /\ AfterBan(st).cycles = st.cycles /\ AfterBan(st).permanent = st.permanent
  BY DEF AfterBan, Trip, Circuit
<1>2. /\ AfterTransient(st).cycles = st.cycles /\ AfterTransient(st).permanent = st.permanent
  BY DEF AfterTransient, Trip, Circuit
<1>3. /\ AfterOk(st).cycles = st.cycles /\ AfterOk(st).permanent = st.permanent
  BY DEF AfterOk, Circuit
<1>4. QED  BY <1>1, <1>2, <1>3 DEF AfterOutcome

LEMMA StepEarned == IInv /\ Earned /\ [CircuitNext]_circuitVars => Earned'
<1> SUFFICES ASSUME IInv, Earned, [CircuitNext]_circuitVars, ~raced' PROVE Earned'
  BY DEF Earned
<1>1. CircuitTypeOK
  BY DEF IInv
<1>2. Good(circuit) /\ Good(scanned) /\ \A w \in Workers : Good(read[w])
  BY CopiesGood
<1>3. ASSUME NEW w \in Workers, Acquire(w) \/ Fetch(w) \/ Unreleased(w) \/ ReadCircuit(w)
      PROVE  Earned'
  <2>1. UNCHANGED <<circuit, active, probe, fails, raced>>
    BY <1>3 DEF Acquire, Fetch, Unreleased, ReadCircuit, probeVars
  <2>2. QED  BY <2>1 DEF Earned
<1>4. ASSUME NEW w \in Workers, WriteCircuit(w) PROVE Earned'
  <2>1. ~raced /\ circuit = read[w] /\ UNCHANGED <<active, probe, fails>>
    BY <1>4 DEF WriteCircuit, probeVars
  <2>2. outcome[w] \in Classes /\ circuit \in Circuit
    BY <1>1 DEF CircuitTypeOK
  <2>3. Good(AfterOutcome(circuit, outcome[w]))
    BY <1>2, <2>2, OutcomeGood
  <2>4. circuit' = HSet(AfterOutcome(circuit, outcome[w]))
    BY <1>4, <2>1 DEF WriteCircuit
  <2>5. circuit'.cycles = circuit.cycles /\ circuit'.permanent = circuit.permanent
    BY <1>2, <2>2, <2>3, <2>4, HSetGood, OutcomeKeeps
  <2>6. QED  BY <2>1, <2>5 DEF Earned
<1>5. ASSUME ProbeStart \/ ProbeEscapes PROVE Earned'
  BY <1>5 DEF ProbeStart, ProbeEscapes, Ready, Earned
<1>6. ASSUME ProbeAsk \/ ProbeRead PROVE Earned'
  BY <1>6 DEF ProbeAsk, ProbeRead, Earned
<1>7. ASSUME ProbeWrite PROVE Earned'
  <2>1. /\ ~raced /\ circuit = scanned /\ probe = "write" /\ UNCHANGED active
        /\ fails' = IF healthy THEN 0 ELSE Count(fails, PermanentCycles)
    BY <1>7 DEF ProbeWrite
  <2>2. circuit.cycles = fails /\ ~circuit.permanent /\ active
    BY <2>1 DEF Earned
  <2>3. circuit \in Circuit
    BY <1>1 DEF CircuitTypeOK
  <2>4. CASE healthy
    <3>1. circuit' = HSet(ProbedHealthy(circuit)) /\ fails' = 0
          /\ probe' = IF ProbedHealthy(circuit).permanent THEN "retire" ELSE "idle"
      BY <1>7, <2>1, <2>4 DEF ProbeWrite
    <3>2. ProbedHealthy(circuit).cycles = 0 /\ ProbedHealthy(circuit).permanent = circuit.permanent
      BY <2>3 DEF ProbedHealthy, Circuit
    <3>3. circuit'.cycles = 0 /\ circuit'.permanent = circuit.permanent
      BY <1>2, <3>1, <3>2, ProbedGood, HSetGood
    <3>4. QED  BY <2>1, <2>2, <3>1, <3>2, <3>3 DEF Earned
  <2>5. CASE ~healthy
    <3>1. /\ circuit' = HSet(ProbedBad(circuit)) /\ fails' = Count(fails, PermanentCycles)
          /\ probe' = IF ProbedBad(circuit).permanent THEN "retire" ELSE "idle"
      BY <1>7, <2>1, <2>5 DEF ProbeWrite
    <3>2. /\ ProbedBad(circuit).cycles = Count(circuit.cycles, PermanentCycles)
          /\ ProbedBad(circuit).permanent =
               (circuit.permanent \/ Count(circuit.cycles, PermanentCycles) = PermanentCycles)
      BY <2>3 DEF ProbedBad, Circuit
    <3>3. /\ circuit'.cycles = ProbedBad(circuit).cycles
          /\ circuit'.permanent = ProbedBad(circuit).permanent
      BY <1>2, <3>1, ProbedGood, HSetGood
    <3>4. QED  BY <2>1, <2>2, <3>1, <3>2, <3>3 DEF Earned
  <2>6. QED  BY <2>4, <2>5
<1>8. ASSUME Retire PROVE Earned'
  BY <1>8 DEF Retire, Earned
<1>9. ASSUME ProbeDies PROVE Earned'
  BY <1>9 DEF ProbeDies, Earned
<1>10. ASSUME Tick PROVE Earned'
  <2>1. circuit'.cycles = circuit.cycles /\ circuit'.permanent = circuit.permanent
    BY <1>2, <1>10, LaterGood DEF Tick
  <2>2. UNCHANGED <<active, probe, fails, raced>>
    BY <1>10 DEF Tick
  <2>3. QED  BY <2>1, <2>2 DEF Earned
<1>11. ASSUME UNCHANGED circuitVars PROVE Earned'
  BY <1>11 DEF circuitVars, probeVars, Earned
<1>12. QED
  BY <1>3, <1>4, <1>5, <1>6, <1>7, <1>8, <1>9, <1>10, <1>11 DEF CircuitNext, FetchEnds, ProbeStep

\* Unless a write has buried another, an exit that is retired has failed
\* PermanentCycles probes in a row.
THEOREM RetiredForFailedProbes == CircuitSpec => []RetirementEarned
<1>1. Earned => RetirementEarned
  BY DEF Earned, RetirementEarned
<1>2. QED  BY <1>1, Invariant, InitEarned, StepEarned, PTL DEF CircuitSpec

--------------------------------------------------------------------------------
(* Read-through                                                             *)

Rows     == [v : Int, at : Int]
AskFor   == [dates : SUBSET Dates, range : BOOLEAN, pin : Ranked \cup {Anything}]
Try      == [source : Identified, pair : Nat, score : Int]
Fetched  == UNION {[D -> Nat] : D \in SUBSET Dates}
SourcesOf(C) == {a.source : a \in C}

ReadTypes ==
  /\ now \in Nat
  /\ truth \in [Dates -> Nat]
  /\ cache \in [Ranked -> [Dates -> Rows]]
  /\ access \in [Ranked -> Int]
  /\ phase \in [Readers -> {"idle", "try", "write"}]
  /\ req \in [Readers -> AskFor]
  /\ chain \in [Readers -> SUBSET Try]
  /\ got \in [Readers -> Fetched]
  /\ tried \in [Readers -> SUBSET Identified]
  /\ answered \in SUBSET (Ranked \X Dates)

\* Between them, what a reader has tried and what it has still to try are the sources
\* that might answer, whatever the ranking has become since.
Chains ==
  \A r \in Readers :
    /\ IsFiniteSet(chain[r])
    /\ phase[r] = "idle" => tried[r] = {}
    /\ phase[r] = "try" => tried[r] \cup SourcesOf(chain[r]) = Eligible(req[r].pin)
    /\ phase[r] = "write" => chain[r] # {}

\* No row is ever taken away.
AnswersCached == \A a \in answered : Cached(a[1], a[2])

ReadInv == ReadTypes /\ Chains /\ AnswersCached

LEMMA DatesAreNumbers == Day(LastTick) \in Nat /\ Dates \subseteq Nat
BY TimeAssumption DEF Day, Dates

\* The attempts of a read, whatever their scores, are put in an order.
LEMMA AttemptsOrdered ==
  ASSUME NEW C \in SUBSET Try
  PROVE  Orders({x \in C \X C : Precedes(x[1], x[2])}, C)
<1> DEFINE R == {x \in C \X C : Precedes(x[1], x[2])}
<1>1. ASSUME NEW a \in C PROVE a.source \in Int /\ a.pair \in Int /\ a.score \in Int
  <2>1. a \in Try
    OBVIOUS
  <2>2. a.source \in Identified /\ a.pair \in Nat /\ a.score \in Int
    BY <2>1 DEF Try
  <2>3. Identified \subseteq Ranked /\ Ranked \subseteq Int
    BY RankedAssumption
  <2>4. a.source \in Int
    BY <2>2, <2>3
  <2>5. QED  BY <2>2, <2>4
<1>2. \A a, b \in C : <<a, b>> \in R <=> Precedes(a, b)
  OBVIOUS
<1> HIDE DEF R
<1>3. \A a \in C : ~Precedes(a, a)
  BY <1>1 DEF Precedes
<1>4. ASSUME NEW a \in C, NEW b \in C, NEW c \in C, Precedes(a, b), Precedes(b, c)
      PROVE  Precedes(a, c)
  BY <1>1, <1>4 DEF Precedes
<1>5. ASSUME NEW a \in C, NEW b \in C, a # b, ~Precedes(a, b) PROVE Precedes(b, a)
  <2>1. a.source # b.source \/ a.pair # b.pair \/ a.score # b.score
    BY <1>5 DEF Try
  <2>2. QED  BY <1>1, <1>5, <2>1 DEF Precedes
<1>6. Orders(R, C)
  BY <1>2, <1>3, <1>4, <1>5 DEF Orders
<1>7. QED  BY <1>6 DEF R

\* A chain that is not empty has an attempt to make next.
LEMMA FirstIsNext ==
  ASSUME NEW C \in SUBSET Try, IsFiniteSet(C), C # {}
  PROVE  First(C) \in C /\ First(C).source \in Identified
<1> DEFINE R == {x \in C \X C : Precedes(x[1], x[2])}
<1>1. Orders(R, C)
  BY AttemptsOrdered
<1>2. \A a, b \in C : <<a, b>> \in R => Precedes(a, b)
  OBVIOUS
<1> HIDE DEF R
<1>3. PICK a \in C : \A b \in C \ {a} : <<a, b>> \in R
  BY <1>1, FirstExists
<1>4. \A b \in C \ {a} : Precedes(a, b)
  BY <1>2, <1>3
<1>5. First(C) \in C
  BY <1>4 DEF First
<1>6. QED  BY <1>5 DEF Try

\* A source that might answer has attempts, and none but such a source has.
LEMMA ChainIsEligible ==
  ASSUME ReadTypes, NEW pin
  PROVE  /\ Chain(pin) \in SUBSET Try /\ IsFiniteSet(Chain(pin))
         /\ SourcesOf(Chain(pin)) = Eligible(pin)
<1> DEFINE E == Eligible(pin)
           of(s) == {[source |-> s, pair |-> j, score |-> Score(s)] : j \in 1 .. Attempts[s]}
           sets == {of(s) : s \in E}
<1>1. E \in SUBSET Ranked /\ E \subseteq Identified /\ IsFiniteSet(E)
  BY RankedAssumption, FS_Subset DEF Eligible
<1>2. ASSUME NEW s \in E
      PROVE  /\ Attempts[s] \in Nat /\ Attempts[s] > 0 /\ Score(s) \in Int
             /\ of(s) \in SUBSET Try /\ IsFiniteSet(of(s))
  <2>1. s \in Ranked /\ s \in Identified /\ Quality[s] \in Int /\ access[s] \in Int
    BY <1>1, RankedAssumption DEF ReadTypes
  <2>2. Attempts[s] \in Nat /\ Attempts[s] > 0
    BY <2>1, RankedAssumption
  <2>3. Score(s) \in Int
    BY <2>1 DEF Score
  <2>4. of(s) \in SUBSET Try
    BY <2>1, <2>2, <2>3 DEF Try
  <2>5. IsFiniteSet(of(s))
    <3> DEFINE P == 1 .. Attempts[s]
               f == [j \in P |-> [source |-> s, pair |-> j, score |-> Score(s)]]
    <3>1. IsFiniteSet(P)
      BY <2>2, FS_Interval
    <3>2. f \in Surjection(P, of(s))
      BY DEF Surjection
    <3> HIDE DEF P, f, of
    <3>3. QED  BY <3>1, <3>2, FS_Surjection
  <2>6. QED  BY <2>2, <2>3, <2>4, <2>5
<1>3. Chain(pin) = UNION sets
  BY DEF Chain
<1>4. IsFiniteSet(UNION sets)
  <2> DEFINE f == [s \in E |-> of(s)]
  <2>1. f \in Surjection(E, sets)
    BY DEF Surjection
  <2>2. \A T \in sets : IsFiniteSet(T)
    BY <1>2
  <2> HIDE DEF f, sets, of, E
  <2>3. IsFiniteSet(sets)
    BY <1>1, <2>1, FS_Surjection
  <2>4. QED  BY <2>2, <2>3, FS_UNION
<1>5. UNION sets \in SUBSET Try
  BY <1>2
<1>6. ASSUME NEW s \in E PROVE s \in SourcesOf(Chain(pin))
  <2>1. 1 \in 1 .. Attempts[s]
    <3>1. Attempts[s] \in Nat /\ Attempts[s] > 0
      BY <1>2
    <3>2. QED  BY <3>1
  <2>2. [source |-> s, pair |-> 1, score |-> Score(s)] \in of(s)
    BY <2>1
  <2>3. [source |-> s, pair |-> 1, score |-> Score(s)] \in Chain(pin)
    BY <1>3, <2>2
  <2>4. QED  BY <2>3 DEF SourcesOf
<1>7. ASSUME NEW a \in Chain(pin) PROVE a.source \in E
  BY <1>3
<1>8. QED  BY <1>3, <1>4, <1>5, <1>6, <1>7 DEF SourcesOf

\* What a fetch does to the ranking keeps it a number.
LEMMA OutcomeIsNumber ==
  ASSUME ReadTypes, NEW s \in Ranked, NEW ok \in BOOLEAN, RecordOutcome(s, ok)
  PROVE  access' \in [Ranked -> Int]
<1>1. access \in [Ranked -> Int] /\ access[s] \in Int
  BY DEF ReadTypes
<1>2. access[s] + SuccessStep \in Int /\ access[s] - FailStep \in Int
  BY <1>1, AccessAssumption
<1>3. /\ Min({AccessMax, access[s] + SuccessStep}) \in Int
      /\ Max({AccessMin, access[s] - FailStep}) \in Int
  BY <1>2, AccessAssumption, MinOfTwo, MaxOfTwo
<1>4. PICK a \in {IF ok THEN Min({AccessMax, access[s] + SuccessStep})
                  ELSE Max({AccessMin, access[s] - FailStep}), AccessMin} :
        access' = [access EXCEPT ![s] = a]
  BY DEF RecordOutcome
<1>5. a \in Int
  BY <1>3, AccessAssumption
<1>6. QED  BY <1>1, <1>4, <1>5

\* What is cached stays cached while the cache is left alone.
LEMMA CacheStays ==
  ASSUME AnswersCached, UNCHANGED <<cache, answered>>
  PROVE  AnswersCached'
BY DEF AnswersCached, Cached

\* A read that is over leaves its reader with nothing.
LEMMA DoneInv ==
  ASSUME ReadInv, NEW r \in Readers, Done(r)
  PROVE  /\ phase' \in [Readers -> {"idle", "try", "write"}]
         /\ req' \in [Readers -> AskFor] /\ chain' \in [Readers -> SUBSET Try]
         /\ got' \in [Readers -> Fetched] /\ tried' \in [Readers -> SUBSET Identified]
         /\ Chains'
<1>1. NoReq \in AskFor
  BY DEF NoReq, AskFor
<1>2. <<>> \in Fetched
  <2>1. <<>> \in [{} -> Nat]
    OBVIOUS
  <2>2. QED  BY <2>1 DEF Fetched
<1>3. ReadTypes /\ Chains
  BY DEF ReadInv
<1>4. /\ phase' = [phase EXCEPT ![r] = "idle"] /\ req' = [req EXCEPT ![r] = NoReq]
      /\ chain' = [chain EXCEPT ![r] = {}] /\ got' = [got EXCEPT ![r] = <<>>]
      /\ tried' = [tried EXCEPT ![r] = {}]
  BY DEF Done
<1>5. /\ phase' \in [Readers -> {"idle", "try", "write"}]
      /\ req' \in [Readers -> AskFor] /\ chain' \in [Readers -> SUBSET Try]
      /\ got' \in [Readers -> Fetched] /\ tried' \in [Readers -> SUBSET Identified]
  BY <1>1, <1>2, <1>3, <1>4 DEF ReadTypes
<1>6. Chains'
  <2> SUFFICES ASSUME NEW u \in Readers
               PROVE  /\ IsFiniteSet(chain'[u])
                      /\ phase'[u] = "idle" => tried'[u] = {}
                      /\ phase'[u] = "try" =>
                           tried'[u] \cup SourcesOf(chain'[u]) = Eligible(req'[u].pin)
                      /\ phase'[u] = "write" => chain'[u] # {}
    BY DEF Chains, SourcesOf, Eligible
  <2>1. CASE u = r
    <3>1. chain'[u] = {} /\ tried'[u] = {} /\ phase'[u] = "idle"
      BY <2>1, <1>3, <1>4 DEF ReadTypes
    <3>2. QED  BY <3>1, FS_EmptySet
  <2>2. CASE u # r
    <3>1. /\ chain'[u] = chain[u] /\ tried'[u] = tried[u] /\ phase'[u] = phase[u]
          /\ req'[u] = req[u]
      BY <2>2, <1>3, <1>4 DEF ReadTypes
    <3>2. QED  BY <3>1, <1>3 DEF Chains
  <2>3. QED  BY <2>1, <2>2
<1>7. QED  BY <1>5, <1>6

LEMMA ReadHitInv ==
  ASSUME ReadInv, NEW r \in Readers, NEW q \in Requests, ReadHit(r, q)
  PROVE  ReadInv'
<1>1. UNCHANGED <<now, truth, cache, access, phase, req, chain, got, tried, answered>>
  BY DEF ReadHit, readerVars
<1>2. QED  BY <1>1 DEF ReadInv, ReadTypes, Chains, AnswersCached, Cached

LEMMA ReadMissInv ==
  ASSUME ReadInv, NEW r \in Readers, NEW q \in Requests, ReadMiss(r, q)
  PROVE  ReadInv'
<1>1. ReadTypes /\ Chains /\ AnswersCached /\ q \in AskFor
  BY RequestAssumption DEF ReadInv, AskFor
<1>2. /\ phase[r] = "idle" /\ phase' = [phase EXCEPT ![r] = "try"]
      /\ req' = [req EXCEPT ![r] = q]
      /\ chain' = [chain EXCEPT ![r] = Chain(q.pin)]
      /\ UNCHANGED <<now, truth, cache, access, got, tried, answered>>
  BY DEF ReadMiss, AskOnce
<1> DEFINE C == Chain(q.pin)
<1>3. C \in SUBSET Try /\ IsFiniteSet(C) /\ SourcesOf(C) = Eligible(q.pin)
  BY <1>1, ChainIsEligible
<1> HIDE DEF C
<1>4. ReadTypes'
  <2>1. /\ phase' \in [Readers -> {"idle", "try", "write"}] /\ req' \in [Readers -> AskFor]
        /\ chain' \in [Readers -> SUBSET Try]
    BY <1>1, <1>2, <1>3 DEF ReadTypes, C
  <2>2. QED  BY <1>1, <1>2, <2>1 DEF ReadTypes
<1>5. Chains'
  <2> SUFFICES ASSUME NEW u \in Readers
               PROVE  /\ IsFiniteSet(chain'[u])
                      /\ phase'[u] = "idle" => tried[u] = {}
                      /\ phase'[u] = "try" =>
                           tried[u] \cup SourcesOf(chain'[u]) = Eligible(req'[u].pin)
                      /\ phase'[u] = "write" => chain'[u] # {}
    BY <1>2 DEF Chains, SourcesOf, Eligible
  <2>1. CASE u = r
    <3>1. chain'[u] = C /\ req'[u] = q /\ phase'[u] = "try" /\ tried[u] = {}
      BY <2>1, <1>1, <1>2 DEF ReadTypes, Chains, C
    <3>2. QED  BY <3>1, <1>3
  <2>2. CASE u # r
    <3>1. chain'[u] = chain[u] /\ phase'[u] = phase[u] /\ req'[u] = req[u]
      BY <2>2, <1>1, <1>2 DEF ReadTypes
    <3>2. QED  BY <3>1, <1>1 DEF Chains
  <2>3. QED  BY <2>1, <2>2
<1>6. QED  BY <1>1, <1>2, <1>4, <1>5, CacheStays DEF ReadInv

LEMMA FetchOkInv ==
  ASSUME ReadInv, NEW r \in Readers, FetchOk(r)
  PROVE  ReadInv'
<1>1. ReadTypes /\ Chains /\ AnswersCached
  BY DEF ReadInv
<1> DEFINE D == Begun(req[r].dates)
<1>2. /\ chain[r] # {} /\ phase' = [phase EXCEPT ![r] = "write"]
      /\ got' = [got EXCEPT ![r] = [d \in D |-> truth[d]]]
      /\ UNCHANGED <<now, truth, cache, req, chain, tried, answered>>
  BY DEF FetchOk
<1>3. First(chain[r]).source \in Ranked
  BY <1>1, <1>2, FirstIsNext, RankedAssumption DEF ReadTypes, Chains
<1>4. access' \in [Ranked -> Int]
  BY <1>1, <1>3, OutcomeIsNumber DEF FetchOk
<1>5. D \in SUBSET Dates
  BY <1>1 DEF ReadTypes, AskFor, Begun
<1> HIDE DEF D
<1>6. [d \in D |-> truth[d]] \in Fetched
  <2>1. [d \in D |-> truth[d]] \in [D -> Nat]
    BY <1>1, <1>5 DEF ReadTypes
  <2>2. QED  BY <1>5, <2>1 DEF Fetched
<1>7. ReadTypes'
  <2>1. phase' \in [Readers -> {"idle", "try", "write"}] /\ got' \in [Readers -> Fetched]
    BY <1>1, <1>2, <1>6 DEF ReadTypes
  <2>2. QED  BY <1>1, <1>2, <1>4, <2>1 DEF ReadTypes
<1>8. Chains'
  <2> SUFFICES ASSUME NEW u \in Readers
               PROVE  /\ IsFiniteSet(chain[u])
                      /\ phase'[u] = "idle" => tried[u] = {}
                      /\ phase'[u] = "try" =>
                           tried[u] \cup SourcesOf(chain[u]) = Eligible(req[u].pin)
                      /\ phase'[u] = "write" => chain[u] # {}
    BY <1>2 DEF Chains, SourcesOf, Eligible
  <2>1. phase'[u] = IF u = r THEN "write" ELSE phase[u]
    BY <1>1, <1>2 DEF ReadTypes
  <2>2. QED  BY <2>1, <1>1, <1>2 DEF Chains
<1>9. QED  BY <1>1, <1>2, <1>7, <1>8, CacheStays DEF ReadInv

LEMMA FetchFailsInv ==
  ASSUME ReadInv, NEW r \in Readers, FetchFails(r)
  PROVE  ReadInv'
<1>1. ReadTypes /\ Chains /\ AnswersCached
  BY DEF ReadInv
<1> DEFINE a == First(chain[r])
<1>2. /\ chain[r] # {} /\ phase[r] = "try"
      /\ chain' = [chain EXCEPT ![r] = @ \ {a}]
      /\ tried' = [tried EXCEPT ![r] = @ \cup {a.source}]
      /\ UNCHANGED <<now, truth, cache, phase, req, got, answered>>
  BY DEF FetchFails, Rest
<1>3. a \in chain[r] /\ a.source \in Identified /\ a.source \in Ranked
  BY <1>1, <1>2, FirstIsNext, RankedAssumption DEF ReadTypes, Chains
<1>4. access' \in [Ranked -> Int]
  BY <1>1, <1>3, OutcomeIsNumber DEF FetchFails
<1> HIDE DEF a
<1>5. ReadTypes'
  <2>1. chain' \in [Readers -> SUBSET Try] /\ tried' \in [Readers -> SUBSET Identified]
    BY <1>1, <1>2, <1>3 DEF ReadTypes
  <2>2. QED  BY <1>1, <1>2, <1>4, <2>1 DEF ReadTypes
<1>6. Chains'
  <2> SUFFICES ASSUME NEW u \in Readers
               PROVE  /\ IsFiniteSet(chain'[u])
                      /\ phase[u] = "idle" => tried'[u] = {}
                      /\ phase[u] = "try" =>
                           tried'[u] \cup SourcesOf(chain'[u]) = Eligible(req[u].pin)
                      /\ phase[u] = "write" => chain'[u] # {}
    BY <1>2 DEF Chains, SourcesOf, Eligible
  <2>1. CASE u = r
    <3>1. chain'[u] = chain[u] \ {a} /\ tried'[u] = tried[u] \cup {a.source}
      BY <2>1, <1>1, <1>2 DEF ReadTypes
    <3>2. tried[u] \cup SourcesOf(chain[u]) = Eligible(req[u].pin) /\ IsFiniteSet(chain[u])
      BY <2>1, <1>1, <1>2 DEF Chains
    <3>3. SourcesOf(chain[u]) = SourcesOf(chain'[u]) \cup {a.source}
      BY <2>1, <1>3, <3>1 DEF SourcesOf
    <3>4. IsFiniteSet(chain'[u])
      BY <3>1, <3>2, FS_RemoveElement
    <3>5. tried'[u] \cup SourcesOf(chain'[u]) = Eligible(req[u].pin)
      BY <3>1, <3>2, <3>3
    <3>6. QED  BY <2>1, <1>2, <3>4, <3>5
  <2>2. CASE u # r
    <3>1. chain'[u] = chain[u] /\ tried'[u] = tried[u]
      BY <2>2, <1>1, <1>2 DEF ReadTypes
    <3>2. QED  BY <3>1, <1>1 DEF Chains
  <2>3. QED  BY <2>1, <2>2
<1>7. QED  BY <1>1, <1>2, <1>5, <1>6, CacheStays DEF ReadInv

\* A row that is written is a row, and those that are not are kept.
LEMMA WriteInv ==
  ASSUME ReadInv, NEW r \in Readers, Write(r)
  PROVE  ReadInv'
<1>1. ReadTypes /\ Chains /\ AnswersCached
  BY DEF ReadInv
<1> DEFINE s == First(chain[r]).source
           row(d) == IF d \in DOMAIN got[r] THEN [v |-> got[r][d], at |-> now] ELSE cache[s][d]
<1>2. /\ phase[r] = "write" /\ Done(r)
      /\ cache' = [cache EXCEPT ![s] = [d \in Dates |-> row(d)]]
      /\ answered' = answered \cup ({s} \X DOMAIN got[r])
      /\ UNCHANGED <<now, truth, access>>
  BY DEF Write
<1>3. s \in Ranked
  BY <1>1, <1>2, FirstIsNext, RankedAssumption DEF ReadTypes, Chains
<1>4. PICK D \in SUBSET Dates : got[r] \in [D -> Nat]
  BY <1>1 DEF ReadTypes, Fetched
<1>5. now \in Nat /\ cache \in [Ranked -> [Dates -> Rows]]
  BY <1>1 DEF ReadTypes
<1>6. ASSUME NEW d \in Dates
      PROVE  /\ row(d) \in Rows
             /\ d \in D => row(d) # NoRow
             /\ d \notin D => row(d) = cache[s][d]
  <2>1. CASE d \in D
    <3>1. row(d) = [v |-> got[r][d], at |-> now] /\ got[r][d] \in Int
      BY <1>4, <2>1
    <3>2. now # -1
      BY <1>5
    <3>3. QED  BY <1>5, <2>1, <3>1, <3>2 DEF Rows, NoRow
  <2>2. CASE d \notin D
    <3>1. row(d) = cache[s][d]
      BY <1>4, <2>2
    <3>2. QED  BY <1>3, <1>5, <2>2, <3>1
  <2>3. QED  BY <2>1, <2>2
<1> HIDE DEF row, s
<1>7. cache' \in [Ranked -> [Dates -> Rows]]
  BY <1>2, <1>3, <1>5, <1>6
<1>8. \A d \in Dates : cache'[s][d] = row(d)
  BY <1>2, <1>3, <1>5
<1>9. \A u \in Ranked : u # s => cache'[u] = cache[u]
  BY <1>2, <1>5
<1>10. ReadTypes'
  <2>1. answered' \in SUBSET (Ranked \X Dates)
    BY <1>1, <1>2, <1>3, <1>4 DEF ReadTypes
  <2>2. QED  BY <1>1, <1>2, <1>7, <2>1, DoneInv DEF ReadTypes
<1>11. AnswersCached'
  <2> SUFFICES ASSUME NEW a \in answered' PROVE cache'[a[1]][a[2]] # NoRow
    BY DEF AnswersCached, Cached
  <2>1. a[1] \in Ranked /\ a[2] \in Dates
    BY <1>10 DEF ReadTypes
  <2>2. CASE a[1] = s /\ a[2] \in D
    BY <1>6, <1>8, <2>1, <2>2
  <2>3. CASE ~(a[1] = s /\ a[2] \in D)
    <3>1. a \in answered
      BY <1>2, <1>4, <2>3
    <3>2. cache[a[1]][a[2]] # NoRow
      BY <1>1, <3>1 DEF AnswersCached, Cached
    <3>3. cache'[a[1]][a[2]] = cache[a[1]][a[2]]
      BY <1>6, <1>8, <1>9, <2>1, <2>3
    <3>4. QED  BY <3>2, <3>3
  <2>4. QED  BY <2>2, <2>3
<1>12. QED  BY <1>2, <1>10, <1>11, DoneInv DEF ReadInv

\* The other ways a read ends leave the cache alone.
LEMMA EndsInv ==
  ASSUME ReadInv, NEW r \in Readers, WriteFails(r) \/ GiveUp(r)
  PROVE  ReadInv'
<1>1. Done(r) /\ UNCHANGED <<now, truth, cache, access, answered>>
  BY DEF WriteFails, GiveUp
<1>2. ReadTypes'
  BY <1>1, DoneInv DEF ReadInv, ReadTypes
<1>3. QED  BY <1>1, <1>2, DoneInv, CacheStays DEF ReadInv

\* Neither upstream nor the clock touches the cache.
LEMMA WorldInv ==
  ASSUME ReadInv, now' \in Nat, truth' \in [Dates -> Nat],
         UNCHANGED <<cache, access, phase, req, chain, got, tried, answered>>
  PROVE  ReadInv'
BY DEF ReadInv, ReadTypes, Chains, AnswersCached, Cached

LEMMA ReadInitInv == ReadInit => ReadInv
<1> SUFFICES ASSUME ReadInit PROVE ReadInv
  OBVIOUS
<1>1. NoReq \in AskFor /\ NoRow \in Rows
  BY DEF NoReq, AskFor, NoRow, Rows
<1>2. <<>> \in Fetched
  <2>1. <<>> \in [{} -> Nat]
    OBVIOUS
  <2>2. QED  BY <2>1 DEF Fetched
<1>3. ReadTypes
  BY <1>1, <1>2, AccessAssumption DEF ReadInit, ReadTypes
<1>4. Chains
  BY FS_EmptySet DEF ReadInit, Chains
<1>5. QED  BY <1>3, <1>4 DEF ReadInit, ReadInv, AnswersCached

LEMMA ReadStep == ReadInv /\ [ReadNext]_readVars => ReadInv'
<1> SUFFICES ASSUME ReadInv, [ReadNext]_readVars PROVE ReadInv'
  OBVIOUS
<1>1. ReadTypes
  BY DEF ReadInv
<1>2. ASSUME NEW r \in Readers, ReaderStep(r) PROVE ReadInv'
  <2>1. CASE Read(r)  BY <2>1, ReadHitInv, ReadMissInv DEF Read
  <2>2. CASE FetchOk(r)  BY <2>2, FetchOkInv
  <2>3. CASE FetchFails(r)  BY <2>3, FetchFailsInv
  <2>4. CASE Write(r)  BY <2>4, WriteInv
  <2>5. CASE WriteFails(r) \/ GiveUp(r)  BY <2>5, EndsInv
  <2>6. QED  BY <1>2, <2>1, <2>2, <2>3, <2>4, <2>5 DEF ReaderStep
<1>3. CASE Revise
  <2>1. PICK d \in Dates : truth' = [truth EXCEPT ![d] = @ + 1]
    BY <1>3 DEF Revise
  <2>2. truth' \in [Dates -> Nat] /\ now' \in Nat
    BY <1>1, <1>3, <2>1 DEF ReadTypes, Revise
  <2>3. QED  BY <1>3, <2>2, WorldInv DEF Revise, readerVars
<1>4. CASE TimePasses
  <2>1. truth' \in [Dates -> Nat] /\ now' \in Nat
    BY <1>1, <1>4 DEF ReadTypes, TimePasses
  <2>2. QED  BY <1>4, <2>1, WorldInv DEF TimePasses, readerVars
<1>5. CASE UNCHANGED readVars
  BY <1>1, <1>5, WorldInv DEF readVars, readerVars, ReadTypes
<1>6. QED  BY <1>2, <1>3, <1>4, <1>5 DEF ReadNext

LEMMA ReadInvariant == ReadSpec => []ReadInv
BY ReadInitInv, ReadStep, PTL DEF ReadSpec

\* A row of a day that is over is not stale, and a date that one of the sources holds is
\* answered with itself or an earlier date of its period.
LEMMA HeldIsServed ==
  ASSUME ReadInv, NEW S \in SUBSET Ranked, NEW d \in Dates, d < Today,
         \E s \in S : Cached(s, d)
  PROVE  Served(d, S)
<1> DEFINE dates == {x \in Period(d) : \E s \in S : Cached(s, x)}
           upTo == {x \in dates : x <= d}
           p == Picked(d, S)
<1>1. d \in Nat /\ Today \in Int
  <2>1. now \in Nat
    BY DEF ReadInv, ReadTypes
  <2>2. Today \in Int
    BY <2>1, TimeAssumption DEF Today, Day
  <2>3. QED  BY <2>2, DatesAreNumbers
<1>2. d \in Period(d) /\ Period(d) \subseteq Dates
  BY DEF Period
<1>3. d \in dates
  BY <1>2
<1>4. d \in upTo /\ upTo # {}
  BY <1>1, <1>3
<1>5. upTo \in SUBSET (0 .. Day(LastTick))
  BY <1>2 DEF Dates
<1>6. p = Max(upTo)
  BY <1>4 DEF Picked
<1>7. p \in upTo
  BY <1>4, <1>5, <1>6, DatesAreNumbers, MaxOfSet
<1>8. p <= d /\ p \in Nat
  BY <1>2, <1>7, DatesAreNumbers
<1>9. ~(Today <= p)
  BY <1>1, <1>8
<1>10. \E x \in Period(d), s \in S : Cached(s, x)
  BY <1>2
<1> HIDE DEF p
<1>11. QED  BY <1>9, <1>10 DEF Served, Stale, p

\* In a range that is over no row is stale.
LEMMA OverRangeIsServed ==
  ASSUME ReadInv, NEW D \in SUBSET {d \in Dates : d < Today},
         \E d \in D, s \in Ranked : Cached(s, d)
  PROVE  ServedRange(D)
<1>1. Today \in Int
  <2>1. now \in Nat
    BY DEF ReadInv, ReadTypes
  <2>2. QED  BY <2>1, TimeAssumption DEF Today, Day
<1>2. ASSUME NEW d \in D PROVE ~(Today <= d)
  <2>1. d \in Dates /\ d < Today
    OBVIOUS
  <2>2. d \in Nat
    BY <2>1, DatesAreNumbers
  <2>3. QED  BY <1>1, <2>1, <2>2
<1>3. QED  BY <1>2 DEF ServedRange, Stale

\* Readers, rows, the ranking and the chains keep their types (dispatch_one).
THEOREM ReadTypeCorrect == ReadSpec => []ReadTypes
<1>1. ReadInv => ReadTypes
  BY DEF ReadInv
<1>2. QED  BY <1>1, ReadInvariant, PTL

\* However many readers, sources and days there are, a date that a source answered is
\* served from the cache as soon as it is over, to reads with and without a pin to that
\* source and to ranges that are over (is_stale, _pick_period_date).
THEOREM AnswersAreKept == ReadSpec => []AnsweredStaysAnswered
<1>1. ASSUME ReadInv, NEW a \in answered, a[2] < Today
      PROVE  /\ Served(a[2], Ranked) /\ Served(a[2], {a[1]})
             /\ \A D \in SUBSET {d \in Dates : d < Today} : a[2] \in D => ServedRange(D)
  <2>1. a[1] \in Ranked /\ a[2] \in Dates /\ Cached(a[1], a[2])
    BY <1>1 DEF ReadInv, ReadTypes, AnswersCached
  <2>2. Served(a[2], Ranked)
    BY <1>1, <2>1, HeldIsServed
  <2>3. Served(a[2], {a[1]})
    BY <1>1, <2>1, HeldIsServed
  <2>4. ASSUME NEW D \in SUBSET {d \in Dates : d < Today}, a[2] \in D PROVE ServedRange(D)
    BY <1>1, <2>1, <2>4, OverRangeIsServed
  <2>5. QED  BY <2>2, <2>3, <2>4
<1>2. ReadInv => AnsweredStaysAnswered
  BY <1>1 DEF AnsweredStaysAnswered
<1>3. QED  BY <1>2, ReadInvariant, PTL

\* Whatever other readers do to the ranking meanwhile, a read that gives up has tried all
\* that might have answered, and nothing else (dispatch_one).
THEOREM MissesAreHonest == ReadSpec => MissIsHonest
<1>1. ASSUME ReadInv, NEW r \in Readers, GiveUp(r) PROVE tried[r] = Eligible(req[r].pin)
  <2>1. phase[r] = "try" /\ chain[r] = {}
    BY <1>1 DEF GiveUp
  <2>2. SourcesOf(chain[r]) = {}
    BY <2>1 DEF SourcesOf
  <2>3. QED  BY <1>1, <2>1, <2>2 DEF ReadInv, Chains
<1>2. ReadInv => \A r \in Readers : GiveUp(r) => tried[r] = Eligible(req[r].pin)
  BY <1>1
<1>3. QED  BY <1>2, ReadInvariant, PTL DEF MissIsHonest
================================================================================
